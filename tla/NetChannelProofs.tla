-------------------------- MODULE NetChannelProofs --------------------------
(* Theorems about NetChannelMgr: a port is handed out by one list only, no   *)
(* two streams have the same local port, no port is lost unmarked, and the   *)
(* two lists are a pool of leases.                                           *)
EXTENDS NetChannelMgr, SequenceTheorems, FiniteSetTheorems, TLAPS

-----------------------------------------------------------------------------
(* The search of the free list *)

\* No port is twice in the list; the 0 may be.
Distinct(list) ==
    \A i, j \in DOMAIN list : i # j /\ list[i] # 0 => list[i] # list[j]

LEMMA MinOfNat ==
    ASSUME NEW I \in SUBSET Nat, I # {}
    PROVE  Min(I) \in I
<1>1. PICK x \in I : \A y \in I : ~(<<y, x>> \in OpToRel(<, Nat))
  BY NatLessThanWellFounded, WFMin
<1>2. ASSUME NEW y \in I PROVE x =< y
  <2> DEFINE less == OpToRel(<, Nat)
  <2>1. x \in Nat /\ y \in Nat /\ <<y, x>> \notin less
    BY <1>1
  <2>2. y < x => <<y, x>> \in less
    BY <2>1 DEF OpToRel
  <2>. HIDE DEF less
  <2>. QED
    BY <2>1, <2>2
<1>. QED
  BY <1>2 DEF Min

\* The search ends at a port that can be bound, or at none.
LEMMA SearchEnds ==
    ASSUME NEW t, freeList \in Seq(Ports), FirstBindable(t) # 0
    PROVE  /\ FirstBindable(t) \in DOMAIN freeList
           /\ CanBind(t, freeList[FirstBindable(t)])
<1> DEFINE I == {i \in 1 .. Len(freeList) : CanBind(t, freeList[i])}
<1>1. FirstBindable(t) = IF I # {} THEN Min(I) ELSE 0
  BY DEF FirstBindable, SelectInSeq
<1>2. I # {} /\ FirstBindable(t) = Min(I)
  BY <1>1
<1>3. I \in SUBSET Nat
  OBVIOUS
<1>4. I # {} => Min(I) \in I
  <2>. HIDE DEF I
  <2>. QED
    BY <1>3, MinOfNat
<1>. QED
  BY <1>2, <1>4

\* Where the port at place j of the new list was in the old one, of length n.
From(i, n, j) == IF i = 0 THEN j ELSE IF j <= n - i THEN j + i ELSE j - (n - i)

LEMMA FromElsewhere ==
    ASSUME NEW n \in Nat, NEW i \in 0 .. n
    PROVE  \A j \in 1 .. (IF i = 0 THEN n ELSE n - 1) :
              /\ From(i, n, j) \in 1 .. n /\ (i # 0 => From(i, n, j) # i)
              /\ \A k \in 1 .. (IF i = 0 THEN n ELSE n - 1) :
                    j # k => From(i, n, j) # From(i, n, k)
<1>1. CASE i = 0
  BY <1>1 DEF From
<1>2. CASE i # 0
  BY <1>2 DEF From
<1>. QED
  BY <1>1, <1>2

\* What a search leaves in the free list.
LEMMA SearchLeaves ==
    ASSUME NEW t \in {"udp", "tcp"}, freeList \in Seq(Ports), Distinct(freeList),
           NEW i \in Nat, i # 0 => i \in DOMAIN freeList /\ freeList[i] # 0
    PROVE  /\ AfterSearch(t, i) \in Seq(Ports)
           /\ Distinct(AfterSearch(t, i))
           /\ ToSet(AfterSearch(t, i)) \subseteq ToSet(freeList) \union {0}
           /\ i # 0 => freeList[i] \notin ToSet(AfterSearch(t, i))
           /\ Len(AfterSearch(t, i)) = IF i = 0 THEN Len(freeList) ELSE Len(freeList) - 1
<1> DEFINE r == AfterSearch(t, i)
           n == Len(freeList)
<1>z. 0 \in Ports /\ n \in Nat /\ DOMAIN freeList = 1 .. n
  BY PoolAssumption DEF Ports
\* Each place of the new list holds 0 or what another place of the old list held.
<1>1. /\ r \in Seq(Ports) /\ Len(r) = IF i = 0 THEN n ELSE n - 1
      /\ \A j \in 1 .. Len(r) : r[j] = 0 \/ r[j] = freeList[From(i, n, j)]
  <2>1. CASE i = 0
    <3>1. r = IF t = "udp" THEN freeList ELSE [k \in DOMAIN freeList |-> 0]
      BY <2>1 DEF AfterSearch, Rejected
    <3>. QED
      BY <2>1, <3>1, <1>z DEF From
  <2>2. CASE i # 0
    <3> DEFINE head == SubSeq(freeList, 1, i - 1)
               tail == SubSeq(freeList, i + 1, n)
               back == Rejected(t, head)
    <3>1. /\ tail \in Seq(Ports) /\ Len(tail) = n - i
          /\ \A j \in 1 .. n - i : tail[j] = freeList[j + i]
      <4>1. i + 1 \in Int /\ n \in Int /\ \A k \in i + 1 .. n : freeList[k] \in Ports
        BY <2>2, <1>z
      <4>2. /\ tail \in Seq(Ports) /\ Len(tail) = IF i + 1 <= n THEN n - (i + 1) + 1 ELSE 0
            /\ \A j \in 1 .. n - (i + 1) + 1 : tail[j] = freeList[i + 1 + j - 1]
        <5>. HIDE DEF n
        <5>. QED
          BY <4>1, SubSeqProperties
      <4>. HIDE DEF tail, n
      <4>. QED
        BY <2>2, <1>z, <4>2
    <3>2. /\ head \in Seq(Ports) /\ Len(head) = i - 1
          /\ \A j \in 1 .. i - 1 : head[j] = freeList[j]
      BY <2>2, <1>z
    <3>. HIDE DEF head, tail
    <3>3. /\ back \in Seq(Ports) /\ Len(back) = i - 1
          /\ \A j \in 1 .. i - 1 : back[j] = 0 \/ back[j] = freeList[j]
      BY <2>2, <1>z, <3>2 DEF Rejected
    <3>4. r = tail \o back
      BY <2>2 DEF AfterSearch, head, tail
    <3>. HIDE DEF back, r
    <3>5. /\ r \in Seq(Ports) /\ Len(r) = Len(tail) + Len(back)
          /\ \A j \in 1 .. Len(tail) + Len(back) :
                r[j] = IF j <= Len(tail) THEN tail[j] ELSE back[j - Len(tail)]
      BY <3>1, <3>3, <3>4, ConcatProperties
    <3>. HIDE DEF n
    <3>6. i \in 1 .. n /\ n \in Nat
      BY <2>2, <1>z
    <3>7. Len(r) = n - 1
      BY <3>1, <3>3, <3>5, <3>6
    <3>8. ASSUME NEW j \in 1 .. n - 1 PROVE r[j] = 0 \/ r[j] = freeList[From(i, n, j)]
      <4>1. CASE j <= n - i
        BY <4>1, <3>1, <3>3, <3>5, <3>6, <2>2 DEF From
      <4>2. CASE ~(j <= n - i)
        <5>1. j - (n - i) \in 1 .. i - 1 /\ From(i, n, j) = j - (n - i)
          BY <4>2, <3>6, <2>2 DEF From
        <5>2. r[j] = back[j - (n - i)]
          BY <4>2, <3>1, <3>3, <3>5, <3>6
        <5>. QED
          BY <3>3, <5>1, <5>2
      <4>. QED
        BY <4>1, <4>2
    <3>. QED
      BY <2>2, <3>5, <3>7, <3>8
  <2>. QED
    BY <2>1, <2>2
<1>2. i \in 0 .. n
  BY <1>z
<1>3. \A j \in 1 .. Len(r) :
         /\ From(i, n, j) \in 1 .. n /\ (i # 0 => From(i, n, j) # i)
         /\ \A k \in 1 .. Len(r) : j # k => From(i, n, j) # From(i, n, k)
  <2>. HIDE DEF r, n
  <2>. QED
    BY <1>1, <1>2, <1>z, FromElsewhere
<1>4. DOMAIN r = 1 .. Len(r)
  BY <1>1
<1>. HIDE DEF r, n
<1>5. Distinct(r)
  BY <1>1, <1>3, <1>4, <1>z DEF Distinct
<1>6. ToSet(r) \subseteq ToSet(freeList) \union {0}
  BY <1>1, <1>3, <1>4, <1>z DEF ToSet
<1>7. i # 0 => freeList[i] \notin ToSet(r)
  BY <1>1, <1>3, <1>4, <1>z DEF ToSet, Distinct
<1>. QED
  BY <1>1, <1>5, <1>6, <1>7 DEF r, n

\* What giving a port back makes of the free list.
LEMMA PushAppends ==
    ASSUME freeList \in Seq(Ports), Distinct(freeList), NEW p \in Ports,
           p \in PortRange => p \notin ToSet(freeList)
    PROVE  /\ Returned(p) \in Seq(Ports)
           /\ Distinct(Returned(p))
           /\ ToSet(Returned(p)) = ToSet(freeList) \union ({p} \intersect PortRange)
           /\ Len(Returned(p)) = IF p \in PortRange THEN Len(freeList) + 1 ELSE Len(freeList)
<1>1. CASE p \notin PortRange
  BY <1>1 DEF Returned, PortRange
<1>2. CASE p \in PortRange
  <2> DEFINE r == Append(freeList, p)
  <2>1. Returned(p) = r
    BY <1>2 DEF Returned, PortRange
  <2>2. /\ r \in Seq(Ports) /\ DOMAIN r = DOMAIN freeList \union {Len(freeList) + 1}
        /\ Len(freeList) + 1 \notin DOMAIN freeList
        /\ \A j \in DOMAIN freeList : r[j] = freeList[j]
        /\ r[Len(freeList) + 1] = p /\ Len(r) = Len(freeList) + 1
    OBVIOUS
  <2>. HIDE DEF r
  <2>3. Distinct(r)
    BY <1>2, <2>2 DEF Distinct, ToSet
  <2>4. ToSet(r) = ToSet(freeList) \union {p}
    BY <2>2 DEF ToSet
  <2>. QED
    BY <1>2, <2>1, <2>2, <2>3, <2>4
<1>. QED
  BY <1>1, <1>2

-----------------------------------------------------------------------------
(* Types *)

LEMMA PoolFacts ==
    /\ Pool \in Seq(Ports) /\ Distinct(Pool)
    /\ ToSet(Pool) \subseteq PortRange
<1> DEFINE n == (EndPort - BeginPort + 1) \div 2
<1>1. n \in Nat /\ 2 * n <= EndPort - BeginPort + 1 /\ BeginPort \in Nat /\ EndPort \in Nat
  BY PoolAssumption
<1>2. Pool = [i \in 1 .. n |-> BeginPort + 2 * (i - 1)]
  BY DEF Pool
<1>. HIDE DEF n
<1>3. \A i \in 1 .. n : BeginPort + 2 * (i - 1) \in PortRange
  BY <1>1 DEF PortRange
<1>4. PortRange \subseteq Ports
  BY <1>1 DEF PortRange, Ports
<1>5. Pool \in Seq(Ports) /\ DOMAIN Pool = 1 .. n
  BY <1>1, <1>2, <1>3, <1>4
<1>6. \A i \in 1 .. n : Pool[i] = BeginPort + 2 * (i - 1)
  BY <1>2
<1>7. Distinct(Pool)
  BY <1>1, <1>5, <1>6 DEF Distinct
<1>8. ToSet(Pool) \subseteq PortRange
  BY <1>3, <1>5, <1>6 DEF ToSet
<1>. QED
  BY <1>5, <1>7, <1>8

\* A search may be of a list with a port twice here: only the types count.
LEMMA SearchTypes ==
    ASSUME TypeOK, NEW t \in {"udp", "tcp"}
    PROVE  /\ FirstBindable(t) # 0 => /\ FirstBindable(t) \in DOMAIN freeList
                                      /\ freeList[FirstBindable(t)] \in Ports
           /\ AfterSearch(t, FirstBindable(t)) \in Seq(Ports)
<1> DEFINE i == FirstBindable(t)
<1>1. freeList \in Seq(Ports) /\ 0 \in Ports
  BY PoolAssumption DEF TypeOK, Ports
<1>2. i # 0 => i \in DOMAIN freeList
  BY <1>1, SearchEnds
<1>. HIDE DEF i
<1>3. i # 0 => freeList[i] \in Ports
  BY <1>1, <1>2
<1>4. \A list \in Seq(Ports) : Rejected(t, list) \in Seq(Ports)
  BY <1>1 DEF Rejected
<1>5. AfterSearch(t, i) \in Seq(Ports)
  <2>1. CASE i = 0
    BY <1>1, <1>4, <2>1 DEF AfterSearch
  <2>2. CASE i # 0
    <3>1. SubSeq(freeList, i + 1, Len(freeList)) \in Seq(Ports)
      BY <1>1, <1>2, <2>2
    <3>2. SubSeq(freeList, 1, i - 1) \in Seq(Ports)
      BY <1>1, <1>2, <2>2
    <3>3. Rejected(t, SubSeq(freeList, 1, i - 1)) \in Seq(Ports)
      BY <1>4, <3>2
    <3>. QED
      BY <2>2, <3>1, <3>3, ConcatProperties DEF AfterSearch
  <2>. QED
    BY <2>1, <2>2
<1>. QED
  BY <1>2, <1>3, <1>5 DEF i

LEMMA StreamTypeOK ==
    ASSUME TypeOK, NEW m \in Media, Stream(m)
    PROVE  TypeOK'
<1>. USE DEF TypeOK
<1>p. /\ 0 \in Ports /\ MulticastPorts \subseteq Ports /\ NoPorts \in [video : Ports, audio : Ports]
      /\ Protocols \subseteq {"udp", "tcp"}
  BY PoolAssumption DEF Ports, NoPorts
<1>l. \A p \in Ports : Returned(p) \in Seq(Ports)
  BY DEF Returned
<1>g. \A location \in Locations : Goto(m, location) => pc' \in [Media -> Locations]
  BY DEF Goto
<1>e. \A port, next : next \in Locations /\ Erase(m, port, next) => TypeOK'
  BY <1>g DEF Erase
<1>u. \A port \in Ports, next \in Locations : Push(m, port, next) => TypeOK'
  BY <1>g, <1>l DEF Push
<1>f. local[m].video \in Ports /\ local[m].audio \in Ports
  OBVIOUS
<1>s. /\ \A t \in {"udp", "tcp"}, p \in Ports :
            sock[m] \union {<<t, p>>} \in SUBSET ({"udp", "tcp"} \X Ports)
      /\ \A v, a \in Ports : {<<"udp", v>>, <<"udp", a>>} \in SUBSET ({"udp", "tcp"} \X Ports)
      /\ \A set \in SUBSET ({"udp", "tcp"} \X Ports) :
            [sock EXCEPT ![m] = set] \in [Media -> SUBSET ({"udp", "tcp"} \X Ports)]
  OBVIOUS
<1>v. \A p \in Ports : /\ [local EXCEPT ![m].video = p] \in [Media -> [video : Ports, audio : Ports]]
                       /\ [local EXCEPT ![m].audio = p] \in [Media -> [video : Ports, audio : Ports]]
                       /\ [got EXCEPT ![m] = p] \in [Media -> Ports]
  OBVIOUS
<1>m. proto[m] \in {"udp", "tcp"} /\ got[m] \in Ports
  OBVIOUS
<1>1. ASSUME NEW again \in BOOLEAN, Start(m, again) PROVE TypeOK'
  BY <1>1 DEF Start, Goto, Locations
<1>2. CASE GetChannel(m)
  BY <1>2, <1>p DEF GetChannel, Goto, Locations
<1>3. CASE BindVideo(m)
  <2>1. freeList' \in Seq(Ports)
    BY <1>3, <1>m, SearchTypes DEF BindVideo, Search
  <2>2. /\ got' \in [Media -> Ports]
        /\ sock' \in [Media -> SUBSET ({"udp", "tcp"} \X Ports)]
        /\ pc' \in [Media -> Locations]
    <3>1. CASE FirstBindable(proto[m]) = 0
      BY <1>3, <3>1 DEF BindVideo, Search, Goto, Locations
    <3>2. CASE FirstBindable(proto[m]) # 0
      <4>1. freeList[FirstBindable(proto[m])] \in Ports
        BY <1>m, <3>2, SearchTypes
      <4>2. /\ got' = [got EXCEPT ![m] = freeList[FirstBindable(proto[m])]]
            /\ sock' = [sock EXCEPT ![m] = sock[m] \union {<<proto[m], freeList[FirstBindable(proto[m])]>>}]
            /\ Goto(m, "lendVideo")
        BY <1>3, <3>2 DEF BindVideo, Search
      <4>. QED
        BY <1>s, <1>v, <1>m, <1>g, <4>1, <4>2 DEF Locations
    <3>. QED
      BY <3>1, <3>2
  <2>. QED
    BY <1>3, <2>1, <2>2 DEF BindVideo
<1>4. CASE LendVideo(m)
  <2>1. pc' \in [Media -> Locations] /\ local' \in [Media -> [video : Ports, audio : Ports]]
    BY <1>4, <1>v, <1>m, <1>g DEF LendVideo, Locations
  <2>. QED
    BY <1>4, <1>m, <2>1 DEF LendVideo
<1>5. CASE BindAudio(m)
  <2>0. freeList' \in Seq(Ports)
    BY <1>5, SearchTypes DEF BindAudio
  <2>1. CASE FirstBindable("udp") = 0
    <3>1. /\ lostSock' = lostSock \union sock[m] /\ sock' = [sock EXCEPT ![m] = {}]
          /\ got' = [got EXCEPT ![m] = 0] /\ Goto(m, "drop") /\ local' = local
          /\ UNCHANGED <<busyList, channels, proto, source, foreign, restart, after>>
      BY <1>5, <2>1 DEF BindAudio
    <3>2. pc' \in [Media -> Locations]
      BY <1>g, <3>1 DEF Locations
    <3>3. sock' \in [Media -> SUBSET ({"udp", "tcp"} \X Ports)] /\ got' \in [Media -> Ports]
      BY <1>p, <1>s, <1>v, <3>1
    <3>. QED
      BY <2>0, <3>1, <3>2, <3>3
  <2>2. CASE FirstBindable("udp") # 0
    <3> DEFINE p == freeList[FirstBindable("udp")]
    <3>1. p \in Ports
      BY <2>2, SearchTypes
    <3>2. /\ local' = [local EXCEPT ![m].video = got[m]] /\ got' = [got EXCEPT ![m] = p]
          /\ sock' = [sock EXCEPT ![m] = sock[m] \union {<<"udp", p>>}]
          /\ Goto(m, "lendAudio") /\ lostSock' = lostSock
          /\ UNCHANGED <<busyList, channels, proto, source, foreign, restart, after>>
      BY <1>5, <2>2 DEF BindAudio
    <3>. HIDE DEF p
    <3>3. /\ local' \in [Media -> [video : Ports, audio : Ports]] /\ got' \in [Media -> Ports]
          /\ sock' \in [Media -> SUBSET ({"udp", "tcp"} \X Ports)] /\ pc' \in [Media -> Locations]
      BY <1>s, <1>v, <1>m, <1>g, <3>1, <3>2 DEF Locations
    <3>. QED
      BY <2>0, <3>2, <3>3
  <2>. QED
    BY <2>1, <2>2
<1>6. CASE LendAudio(m)
  BY <1>6 DEF LendAudio, Goto, Locations
<1>7. CASE Setup(m)
  BY <1>7, <1>p DEF Setup, Goto, Locations
<1>8. CASE OpenUnicast(m)
  BY <1>8 DEF OpenUnicast, Goto, Locations
<1>9. CASE McFreePorts(m)
  BY <1>9, <1>e, <1>u, <1>f DEF McFreePorts, Locations
<1>10. ASSUME NEW v \in MulticastPorts, NEW a \in MulticastPorts, OpenMulticast(m, v, a) PROVE TypeOK'
  <2>1. /\ sock' \in [Media -> SUBSET ({"udp", "tcp"} \X Ports)]
        /\ source' \in [Media -> BOOLEAN] /\ pc' \in [Media -> Locations]
    <3>1. \/ /\ sock' = [sock EXCEPT ![m] = {<<"udp", v>>, <<"udp", a>>}]
             /\ source' = [source EXCEPT ![m] = TRUE] /\ Goto(m, "mcEraseVideo")
          \/ sock' = [sock EXCEPT ![m] = {}] /\ source' = source /\ Goto(m, "eraseVideo")
      BY <1>10 DEF OpenMulticast
    <3>2. {<<"udp", v>>, <<"udp", a>>} \in SUBSET ({"udp", "tcp"} \X Ports)
      BY <1>p, <1>s
    <3>3. /\ [sock EXCEPT ![m] = {<<"udp", v>>, <<"udp", a>>}]
                \in [Media -> SUBSET ({"udp", "tcp"} \X Ports)]
          /\ [sock EXCEPT ![m] = {}] \in [Media -> SUBSET ({"udp", "tcp"} \X Ports)]
      BY <1>s, <3>2
    <3>. QED
      BY <1>g, <3>1, <3>3 DEF Locations
  <2>. QED
    BY <1>10, <2>1 DEF OpenMulticast
<1>11. ASSUME NEW v \in MulticastPorts, NEW a \in MulticastPorts, McLocal(m, v, a) PROVE TypeOK'
  BY <1>11, <1>p, <1>l, <1>f DEF McLocal, Goto, Locations
<1>12. CASE Play(m)
  BY <1>12 DEF Play, Goto, Locations
<1>13. CASE Stop(m)
  BY <1>13 DEF Stop, Goto, Locations
<1>14. CASE CloseNetStream(m)
  BY <1>14, <1>e, <1>u, <1>f DEF CloseNetStream, Locations
<1>15. CASE FreeChannel(m)
  BY <1>15, <1>p DEF FreeChannel, Goto, Locations
<1>. QED
  BY <1>1, <1>2, <1>3, <1>4, <1>5, <1>6, <1>7, <1>8, <1>9, <1>10, <1>11, <1>12, <1>13, <1>14,
     <1>15 DEF Stream

LEMMA NextTypeOK == TypeOK /\ [Next]_vars => TypeOK'
<1>1. ASSUME TypeOK, NEW p \in ForeignPorts, Foreign(p) PROVE TypeOK'
  BY <1>1 DEF Foreign, TypeOK
<1>2. ASSUME TypeOK, UNCHANGED vars PROVE TypeOK'
  BY <1>2 DEF vars, TypeOK
<1>. QED
  BY <1>1, <1>2, StreamTypeOK DEF Next

\* The lists hold ports, and every channel, socket and stream is well typed, for any pool,
\* any number of streams and whatever ports other programs hold.
THEOREM TypeCorrect == Spec => []TypeOK
<1>1. Init => TypeOK
  <2>1. NoPorts \in [video : Ports, audio : Ports] /\ 0 \in Ports
    BY PoolAssumption DEF Ports, NoPorts
  <2>. QED
    BY <2>1, PoolFacts DEF Init, TypeOK, Locations
<1>. QED
  BY <1>1, NextTypeOK, PTL DEF Spec

-----------------------------------------------------------------------------
(* Who has which port *)

\* The group's ports are not those of the client's own pool.
GroupsOutside == MulticastPorts \intersect PortRange = {}

Regrouped == {"mcEraseVideo", "mcPushVideo", "mcEraseAudio", "mcPushAudio"}

\* What the fields of one stream are at each place of a start or a stop.
InPlace(m) ==
    /\ pc[m] \notin {"idle", "getChannel"} => m \in channels
    /\ pc[m] = "getChannel" => m \notin channels
    /\ m \notin channels \/ pc[m] \in {"bindVideo", "lendVideo", "bindAudio"} => local[m] = NoPorts
    /\ pc[m] \in GotHeld => got[m] \in PortRange
    /\ pc[m] \in {"bindAudio", "lendAudio"} => proto[m] = "udp"
    /\ proto[m] # "udp" => local[m].audio = 0
    /\ pc[m] = "lendAudio" => local[m].video \in PortRange /\ local[m].video # got[m]
    /\ local[m].video \in PortRange => local[m].video # local[m].audio
    /\ pc[m] \in Regrouped =>
          /\ proto[m] = "udp"
          /\ \E v, a \in MulticastPorts : v # a /\ sock[m] = {<<"udp", v>>, <<"udp", a>>}
    /\ Announcing(m) =>
          /\ proto[m] = "udp" => local[m].video # local[m].audio
          /\ \A p \in LocalPorts(m) : p \in PortRange \/ <<"udp", p>> \in sock[m]

\* A port that is being given back has left the busy list.
LeftBusy(m) ==
    /\ pc[m] \in {"mcPushVideo", "pushVideo"} => local[m].video \notin busyList \intersect PortRange
    /\ pc[m] \in {"mcPushAudio", "pushAudio"} => local[m].audio \notin busyList \intersect PortRange

\* No port and no socket is in two hands, and none that somebody has is in the free list.
Apart ==
    \A m, n \in Media : m # n => Has(m) \intersect Has(n) = {} /\ sock[m] \intersect sock[n] = {}

Lists ==
    /\ Distinct(freeList) /\ ToSet(freeList) \subseteq PortRange \union {0}
    /\ busyList \intersect ToSet(freeList) \subseteq {0}
    /\ \A m \in Media : Has(m) \intersect ToSet(freeList) = {}

PoolInv == Lists /\ Apart /\ \A m \in Media : InPlace(m) /\ LeftBusy(m)

\* A step of m does nothing to the others.
Others(m) ==
    \A n \in Media \ {m} :
        /\ pc'[n] = pc[n] /\ got'[n] = got[n] /\ local'[n] = local[n]
        /\ sock'[n] = sock[n] /\ proto'[n] = proto[n] /\ (n \in channels' <=> n \in channels)

LEMMA StreamOthers ==
    ASSUME TypeOK, NEW m \in Media, Stream(m)
    PROVE  Others(m)
<1>t. /\ pc \in [Media -> Locations] /\ got \in [Media -> Ports]
      /\ local \in [Media -> [video : Ports, audio : Ports]]
      /\ sock \in [Media -> SUBSET ({"udp", "tcp"} \X Ports)] /\ proto \in [Media -> {"udp", "tcp"}]
  BY DEF TypeOK
<1>g. \A location : Goto(m, location) => \A n \in Media \ {m} : pc'[n] = pc[n]
  BY <1>t DEF Goto
<1>1. ASSUME NEW again \in BOOLEAN, Start(m, again) PROVE Others(m)
  BY <1>1, <1>g DEF Start, Others
<1>2. CASE GetChannel(m)
  BY <1>2, <1>g, <1>t DEF GetChannel, Others
<1>3. CASE BindVideo(m)
  BY <1>3, <1>g, <1>t DEF BindVideo, Search, Others
<1>4. CASE LendVideo(m)
  BY <1>4, <1>g, <1>t DEF LendVideo, Others
<1>5. CASE BindAudio(m)
  <2>1. CASE FirstBindable("udp") = 0
    BY <1>5, <1>g, <1>t, <2>1 DEF BindAudio, Others
  <2>2. CASE FirstBindable("udp") # 0
    BY <1>5, <1>g, <1>t, <2>2 DEF BindAudio, Others
  <2>. QED
    BY <2>1, <2>2
<1>6. CASE LendAudio(m)
  BY <1>6, <1>g, <1>t DEF LendAudio, Others
<1>7. CASE Setup(m)
  BY <1>7, <1>g, <1>t DEF Setup, Others
<1>8. CASE OpenUnicast(m)
  BY <1>8, <1>g, <1>t DEF OpenUnicast, Others
<1>9. CASE McFreePorts(m)
  BY <1>9, <1>g DEF McFreePorts, Erase, Push, Others
<1>10. ASSUME NEW v, NEW a, OpenMulticast(m, v, a) PROVE Others(m)
  <2>1. /\ UNCHANGED <<got, local, proto, channels>>
        /\ \E set : sock' = [sock EXCEPT ![m] = set]
        /\ \E location : Goto(m, location)
    BY <1>10 DEF OpenMulticast
  <2>. QED
    BY <2>1, <1>g, <1>t DEF Others
<1>11. ASSUME NEW v, NEW a, McLocal(m, v, a) PROVE Others(m)
  BY <1>11, <1>g, <1>t DEF McLocal, Others
<1>12. CASE Play(m)
  BY <1>12, <1>g DEF Play, Others
<1>13. CASE Stop(m)
  BY <1>13, <1>g DEF Stop, Others
<1>14. CASE CloseNetStream(m)
  BY <1>14, <1>g DEF CloseNetStream, Erase, Push, Others
<1>15. CASE FreeChannel(m)
  BY <1>15, <1>g, <1>t DEF FreeChannel, Others
<1>. QED
  BY <1>1, <1>2, <1>3, <1>4, <1>5, <1>6, <1>7, <1>8, <1>9, <1>10, <1>11, <1>12, <1>13, <1>14,
     <1>15 DEF Stream

\* A step of m that takes ports from the free list only, gives only its own back, and lends
\* only its own keeps the invariant, once it holds for m.
LEMMA StepOfOne ==
    ASSUME TypeOK, PoolInv, NEW m \in Media, Others(m), InPlace(m)', LeftBusy(m)',
           Distinct(freeList)', ToSet(freeList)' \subseteq ToSet(freeList) \union {0} \union Has(m),
           busyList' \subseteq busyList \union Has(m),
           busyList' \intersect ToSet(freeList)' \subseteq {0},
           Has(m)' \subseteq Has(m) \union ToSet(freeList),
           Has(m)' \intersect ToSet(freeList)' = {},
           \A n \in Media \ {m} : sock'[m] \intersect sock[n] = {}
    PROVE  PoolInv'
<1>0. 0 \notin PortRange /\ \A n \in Media : Has(n) \subseteq PortRange
  BY PoolAssumption DEF PortRange, Has
<1>1. \A n \in Media \ {m} : Has(n)' = Has(n)
  BY DEF Others, Has
<1>2. \A n \in Media \ {m} : Has(n) \intersect Has(m) = {} /\ Has(n) \intersect ToSet(freeList) = {}
  BY DEF PoolInv, Apart, Lists
<1>3. ASSUME NEW n \in Media \ {m} PROVE InPlace(n)' /\ LeftBusy(n)'
  <2>1. InPlace(n)'
    BY DEF Others, PoolInv, InPlace, Announcing, LocalPorts
  <2>2. /\ pc[n] \in {"mcPushVideo", "pushVideo"} /\ local[n].video \in PortRange => local[n].video \in Has(n)
        /\ pc[n] \in {"mcPushAudio", "pushAudio"} /\ local[n].audio \in PortRange => local[n].audio \in Has(n)
    BY DEF Has, VideoHeld, AudioHeld
  <2>3. LeftBusy(n)'
    BY <1>2, <2>2 DEF Others, PoolInv, LeftBusy
  <2>. QED
    BY <2>1, <2>3
<1>4. Lists'
  <2>1. ToSet(freeList)' \subseteq PortRange \union {0}
    BY <1>0 DEF PoolInv, Lists
  <2>2. \A n \in Media : Has(n)' \intersect ToSet(freeList)' = {}
    BY <1>0, <1>1, <1>2
  <2>. QED
    BY <2>1, <2>2 DEF Lists
<1>5. Apart'
  <2>1. ASSUME NEW n \in Media, NEW k \in Media, n # k
        PROVE  Has(n)' \intersect Has(k)' = {} /\ sock'[n] \intersect sock'[k] = {}
    <3>1. CASE n # m /\ k # m
      BY <2>1, <3>1, <1>1 DEF Others, PoolInv, Apart
    <3>2. CASE n = m
      BY <2>1, <3>2, <1>1, <1>2 DEF Others
    <3>3. CASE k = m
      BY <2>1, <3>3, <1>1, <1>2 DEF Others
    <3>. QED
      BY <3>1, <3>2, <3>3
  <2>. QED
    BY <2>1 DEF Apart
<1>. QED
  BY <1>3, <1>4, <1>5 DEF PoolInv

\* The same for a step that leaves the free list alone.
LEMMA ListLeftAlone ==
    ASSUME TypeOK, PoolInv, NEW m \in Media, Others(m), InPlace(m)', LeftBusy(m)',
           freeList' = freeList, busyList' \subseteq busyList \union Has(m), Has(m)' \subseteq Has(m),
           sock'[m] \subseteq sock[m] \/ \A n \in Media \ {m} : sock'[m] \intersect sock[n] = {}
    PROVE  PoolInv'
<1>1. /\ Distinct(freeList) /\ Has(m) \intersect ToSet(freeList) = {}
      /\ busyList \intersect ToSet(freeList) \subseteq {0}
      /\ \A n \in Media \ {m} : sock[m] \intersect sock[n] = {}
  BY DEF PoolInv, Lists, Apart
<1>2. Distinct(freeList)' /\ ToSet(freeList)' = ToSet(freeList)
  BY <1>1 DEF Distinct, ToSet
<1>3. \A n \in Media \ {m} : sock'[m] \intersect sock[n] = {}
  BY <1>1
<1>4. /\ busyList' \intersect ToSet(freeList)' \subseteq {0}
      /\ Has(m)' \intersect ToSet(freeList)' = {}
  BY <1>1, <1>2
<1>. QED
  BY <1>1, <1>2, <1>3, <1>4, StepOfOne

\* The search takes a port of the pool that nobody has, and leaves the others.
LEMMA SearchTakes ==
    ASSUME TypeOK, Lists, NEW t \in {"udp", "tcp"}
    PROVE  LET i == FirstBindable(t)
               list == AfterSearch(t, i)
           IN  /\ Distinct(list) /\ ToSet(list) \subseteq ToSet(freeList) \union {0}
               /\ i # 0 => /\ freeList[i] \in PortRange /\ freeList[i] \in ToSet(freeList)
                           /\ freeList[i] \notin ToSet(list)
                           /\ \A n \in Media : <<t, freeList[i]>> \notin sock[n]
               /\ Len(list) = IF i = 0 THEN Len(freeList) ELSE Len(freeList) - 1
<1> DEFINE i == FirstBindable(t)
<1>1. freeList \in Seq(Ports) /\ Distinct(freeList) /\ ToSet(freeList) \subseteq PortRange \union {0}
  BY DEF TypeOK, Lists
<1>2. i # 0 => i \in DOMAIN freeList /\ CanBind(t, freeList[i])
  BY <1>1, SearchEnds
<1>3. i \in Nat
  <2>. HIDE DEF i
  <2>. QED
    BY <1>1, <1>2
<1>. HIDE DEF i
<1>4. i # 0 => /\ freeList[i] # 0 /\ freeList[i] \in ToSet(freeList)
               /\ \A n \in Media : <<t, freeList[i]>> \notin sock[n]
  BY <1>2 DEF CanBind, OpenSockets, ToSet
<1>5. /\ Distinct(AfterSearch(t, i)) /\ ToSet(AfterSearch(t, i)) \subseteq ToSet(freeList) \union {0}
      /\ i # 0 => freeList[i] \notin ToSet(AfterSearch(t, i))
      /\ Len(AfterSearch(t, i)) = IF i = 0 THEN Len(freeList) ELSE Len(freeList) - 1
  BY <1>1, <1>2, <1>3, <1>4, SearchLeaves
<1>. QED
  BY <1>1, <1>4, <1>5 DEF i

LEMMA StartPoolInv ==
    ASSUME TypeOK, PoolInv, NEW m \in Media, Others(m),
           \/ \E again \in BOOLEAN : Start(m, again)
           \/ GetChannel(m) \/ BindVideo(m) \/ LendVideo(m) \/ BindAudio(m) \/ LendAudio(m)
    PROVE  PoolInv'
<1>t. /\ pc \in [Media -> Locations] /\ got \in [Media -> Ports]
      /\ local \in [Media -> [video : Ports, audio : Ports]]
      /\ sock \in [Media -> SUBSET ({"udp", "tcp"} \X Ports)] /\ proto \in [Media -> {"udp", "tcp"}]
      /\ \A q \in PortRange : q \in Nat /\ q # 0
  BY PoolAssumption DEF TypeOK, PortRange
<1>i. InPlace(m) /\ LeftBusy(m) /\ Lists /\ Apart
  BY DEF PoolInv
<1>l. Has(m) \intersect ToSet(freeList) = {} /\ busyList \intersect ToSet(freeList) \subseteq {0}
      /\ \A n \in Media \ {m} : sock[m] \intersect sock[n] = {}
  BY <1>i DEF Lists, Apart
<1>1. ASSUME NEW again \in BOOLEAN, Start(m, again) PROVE PoolInv'
  <2>1. /\ pc[m] = "idle" /\ pc'[m] = IF m \in channels THEN "eraseVideo" ELSE "getChannel"
        /\ UNCHANGED <<freeList, busyList, channels, proto, local, sock, got>>
    BY <1>1, <1>t DEF Start, Goto
  <2>2. InPlace(m)'
    BY <1>i, <2>1 DEF InPlace, GotHeld, Regrouped, Announcing
  <2>3. LeftBusy(m)' /\ Has(m)' \subseteq Has(m)
    BY <2>1 DEF LeftBusy, Has, GotHeld, VideoHeld, AudioHeld
  <2>. QED
    BY <2>1, <2>2, <2>3, ListLeftAlone
<1>2. CASE GetChannel(m)
  <2>1. /\ pc[m] = "getChannel" /\ UNCHANGED <<freeList, busyList, local, sock, got>>
        /\ \/ pc'[m] = "bindVideo" /\ m \in channels'
           \/ pc'[m] = "idle" /\ channels' = channels
    BY <1>2, <1>t DEF GetChannel, Goto
  <2>2. local[m] = NoPorts /\ NoPorts.video = 0 /\ NoPorts.audio = 0
    BY <1>i, <2>1 DEF InPlace, NoPorts
  <2>3. InPlace(m)'
    BY <1>i, <1>t, <2>1, <2>2 DEF InPlace, GotHeld, Regrouped, Announcing
  <2>4. LeftBusy(m)' /\ Has(m)' \subseteq Has(m)
    BY <1>t, <2>1, <2>2 DEF LeftBusy, Has, GotHeld, VideoHeld, AudioHeld
  <2>. QED
    BY <2>1, <2>3, <2>4, ListLeftAlone
<1>3. CASE BindVideo(m)
  <2> DEFINE i == FirstBindable(proto[m])
             list == AfterSearch(proto[m], i)
  <2>0. /\ pc[m] = "bindVideo" /\ freeList' = list /\ UNCHANGED <<busyList, channels, proto, local>>
        /\ i = 0 => pc'[m] = "drop" /\ UNCHANGED <<got, sock>>
        /\ i # 0 => /\ pc'[m] = "lendVideo" /\ got'[m] = freeList[i]
                    /\ sock'[m] = sock[m] \union {<<proto[m], freeList[i]>>}
    BY <1>3, <1>t DEF BindVideo, Search, Goto
  <2>1. proto[m] \in {"udp", "tcp"}
    BY <1>t
  <2>2. /\ Distinct(list) /\ ToSet(list) \subseteq ToSet(freeList) \union {0}
        /\ i # 0 => /\ freeList[i] \in PortRange /\ freeList[i] \in ToSet(freeList)
                    /\ freeList[i] \notin ToSet(list)
                    /\ \A n \in Media : <<proto[m], freeList[i]>> \notin sock[n]
    BY <1>i, <2>1, SearchTakes
  <2>. HIDE DEF i, list
  <2>3. local[m] = NoPorts /\ NoPorts.video = 0 /\ NoPorts.audio = 0 /\ m \in channels
    BY <1>i, <2>0 DEF InPlace, NoPorts
  <2>4. InPlace(m)'
    BY <1>t, <2>0, <2>2, <2>3 DEF InPlace, GotHeld, Regrouped, Announcing
  <2>5. LeftBusy(m)'
    BY <2>0 DEF LeftBusy
  <2>6. Has(m)' \subseteq IF i = 0 THEN {} ELSE {freeList[i]}
    BY <2>0 DEF Has, GotHeld, VideoHeld, AudioHeld
  <2>7. /\ Distinct(freeList)' /\ ToSet(freeList)' = ToSet(list)
    BY <2>0, <2>2 DEF Distinct, ToSet
  <2>8. /\ Has(m)' \subseteq ToSet(freeList) /\ Has(m)' \intersect ToSet(freeList)' = {}
        /\ busyList' \intersect ToSet(freeList)' \subseteq {0}
        /\ \A n \in Media \ {m} : sock'[m] \intersect sock[n] = {}
    BY <1>l, <2>0, <2>2, <2>6, <2>7
  <2>. QED
    BY <2>0, <2>2, <2>4, <2>5, <2>7, <2>8, StepOfOne
<1>4. CASE LendVideo(m)
  <2>1. /\ pc[m] = "lendVideo" /\ busyList' = busyList \union {got[m]}
        /\ UNCHANGED <<freeList, channels, proto, sock, got>>
        /\ \/ pc'[m] = "bindAudio" /\ proto[m] = "udp" /\ local' = local
           \/ /\ pc'[m] = "setup" /\ proto[m] # "udp"
              /\ local'[m].video = got[m] /\ local'[m].audio = local[m].audio
    BY <1>4, <1>t DEF LendVideo, Goto
  <2>2. /\ local[m] = NoPorts /\ NoPorts.video = 0 /\ NoPorts.audio = 0 /\ m \in channels
        /\ got[m] \in PortRange
    BY <1>i, <2>1 DEF InPlace, NoPorts, GotHeld
  <2>3. InPlace(m)'
    BY <1>t, <2>1, <2>2 DEF InPlace, GotHeld, Regrouped, Announcing, LocalPorts
  <2>4. LeftBusy(m)' /\ Has(m)' \subseteq Has(m) /\ got[m] \in Has(m)
    BY <1>t, <2>1, <2>2 DEF LeftBusy, Has, GotHeld, VideoHeld, AudioHeld
  <2>. QED
    BY <2>1, <2>3, <2>4, ListLeftAlone
<1>5. CASE BindAudio(m)
  <2> DEFINE i == FirstBindable("udp")
             list == AfterSearch("udp", i)
  <2>0. /\ pc[m] = "bindAudio" /\ freeList' = list /\ UNCHANGED <<busyList, channels, proto>>
        /\ i = 0 => pc'[m] = "drop" /\ local' = local /\ sock'[m] = {}
        /\ i # 0 => /\ pc'[m] = "lendAudio" /\ got'[m] = freeList[i]
                    /\ local'[m].video = got[m] /\ local'[m].audio = local[m].audio
                    /\ sock'[m] = sock[m] \union {<<"udp", freeList[i]>>}
    <3>1. CASE i = 0
      BY <1>5, <1>t, <3>1 DEF BindAudio, Goto
    <3>2. CASE i # 0
      BY <1>5, <1>t, <3>2 DEF BindAudio, Goto
    <3>. QED
      BY <3>1, <3>2
  <2>2. /\ Distinct(list) /\ ToSet(list) \subseteq ToSet(freeList) \union {0}
        /\ i # 0 => /\ freeList[i] \in PortRange /\ freeList[i] \in ToSet(freeList)
                    /\ freeList[i] \notin ToSet(list)
                    /\ \A n \in Media : <<"udp", freeList[i]>> \notin sock[n]
    BY <1>i, SearchTakes
  <2>. HIDE DEF i, list
  <2>3. /\ local[m] = NoPorts /\ NoPorts.video = 0 /\ NoPorts.audio = 0 /\ m \in channels
        /\ got[m] \in PortRange /\ proto[m] = "udp" /\ got[m] \in Has(m)
    BY <1>i, <2>0 DEF InPlace, NoPorts, GotHeld, Has
  <2>4. i # 0 => freeList[i] # got[m]
    BY <1>l, <2>2, <2>3
  <2>5. InPlace(m)'
    BY <1>t, <2>0, <2>2, <2>3, <2>4 DEF InPlace, GotHeld, Regrouped, Announcing
  <2>6. LeftBusy(m)'
    BY <2>0 DEF LeftBusy
  <2>7. Has(m)' \subseteq IF i = 0 THEN {} ELSE {freeList[i], got[m]}
    BY <2>0 DEF Has, GotHeld, VideoHeld, AudioHeld
  <2>8. /\ Distinct(freeList)' /\ ToSet(freeList)' = ToSet(list)
    BY <2>0, <2>2 DEF Distinct, ToSet
  <2>9. /\ Has(m)' \subseteq Has(m) \union ToSet(freeList)
        /\ Has(m)' \intersect ToSet(freeList)' = {}
    BY <1>l, <1>t, <2>2, <2>3, <2>7, <2>8
  <2>10. /\ busyList' \intersect ToSet(freeList)' \subseteq {0}
         /\ \A n \in Media \ {m} : sock'[m] \intersect sock[n] = {}
    BY <1>l, <2>0, <2>2, <2>8
  <2>. QED
    BY <2>0, <2>2, <2>5, <2>6, <2>8, <2>9, <2>10, StepOfOne
<1>6. CASE LendAudio(m)
  <2>1. /\ pc[m] = "lendAudio" /\ busyList' = busyList \union {got[m]} /\ pc'[m] = "setup"
        /\ UNCHANGED <<freeList, channels, proto, sock, got>>
        /\ local'[m].video = local[m].video /\ local'[m].audio = got[m]
    BY <1>6, <1>t DEF LendAudio, Goto
  <2>2. /\ m \in channels /\ got[m] \in PortRange /\ local[m].video \in PortRange
        /\ local[m].video # got[m] /\ proto[m] = "udp"
    BY <1>i, <2>1 DEF InPlace, GotHeld
  <2>3. InPlace(m)'
    BY <1>t, <2>1, <2>2 DEF InPlace, GotHeld, Regrouped, Announcing, LocalPorts
  <2>4. LeftBusy(m)' /\ Has(m)' \subseteq Has(m) /\ got[m] \in Has(m)
    BY <1>t, <2>1, <2>2 DEF LeftBusy, Has, GotHeld, VideoHeld, AudioHeld
  <2>. QED
    BY <2>1, <2>3, <2>4, ListLeftAlone
<1>. QED
  BY <1>1, <1>2, <1>3, <1>4, <1>5, <1>6

\* A step that gives a port back which left the busy list and which m has had.
LEMMA PortGivenBack ==
    ASSUME TypeOK, PoolInv, NEW m \in Media, Others(m), InPlace(m)', LeftBusy(m)',
           NEW p \in Ports, freeList' = Returned(p), busyList' = busyList,
           p \in PortRange => p \in Has(m) /\ p \notin busyList /\ p \notin Has(m)',
           Has(m)' \subseteq Has(m), sock'[m] \subseteq sock[m]
    PROVE  PoolInv'
<1>l. /\ Has(m) \intersect ToSet(freeList) = {} /\ busyList \intersect ToSet(freeList) \subseteq {0}
      /\ \A n \in Media \ {m} : sock[m] \intersect sock[n] = {}
      /\ Distinct(freeList) /\ freeList \in Seq(Ports)
  BY DEF PoolInv, Lists, Apart, TypeOK
<1>1. /\ Distinct(Returned(p))
      /\ ToSet(Returned(p)) = ToSet(freeList) \union ({p} \intersect PortRange)
  BY <1>l, PushAppends
<1>2. /\ Distinct(freeList)' /\ ToSet(freeList)' = ToSet(freeList) \union ({p} \intersect PortRange)
  BY <1>1 DEF Distinct, ToSet
<1>3. /\ ToSet(freeList)' \subseteq ToSet(freeList) \union {0} \union Has(m)
      /\ busyList' \intersect ToSet(freeList)' \subseteq {0}
      /\ Has(m)' \intersect ToSet(freeList)' = {}
      /\ \A n \in Media \ {m} : sock'[m] \intersect sock[n] = {}
  BY <1>l, <1>2
<1>. QED
  BY <1>2, <1>3, StepOfOne

LEMMA OpenPoolInv ==
    ASSUME TypeOK, PoolInv, GroupsOutside, NEW m \in Media, Others(m),
           \/ Setup(m) \/ OpenUnicast(m) \/ McFreePorts(m)
           \/ \E v, a \in MulticastPorts : OpenMulticast(m, v, a) \/ McLocal(m, v, a)
    PROVE  PoolInv'
<1>t. /\ pc \in [Media -> Locations] /\ got \in [Media -> Ports]
      /\ local \in [Media -> [video : Ports, audio : Ports]]
      /\ sock \in [Media -> SUBSET ({"udp", "tcp"} \X Ports)] /\ proto \in [Media -> {"udp", "tcp"}]
      /\ \A q \in PortRange : q \in Nat /\ q # 0
  BY PoolAssumption DEF TypeOK, PortRange
<1>i. InPlace(m) /\ LeftBusy(m) /\ Lists /\ Apart
  BY DEF PoolInv
<1>1. CASE Setup(m)
  <2>1. /\ pc[m] = "setup" /\ pc'[m] \in {"open", "drop"}
        /\ UNCHANGED <<freeList, busyList, channels, proto, local, sock>>
    BY <1>1, <1>t DEF Setup, Goto
  <2>2. InPlace(m)'
    BY <1>i, <2>1 DEF InPlace, GotHeld, Regrouped, Announcing, LocalPorts
  <2>3. LeftBusy(m)' /\ Has(m)' \subseteq Has(m)
    BY <2>1 DEF LeftBusy, Has, GotHeld, VideoHeld, AudioHeld
  <2>. QED
    BY <2>1, <2>2, <2>3, ListLeftAlone
<1>2. CASE OpenUnicast(m)
  <2>1. /\ pc[m] = "open" /\ UNCHANGED <<freeList, busyList, channels, proto, local, got>>
        /\ \/ pc'[m] = "ready" /\ sock' = sock
           \/ pc'[m] = "eraseVideo" /\ sock'[m] = {}
    BY <1>2, <1>t DEF OpenUnicast, Goto
  <2>2. InPlace(m)'
    BY <1>i, <2>1 DEF InPlace, GotHeld, Regrouped, Announcing, LocalPorts
  <2>3. LeftBusy(m)' /\ Has(m)' \subseteq Has(m)
    BY <2>1 DEF LeftBusy, Has, GotHeld, VideoHeld, AudioHeld
  <2>. QED
    BY <2>1, <2>2, <2>3, ListLeftAlone
<1>3. ASSUME NEW v \in MulticastPorts, NEW a \in MulticastPorts, OpenMulticast(m, v, a) PROVE PoolInv'
  <2>1. /\ pc[m] = "open" /\ proto[m] = "udp"
        /\ UNCHANGED <<freeList, busyList, channels, proto, local, got>>
        /\ \/ /\ pc'[m] = "mcEraseVideo" /\ sock'[m] = {<<"udp", v>>, <<"udp", a>>} /\ v # a
              /\ {<<"udp", v>>, <<"udp", a>>} \intersect (OpenSockets \ sock[m]) = {}
           \/ pc'[m] = "eraseVideo" /\ sock'[m] = {}
    BY <1>3, <1>t DEF OpenMulticast, Goto
  <2>2. InPlace(m)'
    BY <1>i, <2>1 DEF InPlace, GotHeld, Regrouped, Announcing
  <2>3. LeftBusy(m)' /\ Has(m)' \subseteq Has(m)
    BY <2>1 DEF LeftBusy, Has, GotHeld, VideoHeld, AudioHeld
  <2>4. \A n \in Media \ {m} : sock'[m] \intersect sock[n] = {}
    <3>1. \A n \in Media \ {m} : sock[n] \subseteq OpenSockets /\ sock[n] \intersect sock[m] = {}
      BY <1>i DEF OpenSockets, Apart
    <3>. QED
      BY <2>1, <3>1
  <2>. QED
    BY <2>1, <2>2, <2>3, <2>4, ListLeftAlone
<1>4. CASE McFreePorts(m)
  <2>0. /\ pc[m] \in Regrouped /\ UNCHANGED <<channels, proto, local, sock, got>>
        /\ \/ /\ pc[m] = "mcEraseVideo" /\ pc'[m] = "mcPushVideo"
              /\ busyList' = busyList \ {local[m].video} /\ freeList' = freeList
           \/ /\ pc[m] = "mcPushVideo" /\ pc'[m] = "mcEraseAudio"
              /\ busyList' = busyList /\ freeList' = Returned(local[m].video)
           \/ /\ pc[m] = "mcEraseAudio" /\ pc'[m] = "mcPushAudio"
              /\ busyList' = busyList \ {local[m].audio} /\ freeList' = freeList
    BY <1>4, <1>t DEF McFreePorts, Erase, Push, Goto, Regrouped
  <2>1. InPlace(m)'
    BY <1>i, <2>0 DEF InPlace, GotHeld, Regrouped, Announcing
  <2>2. LeftBusy(m)' /\ Has(m)' \subseteq Has(m)
    BY <2>0 DEF LeftBusy, Has, GotHeld, VideoHeld, AudioHeld
  <2>3. CASE freeList' = freeList /\ busyList' \subseteq busyList
    BY <2>0, <2>1, <2>2, <2>3, ListLeftAlone
  <2>4. CASE /\ pc[m] = "mcPushVideo" /\ pc'[m] = "mcEraseAudio"
             /\ busyList' = busyList /\ freeList' = Returned(local[m].video)
    <3>1. local[m].video \in PortRange =>
             /\ local[m].video \in Has(m) /\ local[m].video \notin busyList
             /\ local[m].video # local[m].audio
      BY <1>i, <2>4 DEF InPlace, LeftBusy, Has, VideoHeld
    <3>2. Has(m)' \subseteq {local[m].audio}
      BY <2>0, <2>4 DEF Has, GotHeld, VideoHeld
    <3>3. local[m].video \in Ports
      BY <1>t
    <3>. QED
      BY <2>0, <2>1, <2>2, <2>4, <3>1, <3>2, <3>3, PortGivenBack
  <2>. QED
    BY <2>0, <2>3, <2>4
<1>5. ASSUME NEW v \in MulticastPorts, NEW a \in MulticastPorts, McLocal(m, v, a) PROVE PoolInv'
  <2>1. /\ pc[m] = "mcPushAudio" /\ UNCHANGED <<busyList, channels, proto, got>>
        /\ sock[m] = {<<"udp", v>>, <<"udp", a>>} /\ freeList' = Returned(local[m].audio)
        /\ local'[m] = [video |-> v, audio |-> a]
        /\ \/ pc'[m] = "ready" /\ sock' = sock
           \/ pc'[m] = "eraseVideo" /\ sock'[m] = {}
    BY <1>5, <1>t DEF McLocal, Goto
  <2>2. v # a /\ v \notin PortRange /\ a \notin PortRange /\ proto[m] = "udp" /\ m \in channels
    <3>1. proto[m] = "udp" /\ m \in channels
      BY <1>i, <2>1 DEF InPlace, Regrouped
    <3>2. PICK x, y \in MulticastPorts : x # y /\ sock[m] = {<<"udp", x>>, <<"udp", y>>}
      BY <1>i, <2>1 DEF InPlace, Regrouped
    <3>3. <<"udp", x>> \in {<<"udp", v>>, <<"udp", a>>} /\ <<"udp", y>> \in {<<"udp", v>>, <<"udp", a>>}
      BY <2>1, <3>2
    <3>4. x \in {v, a} /\ y \in {v, a}
      BY <3>3
    <3>. QED
      BY <3>1, <3>2, <3>4 DEF GroupsOutside
  <2>3. InPlace(m)'
    BY <2>1, <2>2 DEF InPlace, GotHeld, Regrouped, Announcing, LocalPorts
  <2>4. LeftBusy(m)' /\ Has(m)' = {}
    BY <2>1, <2>2 DEF LeftBusy, Has, GotHeld
  <2>5. local[m].audio \in PortRange => local[m].audio \in Has(m) /\ local[m].audio \notin busyList
    BY <1>i, <2>1 DEF LeftBusy, Has, AudioHeld
  <2>6. local[m].audio \in Ports
    BY <1>t
  <2>. QED
    BY <2>1, <2>3, <2>4, <2>5, <2>6, PortGivenBack
<1>. QED
  BY <1>1, <1>2, <1>3, <1>4, <1>5

LEMMA StopPoolInv ==
    ASSUME TypeOK, PoolInv, NEW m \in Media, Others(m),
           Play(m) \/ Stop(m) \/ CloseNetStream(m) \/ FreeChannel(m)
    PROVE  PoolInv'
<1>t. /\ pc \in [Media -> Locations] /\ got \in [Media -> Ports]
      /\ local \in [Media -> [video : Ports, audio : Ports]]
      /\ sock \in [Media -> SUBSET ({"udp", "tcp"} \X Ports)] /\ proto \in [Media -> {"udp", "tcp"}]
      /\ after \in [Media -> {"idle", "getChannel"}]
      /\ \A q \in PortRange : q \in Nat /\ q # 0
  BY PoolAssumption DEF TypeOK, PortRange
<1>i. InPlace(m) /\ LeftBusy(m) /\ Lists /\ Apart
  BY DEF PoolInv
<1>1. CASE Play(m) \/ Stop(m)
  <2>1. /\ UNCHANGED <<freeList, busyList, channels, proto, local, sock, got>>
        /\ \/ pc[m] = "ready" /\ pc'[m] \in {"playing", "eraseVideo", "idle"}
           \/ pc[m] \in {"playing", "idle"} /\ m \in channels /\ pc'[m] = "eraseVideo"
    BY <1>1, <1>t DEF Play, Stop, Goto
  <2>2. InPlace(m)'
    BY <1>i, <2>1 DEF InPlace, GotHeld, Regrouped, Announcing, LocalPorts
  <2>3. LeftBusy(m)' /\ Has(m)' \subseteq Has(m)
    BY <2>1 DEF LeftBusy, Has, GotHeld, VideoHeld, AudioHeld
  <2>. QED
    BY <2>1, <2>2, <2>3, ListLeftAlone
<1>2. CASE CloseNetStream(m)
  <2>0. /\ UNCHANGED <<channels, proto, local, sock, got>>
        /\ \/ /\ pc[m] = "eraseVideo" /\ pc'[m] = "pushVideo"
              /\ busyList' = busyList \ {local[m].video} /\ freeList' = freeList
           \/ /\ pc[m] = "pushVideo" /\ pc'[m] \in {"eraseAudio", "free"}
              /\ busyList' = busyList /\ freeList' = Returned(local[m].video)
           \/ /\ pc[m] = "eraseAudio" /\ pc'[m] = "pushAudio"
              /\ busyList' = busyList \ {local[m].audio} /\ freeList' = freeList
           \/ /\ pc[m] = "pushAudio" /\ pc'[m] = "free"
              /\ busyList' = busyList /\ freeList' = Returned(local[m].audio)
    BY <1>2, <1>t DEF CloseNetStream, Erase, Push, Goto
  <2>1. InPlace(m)'
    BY <1>i, <2>0 DEF InPlace, GotHeld, Regrouped, Announcing
  <2>2. LeftBusy(m)' /\ Has(m)' \subseteq Has(m)
    BY <2>0 DEF LeftBusy, Has, GotHeld, VideoHeld, AudioHeld
  <2>3. CASE freeList' = freeList /\ busyList' \subseteq busyList
    BY <2>0, <2>1, <2>2, <2>3, ListLeftAlone
  <2>4. CASE /\ pc[m] = "pushVideo" /\ pc'[m] \in {"eraseAudio", "free"}
             /\ busyList' = busyList /\ freeList' = Returned(local[m].video)
    <3>1. local[m].video \in PortRange =>
             /\ local[m].video \in Has(m) /\ local[m].video \notin busyList
             /\ local[m].video # local[m].audio
      BY <1>i, <2>4 DEF InPlace, LeftBusy, Has, VideoHeld
    <3>2. Has(m)' \subseteq {local[m].audio}
      BY <2>0, <2>4 DEF Has, GotHeld, VideoHeld
    <3>3. local[m].video \in Ports
      BY <1>t
    <3>. QED
      BY <2>0, <2>1, <2>2, <2>4, <3>1, <3>2, <3>3, PortGivenBack
  <2>5. CASE /\ pc[m] = "pushAudio" /\ pc'[m] = "free"
             /\ busyList' = busyList /\ freeList' = Returned(local[m].audio)
    <3>1. local[m].audio \in PortRange => local[m].audio \in Has(m) /\ local[m].audio \notin busyList
      BY <1>i, <2>5 DEF LeftBusy, Has, AudioHeld
    <3>2. Has(m)' = {}
      BY <2>5 DEF Has, GotHeld, VideoHeld, AudioHeld
    <3>3. local[m].audio \in Ports
      BY <1>t
    <3>. QED
      BY <2>0, <2>1, <2>2, <2>5, <3>1, <3>2, <3>3, PortGivenBack
  <2>. QED
    BY <2>0, <2>3, <2>4, <2>5
<1>3. CASE FreeChannel(m)
  <2>1. /\ pc[m] \in {"free", "drop"} /\ pc'[m] \in {"idle", "getChannel"}
        /\ UNCHANGED <<freeList, busyList, got>> /\ m \notin channels'
        /\ local'[m] = NoPorts /\ sock'[m] = {}
    BY <1>3, <1>t DEF FreeChannel, Goto
  <2>2. NoPorts.video = 0 /\ NoPorts.audio = 0
    BY DEF NoPorts
  <2>3. InPlace(m)'
    BY <1>t, <2>1, <2>2 DEF InPlace, GotHeld, Regrouped, Announcing
  <2>4. LeftBusy(m)' /\ Has(m)' = {}
    BY <1>t, <2>1, <2>2 DEF LeftBusy, Has, GotHeld, VideoHeld, AudioHeld
  <2>. QED
    BY <2>1, <2>3, <2>4, ListLeftAlone
<1>. QED
  BY <1>1, <1>2, <1>3

LEMMA PoolInvCorrect ==
    ASSUME GroupsOutside
    PROVE  Spec => []PoolInv
<1>1. Init => PoolInv
  <2>. SUFFICES ASSUME Init PROVE PoolInv
    OBVIOUS
  <2>1. /\ freeList = Pool /\ busyList = {} /\ channels = {}
        /\ \A m \in Media : pc[m] = "idle" /\ local[m] = NoPorts /\ sock[m] = {}
    BY DEF Init
  <2>2. NoPorts.video = 0 /\ NoPorts.audio = 0 /\ 0 \notin PortRange
    BY PoolAssumption DEF NoPorts, PortRange
  <2>3. \A m \in Media : Has(m) = {} /\ InPlace(m) /\ LeftBusy(m)
    BY <2>1, <2>2 DEF Has, GotHeld, InPlace, LeftBusy, Regrouped, Announcing
  <2>. QED
    BY <2>1, <2>3, PoolFacts DEF PoolInv, Lists, Apart
<1>2. TypeOK /\ PoolInv /\ [Next]_vars => PoolInv'
  <2>. SUFFICES ASSUME TypeOK, PoolInv, [Next]_vars PROVE PoolInv'
    OBVIOUS
  <2>1. ASSUME NEW m \in Media, Stream(m) PROVE PoolInv'
    BY <2>1, StreamOthers, StartPoolInv, OpenPoolInv, StopPoolInv DEF Stream
  <2>2. CASE (\E p \in ForeignPorts : Foreign(p)) \/ UNCHANGED vars
    <3>1. UNCHANGED <<freeList, busyList, channels, proto, local, sock, got, pc>>
      BY <2>2 DEF Foreign, vars
    <3>. QED
      BY <3>1 DEF PoolInv, Lists, Apart, InPlace, LeftBusy, Has, Distinct, Announcing, LocalPorts, ToSet
  <2>. QED
    BY <2>1, <2>2 DEF Next
<1>. QED
  BY <1>1, <1>2, TypeCorrect, PTL DEF Spec

\* A port is handed out by one list only, although the two lists have no common lock: it
\* is in the free list at most once, and not while it is lent or between the two critical
\* sections of a search; when the group's ports are outside the pool.
THEOREM PortAccountingCorrect ==
    ASSUME GroupsOutside
    PROVE  Spec => []PortAccounting
<1>1. PoolInv => PortAccounting
  <2>. SUFFICES ASSUME PoolInv PROVE PortAccounting
    OBVIOUS
  <2>1. \A m \in Media : pc[m] \in {"lendVideo", "lendAudio"} => got[m] \in Has(m)
    BY DEF PoolInv, InPlace, Has, GotHeld
  <2>2. InHand \intersect ToSet(freeList) = {}
    BY <2>1 DEF InHand, PoolInv, Lists
  <2>. QED
    BY <2>2 DEF PortAccounting, PoolInv, Lists, Distinct
<1>. QED
  BY <1>1, PoolInvCorrect, PTL

\* Two streams that are set up or playing never announce the same local port, and the two
\* ports of a UDP stream differ; when the group's ports are outside the pool.
THEOREM LentOnceCorrect ==
    ASSUME GroupsOutside
    PROVE  Spec => []LentOnce
<1>1. PoolInv => LentOnce
  <2>. SUFFICES ASSUME PoolInv PROVE LentOnce
    OBVIOUS
  <2>1. ASSUME NEW m \in Media, NEW n \in Media, m # n, Announcing(m), Announcing(n)
        PROVE  LocalPorts(m) \intersect LocalPorts(n) = {}
    <3>. SUFFICES ASSUME NEW p \in LocalPorts(m), p \in LocalPorts(n) PROVE FALSE
      OBVIOUS
    <3>1. CASE p \in PortRange
      <4>1. \A k \in {m, n} : p \in Has(k)
        BY <2>1, <3>1 DEF Announcing, LocalPorts, Has, VideoHeld, AudioHeld
      <4>. QED
        BY <2>1, <4>1 DEF PoolInv, Apart
    <3>2. CASE p \notin PortRange
      <4>1. \A k \in {m, n} : <<"udp", p>> \in sock[k]
        BY <2>1, <3>2 DEF PoolInv, InPlace
      <4>. QED
        BY <2>1, <4>1 DEF PoolInv, Apart
    <3>. QED
      BY <3>1, <3>2
  <2>. QED
    BY <2>1 DEF LentOnce, PoolInv, InPlace
<1>. QED
  BY <1>1, PoolInvCorrect, PTL

-----------------------------------------------------------------------------
(* What is lost is marked: the ports of the pool are counted                 *)

PoolPorts == ToSet(Pool)

\* The ports of the pool that a stream has between the two lists.
Moving(m) ==
    PoolPorts \intersect
        ( {p \in {got[m]} : pc[m] \in {"lendVideo", "lendAudio"}}
          \union {p \in {local[m].video} : pc[m] \in {"mcPushVideo", "pushVideo"}}
          \union {p \in {local[m].audio} : pc[m] \in {"mcPushAudio", "pushAudio"}} )

Held == (busyList \intersect PoolPorts) \union UNION {Moving(m) : m \in Media}

\* A port that a stream has, and is not between the lists, is on the busy list.
InBusy(m) ==
    /\ pc[m] = "bindAudio" => got[m] \in busyList
    /\ pc[m] \in VideoHeld \ {"mcPushVideo", "pushVideo"} /\ local[m].video \in PortRange =>
          local[m].video \in busyList
    /\ pc[m] \in AudioHeld \ {"mcPushAudio", "pushAudio"} /\ local[m].audio \in PortRange =>
          local[m].audio \in busyList

\* The free list and what is held keep the size of the pool.
CountInv ==
    /\ ToSet(freeList) \subseteq PoolPorts \union {0}
    /\ \A m \in Media : Has(m) \subseteq PoolPorts /\ InBusy(m)
    /\ Len(freeList) + Cardinality(Held) = Len(Pool)

\* A list in which no port is twice has as many places as ports and zeros.
LEMMA PlacesOfList ==
    ASSUME NEW list \in Seq(Ports), Distinct(list)
    PROVE  LET zeros == {i \in DOMAIN list : list[i] = 0}
           IN  /\ IsFiniteSet(ToSet(list) \ {0}) /\ IsFiniteSet(zeros)
               /\ Cardinality(ToSet(list) \ {0}) \in Nat /\ Cardinality(zeros) \in Nat
               /\ Cardinality(ToSet(list) \ {0}) + Cardinality(zeros) = Len(list)
<1> DEFINE zeros == {i \in DOMAIN list : list[i] = 0}
           rest == DOMAIN list \ zeros
           ports == ToSet(list) \ {0}
           at == [i \in rest |-> list[i]]
<1>1. DOMAIN list = 1 .. Len(list) /\ Len(list) \in Nat
  OBVIOUS
<1>2. IsFiniteSet(DOMAIN list) /\ Cardinality(DOMAIN list) = Len(list)
  <2>1. IsFiniteSet(1 .. Len(list)) /\ Cardinality(1 .. Len(list)) = Len(list)
    BY <1>1, FS_Interval
  <2>. QED
    BY <1>1, <2>1
<1>3. IsFiniteSet(zeros) /\ IsFiniteSet(rest)
  BY <1>2, FS_Subset
<1>4. Cardinality(zeros) + Cardinality(rest) = Len(list)
  <2>1. zeros \union rest = DOMAIN list /\ zeros \intersect rest = {}
    OBVIOUS
  <2>2. Cardinality(DOMAIN list) = Cardinality(zeros) + Cardinality(rest) - Cardinality({})
    <3>1. Cardinality(zeros \union rest)
             = Cardinality(zeros) + Cardinality(rest) - Cardinality(zeros \intersect rest)
      BY <1>3, FS_Union
    <3>. HIDE DEF zeros, rest
    <3>. QED
      BY <2>1, <3>1
  <2>3. Cardinality({}) = 0 /\ Cardinality(zeros) \in Nat /\ Cardinality(rest) \in Nat
    BY <1>3, FS_EmptySet, FS_CardinalityType
  <2>. HIDE DEF zeros, rest
  <2>. QED
    BY <1>2, <2>2, <2>3
<1>5. at \in Bijection(rest, ports)
  <2>1. at \in [rest -> ports]
    BY DEF ToSet
  <2>2. \A i, j \in rest : at[i] = at[j] => i = j
    BY DEF Distinct
  <2>3. \A p \in ports : \E i \in rest : at[i] = p
    BY DEF ToSet
  <2>. HIDE DEF at, rest, ports
  <2>. QED
    BY <2>1, <2>2, <2>3 DEF Bijection, Injection, Surjection, IsInjective
<1>6. IsFiniteSet(ports) /\ Cardinality(ports) = Cardinality(rest)
  <2>1. ExistsBijection(rest, ports)
    BY <1>5 DEF ExistsBijection
  <2>. HIDE DEF rest, ports
  <2>. QED
    BY <1>3, <2>1, FS_Bijection
<1>7. Cardinality(ports) \in Nat /\ Cardinality(zeros) \in Nat
  BY <1>3, <1>6, FS_CardinalityType
<1>. QED
  BY <1>3, <1>4, <1>6, <1>7

LEMMA PoolCounts ==
    /\ PoolPorts \subseteq PortRange /\ 0 \notin PoolPorts
    /\ IsFiniteSet(PoolPorts) /\ Cardinality(PoolPorts) = Len(Pool) /\ Len(Pool) \in Nat
<1>1. Pool \in Seq(Ports) /\ Distinct(Pool) /\ PoolPorts \subseteq PortRange /\ 0 \notin PoolPorts
  BY PoolFacts, PoolAssumption DEF PoolPorts, PortRange
<1>2. ToSet(Pool) \ {0} = PoolPorts /\ {i \in DOMAIN Pool : Pool[i] = 0} = {}
  BY <1>1 DEF PoolPorts, ToSet
<1>3. IsFiniteSet(PoolPorts) /\ Cardinality(PoolPorts) \in Nat
      /\ Cardinality(PoolPorts) + Cardinality({}) = Len(Pool)
  BY <1>1, <1>2, PlacesOfList
<1>. QED
  BY <1>1, <1>3, FS_EmptySet


LEMMA HeldIsFinite == IsFiniteSet(Held) /\ Cardinality(Held) \in Nat
<1>1. Held \in SUBSET PoolPorts
  BY DEF Held, Moving
<1>. QED
  BY <1>1, PoolCounts, FS_Subset, FS_CardinalityType

\* A stream has what it moves; the others' is not touched by a step of m.
LEMMA MovingIsHad ==
    ASSUME PoolInv
    PROVE  \A m \in Media : Moving(m) \subseteq Has(m) \intersect PoolPorts
BY PoolCounts DEF Moving, Has, GotHeld, VideoHeld, AudioHeld

LEMMA OthersMove ==
    ASSUME PoolInv, NEW m \in Media, Others(m)
    PROVE  /\ \A n \in Media \ {m} : Moving(n)' = Moving(n) /\ Moving(n) \intersect Has(m) = {}
           /\ Held' = (busyList' \intersect PoolPorts) \union Moving(m)'
                         \union UNION {Moving(n) : n \in Media \ {m}}
           /\ Held = (busyList \intersect PoolPorts) \union Moving(m)
                         \union UNION {Moving(n) : n \in Media \ {m}}
<1>1. \A n \in Media \ {m} : Moving(n)' = Moving(n)
  BY DEF Others, Moving, PoolPorts, Pool
<1>2. \A n \in Media \ {m} : Moving(n) \intersect Has(m) = {}
  BY MovingIsHad DEF PoolInv, Apart
<1>3. UNION {Moving(n) : n \in Media}' = Moving(m)' \union UNION {Moving(n) : n \in Media \ {m}}
  <2> DEFINE Next_(n) == Moving(n)'
  <2>1. UNION {Moving(n) : n \in Media}' = UNION {Next_(n) : n \in Media}
    OBVIOUS
  <2>2. \A n \in Media \ {m} : Next_(n) = Moving(n)
    BY <1>1
  <2>. HIDE DEF Next_
  <2>3. UNION {Next_(n) : n \in Media} = Next_(m) \union UNION {Moving(n) : n \in Media \ {m}}
    BY <2>2
  <2>. QED
    BY <2>1, <2>3 DEF Next_
<1>4. UNION {Moving(n) : n \in Media} = Moving(m) \union UNION {Moving(n) : n \in Media \ {m}}
  OBVIOUS
<1>5. PoolPorts' = PoolPorts
  BY DEF PoolPorts, Pool
<1>. QED
  BY <1>1, <1>2, <1>3, <1>4, <1>5 DEF Held

\* A step of m keeps the invariant once it does so for m and keeps the count.
LEMMA CountStep ==
    ASSUME TypeOK, PoolInv, CountInv, NEW m \in Media, Others(m), Has(m)' \subseteq PoolPorts, InBusy(m)',
           \A p \in busyList \ busyList' : p \in Has(m) \/ p \notin PortRange,
           ToSet(freeList)' \subseteq PoolPorts \union {0},
           Len(freeList)' + Cardinality(Held)' = Len(freeList) + Cardinality(Held)
    PROVE  CountInv'
<1>1. PoolPorts' = PoolPorts /\ Len(Pool)' = Len(Pool)
  BY DEF PoolPorts, Pool
<1>2. ASSUME NEW n \in Media \ {m} PROVE Has(n)' \subseteq PoolPorts /\ InBusy(n)'
  <2>1. Has(n)' = Has(n) /\ Has(n) \intersect Has(m) = {} /\ Has(n) \subseteq PoolPorts /\ InBusy(n)
    BY DEF Others, Has, PoolInv, Apart, CountInv
  <2>2. /\ pc[n] = "bindAudio" => got[n] \in Has(n)
        /\ pc[n] \in VideoHeld /\ local[n].video \in PortRange => local[n].video \in Has(n)
        /\ pc[n] \in AudioHeld /\ local[n].audio \in PortRange => local[n].audio \in Has(n)
    BY DEF PoolInv, InPlace, Has, GotHeld
  <2>3. \A p \in Has(n) : p \in busyList => p \in busyList'
    BY <2>1 DEF Has
  <2>4. InBusy(n)'
    BY <2>1, <2>2, <2>3 DEF Others, InBusy
  <2>. QED
    BY <2>1, <2>4
<1>. QED
  BY <1>1, <1>2 DEF CountInv

\* A step that moves no port between the free list and the streams.
LEMMA CountKept ==
    ASSUME TypeOK, PoolInv, CountInv, NEW m \in Media, Others(m),
           Has(m)' \subseteq Has(m), InBusy(m)',
           \A p \in busyList \ busyList' : p \in Has(m) \/ p \notin PortRange,
           freeList' = freeList \/ (Len(freeList') = Len(freeList)
                                    /\ ToSet(freeList') \subseteq ToSet(freeList) \union {0}),
           (busyList' \intersect PoolPorts) \union Moving(m)'
              = (busyList \intersect PoolPorts) \union Moving(m)
    PROVE  CountInv'
<1>1. Held' = Held
  BY OthersMove
<1>2. Cardinality(Held)' = Cardinality(Held)
  BY <1>1
<1>3. /\ Len(freeList)' = Len(freeList) /\ ToSet(freeList)' \subseteq PoolPorts \union {0}
      /\ Has(m)' \subseteq PoolPorts
  BY DEF CountInv
<1>. QED
  BY <1>2, <1>3, CountStep

\* A step in which a search of m takes a port.
LEMMA CountTaken ==
    ASSUME TypeOK, PoolInv, CountInv, NEW m \in Media, Others(m), NEW p, p # 0, p \in ToSet(freeList),
           Has(m)' \subseteq Has(m) \union {p}, InBusy(m)', busyList' = busyList,
           Len(freeList') = Len(freeList) - 1, ToSet(freeList') \subseteq ToSet(freeList) \union {0},
           Moving(m) = {}, Moving(m)' = {p}
    PROVE  CountInv'
<1>1. /\ p \in PoolPorts /\ p \notin busyList
      /\ \A n \in Media : Moving(n) \intersect ToSet(freeList) = {}
  BY MovingIsHad DEF CountInv, PoolInv, Lists
<1>2. Held' = Held \union {p} /\ p \notin Held
  BY <1>1, OthersMove
<1>3. Cardinality(Held)' = Cardinality(Held) + 1
  BY <1>2, HeldIsFinite, FS_AddElement
<1>4. Len(freeList) \in Nat
  BY DEF TypeOK
<1>5. /\ ToSet(freeList)' \subseteq PoolPorts \union {0} /\ Has(m)' \subseteq PoolPorts
      /\ Len(freeList)' + Cardinality(Held)' = Len(freeList) + Cardinality(Held)
  BY <1>1, <1>3, <1>4, HeldIsFinite DEF CountInv
<1>. QED
  BY <1>5, CountStep

\* A step in which m gives p back: only a port of the pool counts.
LEMMA CountGivenBack ==
    ASSUME TypeOK, PoolInv, CountInv, NEW m \in Media, Others(m), NEW p \in Ports,
           freeList' = Returned(p), busyList' = busyList,
           p \in PortRange => p \in Has(m) /\ p \notin busyList,
           Has(m)' \subseteq Has(m), InBusy(m)',
           Moving(m) = {p} \intersect PoolPorts, Moving(m)' = {}
    PROVE  CountInv'
<1>1. /\ freeList \in Seq(Ports) /\ Distinct(freeList)
      /\ p \in PortRange => p \in PoolPorts /\ p \notin ToSet(freeList)
  BY DEF TypeOK, PoolInv, Lists, CountInv
<1>2. /\ ToSet(freeList') = ToSet(freeList) \union ({p} \intersect PortRange)
      /\ Len(freeList') = IF p \in PortRange THEN Len(freeList) + 1 ELSE Len(freeList)
  BY <1>1, PushAppends
<1>3. CASE p \notin PortRange
  BY <1>2, <1>3, PoolCounts, CountKept
<1>4. CASE p \in PortRange
  <2>1. p \in Held /\ Held' = Held \ {p}
    BY <1>1, <1>4, OthersMove
  <2>2. Cardinality(Held)' = Cardinality(Held) - 1
    BY <2>1, HeldIsFinite, FS_RemoveElement
  <2>3. Len(freeList) \in Nat
    BY <1>1
  <2>4. /\ ToSet(freeList)' \subseteq PoolPorts \union {0} /\ Has(m)' \subseteq PoolPorts
        /\ Len(freeList)' + Cardinality(Held)' = Len(freeList) + Cardinality(Held)
    BY <1>1, <1>2, <1>4, <2>2, <2>3, HeldIsFinite DEF CountInv
  <2>. QED
    BY <2>4, CountStep
<1>. QED
  BY <1>3, <1>4

LEMMA StartCounts ==
    ASSUME TypeOK, PoolInv, CountInv, NEW m \in Media, Others(m),
           \/ \E again \in BOOLEAN : Start(m, again)
           \/ GetChannel(m) \/ BindVideo(m) \/ LendVideo(m) \/ BindAudio(m) \/ LendAudio(m)
    PROVE  CountInv'
<1>t. /\ pc \in [Media -> Locations] /\ got \in [Media -> Ports]
      /\ local \in [Media -> [video : Ports, audio : Ports]] /\ proto \in [Media -> {"udp", "tcp"}]
      /\ 0 \notin PortRange
  BY PoolAssumption DEF TypeOK, PortRange
<1>i. InPlace(m) /\ InBusy(m) /\ Has(m) \subseteq PoolPorts /\ Lists
  BY DEF PoolInv, CountInv
<1>p. PoolPorts' = PoolPorts /\ 0 \notin PoolPorts
  BY PoolCounts DEF PoolPorts, Pool
<1>1. ASSUME NEW again \in BOOLEAN, Start(m, again) PROVE CountInv'
  <2>1. /\ pc[m] = "idle" /\ pc'[m] = IF m \in channels THEN "eraseVideo" ELSE "getChannel"
        /\ UNCHANGED <<freeList, busyList, channels, proto, local, sock, got>>
    BY <1>1, <1>t DEF Start, Goto
  <2>2. Has(m)' \subseteq Has(m) /\ InBusy(m)' /\ Moving(m)' = {} /\ Moving(m) = {}
    BY <1>i, <2>1 DEF InBusy, Has, Moving, GotHeld, VideoHeld, AudioHeld
  <2>. QED
    BY <2>1, <2>2, CountKept, <1>p
<1>2. CASE GetChannel(m)
  <2>1. /\ pc[m] = "getChannel" /\ UNCHANGED <<freeList, busyList, local, sock, got>>
        /\ pc'[m] \in {"bindVideo", "idle"}
    BY <1>2, <1>t DEF GetChannel, Goto
  <2>2. local[m] = NoPorts /\ NoPorts.video = 0 /\ NoPorts.audio = 0
    BY <1>i, <2>1 DEF InPlace, NoPorts
  <2>3. Has(m)' \subseteq Has(m) /\ InBusy(m)' /\ Moving(m)' = {} /\ Moving(m) = {}
    BY <1>t, <2>1, <2>2 DEF InBusy, Has, Moving, GotHeld, VideoHeld, AudioHeld
  <2>. QED
    BY <2>1, <2>3, CountKept, <1>p
<1>3. CASE BindVideo(m)
  <2> DEFINE i == FirstBindable(proto[m])
             list == AfterSearch(proto[m], i)
  <2>0. /\ pc[m] = "bindVideo" /\ freeList' = list /\ UNCHANGED <<busyList, channels, proto, local>>
        /\ i = 0 => pc'[m] = "drop" /\ UNCHANGED got
        /\ i # 0 => pc'[m] = "lendVideo" /\ got'[m] = freeList[i]
    BY <1>3, <1>t DEF BindVideo, Search, Goto
  <2>1. proto[m] \in {"udp", "tcp"}
    BY <1>t
  <2>2. /\ ToSet(list) \subseteq ToSet(freeList) \union {0}
        /\ i # 0 => freeList[i] \in PortRange /\ freeList[i] \in ToSet(freeList)
        /\ Len(list) = IF i = 0 THEN Len(freeList) ELSE Len(freeList) - 1
    BY <1>i, <2>1, SearchTakes
  <2>. HIDE DEF i, list
  <2>3. local[m] = NoPorts /\ NoPorts.video = 0 /\ NoPorts.audio = 0
    BY <1>i, <2>0 DEF InPlace, NoPorts
  <2>4. InBusy(m)' /\ Moving(m) = {}
    BY <1>t, <2>0, <2>3 DEF InBusy, Moving, VideoHeld, AudioHeld
  <2>5. CASE i = 0
    <3>1. Has(m)' \subseteq Has(m) /\ Moving(m)' = {}
      BY <2>0, <2>5 DEF Has, Moving, GotHeld, VideoHeld, AudioHeld
    <3>. QED
      BY <2>0, <2>2, <2>4, <2>5, <3>1, <1>p, CountKept
  <2>6. CASE i # 0
    <3>1. freeList[i] \in PoolPorts /\ freeList[i] # 0
      BY <1>t, <2>2, <2>6 DEF CountInv
    <3>2. Has(m)' \subseteq Has(m) \union {freeList[i]} /\ Moving(m)' = {freeList[i]}
      BY <1>p, <2>0, <2>6, <3>1 DEF Has, Moving, GotHeld, VideoHeld, AudioHeld
    <3>. QED
      BY <2>0, <2>2, <2>4, <2>6, <3>1, <3>2, CountTaken
  <2>. QED
    BY <2>5, <2>6
<1>4. CASE LendVideo(m)
  <2>1. /\ pc[m] = "lendVideo" /\ busyList' = busyList \union {got[m]}
        /\ UNCHANGED <<freeList, channels, proto, sock, got>>
        /\ \/ pc'[m] = "bindAudio" /\ local' = local
           \/ /\ pc'[m] = "setup"
              /\ local'[m].video = got[m] /\ local'[m].audio = local[m].audio
    BY <1>4, <1>t DEF LendVideo, Goto
  <2>2. /\ local[m] = NoPorts /\ NoPorts.video = 0 /\ NoPorts.audio = 0 /\ got[m] \in PortRange
    BY <1>i, <2>1 DEF InPlace, NoPorts, GotHeld
  <2>3. Has(m)' \subseteq Has(m) /\ InBusy(m)'
    BY <1>t, <2>1, <2>2 DEF InBusy, Has, GotHeld, VideoHeld, AudioHeld
  <2>4. Moving(m) = {got[m]} \intersect PoolPorts /\ Moving(m)' = {}
    BY <2>1 DEF Moving
  <2>. QED
    BY <1>p, <2>1, <2>3, <2>4, CountKept
<1>5. CASE BindAudio(m)
  <2> DEFINE i == FirstBindable("udp")
             list == AfterSearch("udp", i)
  <2>0. /\ pc[m] = "bindAudio" /\ freeList' = list /\ UNCHANGED <<busyList, channels, proto>>
        /\ i = 0 => pc'[m] = "drop" /\ local' = local
        /\ i # 0 => /\ pc'[m] = "lendAudio" /\ got'[m] = freeList[i]
                    /\ local'[m].video = got[m] /\ local'[m].audio = local[m].audio
    <3>1. CASE i = 0
      BY <1>5, <1>t, <3>1 DEF BindAudio, Goto
    <3>2. CASE i # 0
      BY <1>5, <1>t, <3>2 DEF BindAudio, Goto
    <3>. QED
      BY <3>1, <3>2
  <2>2. /\ ToSet(list) \subseteq ToSet(freeList) \union {0}
        /\ i # 0 => freeList[i] \in PortRange /\ freeList[i] \in ToSet(freeList)
        /\ Len(list) = IF i = 0 THEN Len(freeList) ELSE Len(freeList) - 1
    BY <1>i, SearchTakes
  <2>. HIDE DEF i, list
  <2>3. /\ local[m] = NoPorts /\ NoPorts.video = 0 /\ NoPorts.audio = 0
        /\ got[m] \in PortRange /\ got[m] \in Has(m) /\ got[m] \in busyList
    BY <1>i, <2>0 DEF InPlace, InBusy, NoPorts, GotHeld, Has
  <2>4. InBusy(m)' /\ Moving(m) = {}
    BY <1>t, <2>0, <2>3 DEF InBusy, Moving, VideoHeld, AudioHeld
  <2>5. CASE i = 0
    <3>1. Has(m)' \subseteq Has(m) /\ Moving(m)' = {}
      BY <2>0, <2>5 DEF Has, Moving, GotHeld, VideoHeld, AudioHeld
    <3>. QED
      BY <2>0, <2>2, <2>4, <2>5, <3>1, <1>p, CountKept
  <2>6. CASE i # 0
    <3>1. freeList[i] \in PoolPorts /\ freeList[i] # 0
      BY <1>t, <2>2, <2>6 DEF CountInv
    <3>2. Has(m)' \subseteq Has(m) \union {freeList[i]} /\ Moving(m)' = {freeList[i]}
      BY <1>p, <2>0, <2>3, <2>6, <3>1 DEF Has, Moving, GotHeld, VideoHeld, AudioHeld
    <3>. QED
      BY <2>0, <2>2, <2>4, <2>6, <3>1, <3>2, CountTaken
  <2>. QED
    BY <2>5, <2>6
<1>6. CASE LendAudio(m)
  <2>1. /\ pc[m] = "lendAudio" /\ busyList' = busyList \union {got[m]} /\ pc'[m] = "setup"
        /\ UNCHANGED <<freeList, channels, proto, sock, got>>
        /\ local'[m].video = local[m].video /\ local'[m].audio = got[m]
    BY <1>6, <1>t DEF LendAudio, Goto
  <2>2. Has(m)' \subseteq Has(m) /\ InBusy(m)'
    BY <1>i, <2>1 DEF InBusy, Has, GotHeld, VideoHeld, AudioHeld
  <2>3. Moving(m) = {got[m]} \intersect PoolPorts /\ Moving(m)' = {}
    BY <2>1 DEF Moving
  <2>. QED
    BY <1>p, <2>1, <2>2, <2>3, CountKept
<1>. QED
  BY <1>1, <1>2, <1>3, <1>4, <1>5, <1>6

LEMMA OpenCounts ==
    ASSUME TypeOK, PoolInv, CountInv, GroupsOutside, NEW m \in Media, Others(m),
           \/ Setup(m) \/ OpenUnicast(m) \/ McFreePorts(m)
           \/ \E v, a \in MulticastPorts : OpenMulticast(m, v, a) \/ McLocal(m, v, a)
    PROVE  CountInv'
<1>t. /\ pc \in [Media -> Locations] /\ got \in [Media -> Ports]
      /\ local \in [Media -> [video : Ports, audio : Ports]]
      /\ sock \in [Media -> SUBSET ({"udp", "tcp"} \X Ports)]
  BY DEF TypeOK
<1>i. InPlace(m) /\ LeftBusy(m) /\ InBusy(m) /\ Has(m) \subseteq PoolPorts
  BY DEF PoolInv, CountInv
<1>p. PoolPorts' = PoolPorts /\ PoolPorts \subseteq PortRange
  BY PoolCounts DEF PoolPorts, Pool
<1>1. CASE Setup(m) \/ OpenUnicast(m) \/ \E v, a \in MulticastPorts : OpenMulticast(m, v, a)
  <2>1. /\ pc[m] \in {"setup", "open"} /\ UNCHANGED <<freeList, busyList, local>>
        /\ pc'[m] \in {"open", "drop", "ready", "eraseVideo", "mcEraseVideo"}
    BY <1>1, <1>t DEF Setup, OpenUnicast, OpenMulticast, Goto
  <2>2. Has(m)' \subseteq Has(m) /\ InBusy(m)' /\ Moving(m)' = {} /\ Moving(m) = {}
    BY <1>i, <2>1 DEF InBusy, Has, Moving, GotHeld, VideoHeld, AudioHeld
  <2>. QED
    BY <2>1, <2>2, CountKept, <1>p
<1>2. CASE McFreePorts(m)
  <2>0. /\ local' = local /\ got' = got
        /\ \/ /\ pc[m] = "mcEraseVideo" /\ pc'[m] = "mcPushVideo"
              /\ busyList' = busyList \ {local[m].video} /\ freeList' = freeList
           \/ /\ pc[m] = "mcPushVideo" /\ pc'[m] = "mcEraseAudio"
              /\ busyList' = busyList /\ freeList' = Returned(local[m].video)
           \/ /\ pc[m] = "mcEraseAudio" /\ pc'[m] = "mcPushAudio"
              /\ busyList' = busyList \ {local[m].audio} /\ freeList' = freeList
    BY <1>2, <1>t DEF McFreePorts, Erase, Push, Goto
  <2>1. Has(m)' \subseteq Has(m) /\ InBusy(m)'
    BY <1>i, <2>0 DEF InPlace, InBusy, Has, GotHeld, VideoHeld, AudioHeld
  <2>2. CASE pc[m] = "mcEraseVideo"
    <3>1. Moving(m) = {} /\ Moving(m)' = {local[m].video} \intersect PoolPorts
      BY <1>p, <2>0, <2>2 DEF Moving
    <3>2. local[m].video \in PortRange => local[m].video \in Has(m) /\ local[m].video \in busyList
      BY <1>i, <2>2 DEF InBusy, Has, VideoHeld
    <3>. QED
      BY <1>p, <2>0, <2>1, <2>2, <3>1, <3>2, CountKept
  <2>3. CASE pc[m] = "mcPushVideo"
    <3>1. Moving(m) = {local[m].video} \intersect PoolPorts /\ Moving(m)' = {}
      BY <2>0, <2>3 DEF Moving
    <3>2. local[m].video \in PortRange => local[m].video \in Has(m) /\ local[m].video \notin busyList
      BY <1>i, <2>3 DEF LeftBusy, Has, VideoHeld
    <3>3. local[m].video \in Ports
      BY <1>t
    <3>. QED
      BY <2>0, <2>1, <2>3, <3>1, <3>2, <3>3, CountGivenBack
  <2>4. CASE pc[m] = "mcEraseAudio"
    <3>1. Moving(m) = {} /\ Moving(m)' = {local[m].audio} \intersect PoolPorts
      BY <1>p, <2>0, <2>4 DEF Moving
    <3>2. local[m].audio \in PortRange => local[m].audio \in Has(m) /\ local[m].audio \in busyList
      BY <1>i, <2>4 DEF InBusy, Has, AudioHeld
    <3>. QED
      BY <1>p, <2>0, <2>1, <2>4, <3>1, <3>2, CountKept
  <2>. QED
    BY <2>0, <2>2, <2>3, <2>4
<1>3. ASSUME NEW v \in MulticastPorts, NEW a \in MulticastPorts, McLocal(m, v, a) PROVE CountInv'
  <2>1. /\ pc[m] = "mcPushAudio" /\ pc'[m] \in {"ready", "eraseVideo"}
        /\ busyList' = busyList /\ freeList' = Returned(local[m].audio)
        /\ local'[m] = [video |-> v, audio |-> a]
    BY <1>3, <1>t DEF McLocal, Goto
  <2>2. Has(m)' = {} /\ InBusy(m)'
    BY <2>1 DEF GroupsOutside, InBusy, Has, GotHeld
  <2>3. Moving(m) = {local[m].audio} \intersect PoolPorts /\ Moving(m)' = {}
    BY <2>1 DEF Moving
  <2>4. local[m].audio \in PortRange => local[m].audio \in Has(m) /\ local[m].audio \notin busyList
    BY <1>i, <2>1 DEF LeftBusy, Has, AudioHeld
  <2>5. local[m].audio \in Ports
    BY <1>t
  <2>. QED
    BY <2>1, <2>2, <2>3, <2>4, <2>5, CountGivenBack
<1>. QED
  BY <1>1, <1>2, <1>3

LEMMA StopCounts ==
    ASSUME TypeOK, PoolInv, CountInv, NEW m \in Media, Others(m),
           Play(m) \/ Stop(m) \/ CloseNetStream(m) \/ FreeChannel(m)
    PROVE  CountInv'
<1>t. /\ pc \in [Media -> Locations] /\ got \in [Media -> Ports]
      /\ local \in [Media -> [video : Ports, audio : Ports]]
      /\ after \in [Media -> {"idle", "getChannel"}] /\ 0 \notin PortRange
  BY PoolAssumption DEF TypeOK, PortRange
<1>i. InPlace(m) /\ LeftBusy(m) /\ InBusy(m) /\ Has(m) \subseteq PoolPorts
  BY DEF PoolInv, CountInv
<1>p. PoolPorts' = PoolPorts /\ PoolPorts \subseteq PortRange
  BY PoolCounts DEF PoolPorts, Pool
<1>1. CASE Play(m) \/ Stop(m)
  <2>1. /\ UNCHANGED <<freeList, busyList, local, got>>
        /\ pc[m] \in {"ready", "playing", "idle"} /\ pc'[m] \in {"playing", "eraseVideo", "idle"}
    BY <1>1, <1>t DEF Play, Stop, Goto
  <2>2. Has(m)' \subseteq Has(m) /\ InBusy(m)' /\ Moving(m)' = {} /\ Moving(m) = {}
    BY <1>i, <2>1 DEF InBusy, Has, Moving, GotHeld, VideoHeld, AudioHeld
  <2>. QED
    BY <2>1, <2>2, CountKept, <1>p
<1>2. CASE CloseNetStream(m)
  <2>0. /\ local' = local /\ got' = got
        /\ \/ /\ pc[m] = "eraseVideo" /\ pc'[m] = "pushVideo"
              /\ busyList' = busyList \ {local[m].video} /\ freeList' = freeList
           \/ /\ pc[m] = "pushVideo" /\ pc'[m] \in {"eraseAudio", "free"}
              /\ busyList' = busyList /\ freeList' = Returned(local[m].video)
           \/ /\ pc[m] = "eraseAudio" /\ pc'[m] = "pushAudio"
              /\ busyList' = busyList \ {local[m].audio} /\ freeList' = freeList
           \/ /\ pc[m] = "pushAudio" /\ pc'[m] = "free"
              /\ busyList' = busyList /\ freeList' = Returned(local[m].audio)
    BY <1>2, <1>t DEF CloseNetStream, Erase, Push, Goto
  <2>1. Has(m)' \subseteq Has(m) /\ InBusy(m)'
    BY <1>i, <2>0 DEF InPlace, InBusy, Has, GotHeld, VideoHeld, AudioHeld
  <2>2. CASE pc[m] = "eraseVideo"
    <3>1. Moving(m) = {} /\ Moving(m)' = {local[m].video} \intersect PoolPorts
      BY <1>p, <2>0, <2>2 DEF Moving
    <3>2. local[m].video \in PortRange => local[m].video \in Has(m) /\ local[m].video \in busyList
      BY <1>i, <2>2 DEF InBusy, Has, VideoHeld
    <3>. QED
      BY <1>p, <2>0, <2>1, <2>2, <3>1, <3>2, CountKept
  <2>3. CASE pc[m] = "pushVideo"
    <3>1. Moving(m) = {local[m].video} \intersect PoolPorts /\ Moving(m)' = {}
      BY <2>0, <2>3 DEF Moving
    <3>2. local[m].video \in PortRange => local[m].video \in Has(m) /\ local[m].video \notin busyList
      BY <1>i, <2>3 DEF LeftBusy, Has, VideoHeld
    <3>3. local[m].video \in Ports
      BY <1>t
    <3>. QED
      BY <2>0, <2>1, <2>3, <3>1, <3>2, <3>3, CountGivenBack
  <2>4. CASE pc[m] = "eraseAudio"
    <3>1. Moving(m) = {} /\ Moving(m)' = {local[m].audio} \intersect PoolPorts
      BY <1>p, <2>0, <2>4 DEF Moving
    <3>2. local[m].audio \in PortRange => local[m].audio \in Has(m) /\ local[m].audio \in busyList
      BY <1>i, <2>4 DEF InBusy, Has, AudioHeld
    <3>. QED
      BY <1>p, <2>0, <2>1, <2>4, <3>1, <3>2, CountKept
  <2>5. CASE pc[m] = "pushAudio"
    <3>1. Moving(m) = {local[m].audio} \intersect PoolPorts /\ Moving(m)' = {}
      BY <2>0, <2>5 DEF Moving
    <3>2. local[m].audio \in PortRange => local[m].audio \in Has(m) /\ local[m].audio \notin busyList
      BY <1>i, <2>5 DEF LeftBusy, Has, AudioHeld
    <3>3. local[m].audio \in Ports
      BY <1>t
    <3>. QED
      BY <2>0, <2>1, <2>5, <3>1, <3>2, <3>3, CountGivenBack
  <2>. QED
    BY <2>0, <2>2, <2>3, <2>4, <2>5
<1>3. CASE FreeChannel(m)
  <2>1. /\ pc[m] \in {"free", "drop"} /\ pc'[m] \in {"idle", "getChannel"}
        /\ UNCHANGED <<freeList, busyList, got>> /\ local'[m] = NoPorts
    BY <1>3, <1>t DEF FreeChannel, Goto
  <2>2. NoPorts.video = 0 /\ NoPorts.audio = 0
    BY DEF NoPorts
  <2>3. Has(m)' = {} /\ InBusy(m)' /\ Moving(m)' = {} /\ Moving(m) = {}
    BY <1>t, <2>1, <2>2 DEF InBusy, Has, Moving, GotHeld, VideoHeld, AudioHeld
  <2>. QED
    BY <2>1, <2>3, CountKept, <1>p
<1>. QED
  BY <1>1, <1>2, <1>3

LEMMA CountInvCorrect ==
    ASSUME GroupsOutside
    PROVE  Spec => []CountInv
<1>1. Init => CountInv
  <2>. SUFFICES ASSUME Init PROVE CountInv
    OBVIOUS
  <2>1. /\ freeList = Pool /\ busyList = {}
        /\ \A m \in Media : pc[m] = "idle" /\ local[m] = NoPorts
    BY DEF Init
  <2>2. NoPorts.video = 0 /\ NoPorts.audio = 0 /\ 0 \notin PortRange
    BY PoolAssumption DEF NoPorts, PortRange
  <2>3. \A m \in Media : Has(m) = {} /\ InBusy(m) /\ Moving(m) = {}
    BY <2>1, <2>2 DEF Has, InBusy, Moving, GotHeld
  <2>4. Held = {}
    BY <2>1, <2>3 DEF Held
  <2>. QED
    BY <2>1, <2>3, <2>4, PoolCounts, FS_EmptySet DEF CountInv, PoolPorts
<1>2. TypeOK /\ PoolInv /\ CountInv /\ [Next]_vars => CountInv'
  <2>. SUFFICES ASSUME TypeOK, PoolInv, CountInv, [Next]_vars PROVE CountInv'
    OBVIOUS
  <2>1. ASSUME NEW m \in Media, Stream(m) PROVE CountInv'
    BY <2>1, StreamOthers, StartCounts, OpenCounts, StopCounts DEF Stream
  <2>2. CASE (\E p \in ForeignPorts : Foreign(p)) \/ UNCHANGED vars
    <3>1. UNCHANGED <<freeList, busyList, local, got, pc>>
      BY <2>2 DEF Foreign, vars
    <3>2. \A m \in Media : Has(m)' = Has(m) /\ (InBusy(m) => InBusy(m)') /\ Moving(m)' = Moving(m)
      BY <3>1 DEF Has, InBusy, Moving, PoolPorts, Pool
    <3>3. PoolPorts' = PoolPorts /\ Len(Pool)' = Len(Pool)
      BY DEF PoolPorts, Pool
    <3>4. Held' = Held
      BY <3>1 DEF Held, Moving, PoolPorts, Pool
    <3>. QED
      BY <3>1, <3>2, <3>3, <3>4 DEF CountInv, ToSet
  <2>. QED
    BY <2>1, <2>2 DEF Next
<1>. QED
  BY <1>1, <1>2, TypeCorrect, PoolInvCorrect, PTL DEF Spec

\* A port is lost in no other way than by the 0 that a TCP search puts back in its place:
\* whatever the pool, the streams, their interleaving and the ports other programs hold,
\* as many ports are neither free nor held as the free list has zeros; when the group's
\* ports are outside the pool.
THEOREM LossIsMarkedCorrect ==
    ASSUME GroupsOutside
    PROVE  Spec => []LossIsMarked
<1>1. TypeOK /\ PoolInv /\ CountInv => LossIsMarked
  <2>. SUFFICES ASSUME TypeOK, PoolInv, CountInv PROVE LossIsMarked
    OBVIOUS
  <2> DEFINE Free == ToSet(freeList) \ {0}
  <2>1. /\ IsFiniteSet(Free) /\ Cardinality(Free) \in Nat /\ Cardinality(Marks) \in Nat
        /\ Cardinality(Free) + Cardinality(Marks) = Len(freeList)
    BY PlacesOfList DEF TypeOK, PoolInv, Lists, Marks
  \* What is free and what is held are apart, and the rest of the pool is lost.
  <2>2. Free \subseteq PoolPorts /\ Held \subseteq PoolPorts /\ Free \intersect Held = {}
    <3>1. \A m \in Media : Moving(m) \intersect ToSet(freeList) = {} /\ Moving(m) \subseteq PoolPorts
      BY MovingIsHad DEF PoolInv, Lists
    <3>2. busyList \intersect Free = {} /\ Free \subseteq PoolPorts
      BY DEF PoolInv, Lists, CountInv
    <3>. QED
      BY <3>1, <3>2 DEF Held
  <2>3. Held = PoolPorts \intersect (busyList \union InHand \union BeingReturned)
    BY DEF Held, Moving, InHand, BeingReturned
  <2>4. Lost = PoolPorts \ (Free \union Held)
    BY <2>3, PoolCounts DEF Lost, PoolPorts
  <2>. HIDE DEF Free
  <2>5. /\ IsFiniteSet(Free \union Held)
        /\ Cardinality(Free \union Held) = Cardinality(Free) + Cardinality(Held)
    <3>1. Cardinality(Free \union Held) = Cardinality(Free) + Cardinality(Held) - Cardinality({})
          /\ IsFiniteSet(Free \union Held)
      BY <2>1, <2>2, HeldIsFinite, FS_Union
    <3>. QED
      BY <2>1, <3>1, HeldIsFinite, FS_EmptySet
  <2>6. Cardinality(Lost) = Cardinality(PoolPorts) - Cardinality(Free \union Held)
    <3>1. PoolPorts \intersect (Free \union Held) = Free \union Held
      BY <2>2
    <3>2. \A S : Cardinality(PoolPorts \ S) = Cardinality(PoolPorts) - Cardinality(PoolPorts \intersect S)
      BY PoolCounts, FS_Difference
    <3>3. Cardinality(PoolPorts \ (Free \union Held))
             = Cardinality(PoolPorts) - Cardinality(PoolPorts \intersect (Free \union Held))
      BY <3>2
    <3>. QED
      BY <2>4, <3>1, <3>3
  <2>7. /\ Len(freeList) + Cardinality(Held) = Len(Pool) /\ Len(freeList) \in Nat
    BY DEF CountInv, TypeOK
  <2>. QED
    BY <2>1, <2>5, <2>6, <2>7, PoolCounts, HeldIsFinite DEF LossIsMarked
<1>. QED
  BY <1>1, TypeCorrect, PoolInvCorrect, CountInvCorrect, PTL

-----------------------------------------------------------------------------
(* The lists implement leases                                                *)

SetUpPlaces == AudioHeld \ {"setup"}

\* A step of m changes the leases of m alone.
LEMMA LeaseOfOne ==
    ASSUME NEW m \in Media, Others(m)
    PROVE  /\ [k \in Media |-> Has(k)]' = [[k \in Media |-> Has(k)] EXCEPT ![m] = Has(m)']
           /\ {k \in Media : SetUp(k)}' =
                 IF SetUp(m)' THEN {k \in Media : SetUp(k)} \union {m}
                              ELSE {k \in Media : SetUp(k)} \ {m}
<1>1. ASSUME NEW n \in Media \ {m} PROVE Has(n)' = Has(n) /\ (SetUp(n)' <=> SetUp(n))
  <2>1. pc'[n] = pc[n] /\ got'[n] = got[n] /\ local'[n] = local[n]
    BY DEF Others
  <2>. QED
    BY <2>1 DEF Has, SetUp
<1> DEFINE Has_(n) == Has(n)'
           SetUp_(n) == SetUp(n)'
<1>2. /\ [k \in Media |-> Has(k)]' = [k \in Media |-> Has_(k)]
      /\ {k \in Media : SetUp(k)}' = {k \in Media : SetUp_(k)}
  OBVIOUS
<1>3. \A n \in Media \ {m} : Has_(n) = Has(n) /\ (SetUp_(n) <=> SetUp(n))
  BY <1>1
<1>. HIDE DEF Has_, SetUp_
<1>4. [k \in Media |-> Has_(k)] = [[k \in Media |-> Has(k)] EXCEPT ![m] = Has_(m)]
  BY <1>3
<1>5. {k \in Media : SetUp_(k)} = IF SetUp_(m) THEN {k \in Media : SetUp(k)} \union {m}
                                              ELSE {k \in Media : SetUp(k)} \ {m}
  BY <1>3
<1>. QED
  BY <1>2, <1>4, <1>5 DEF Has_, SetUp_

\* A step in which m keeps its ports, and nobody takes or loses one.
LEMMA LeaseKept ==
    ASSUME NEW m \in Media, Others(m), freeList' = freeList, Has(m)' = Has(m),
           Has(m) = {} \/ (pc[m] \in SetUpPlaces <=> pc'[m] \in SetUpPlaces)
    PROVE  UNCHANGED Lease!vars
<1>1. SetUp(m)' <=> SetUp(m)
  BY DEF SetUp, SetUpPlaces
<1>2. [k \in Media |-> Has(k)]' = [k \in Media |-> Has(k)]
  BY LeaseOfOne
<1>3. {k \in Media : SetUp(k)}' = {k \in Media : SetUp(k)}
  BY <1>1, LeaseOfOne
<1>4. (ToSet(freeList) \ {0})' = ToSet(freeList) \ {0}
  BY DEF ToSet
<1>. QED
  BY <1>2, <1>3, <1>4 DEF Lease!vars

\* A search of m: what it finds it has, and what else has left the free list is dropped.
LEMMA LeaseSearched ==
    ASSUME NEW m \in Media, Others(m), NEW found,
           ToSet(freeList') \subseteq ToSet(freeList) \union {0},
           found \subseteq (ToSet(freeList) \ {0}) \ ToSet(freeList'),
           \A p, q \in found : p = q, \A p, q \in Has(m) : p = q,
           Has(m)' = Has(m) \union found,
           pc[m] \notin SetUpPlaces, pc'[m] \notin SetUpPlaces
    PROVE  [Lease!Next]_(Lease!vars)
<1> DEFINE Free == ToSet(freeList) \ {0}
           dropped == (Free \ Free') \ found
<1>1. ~SetUp(m) /\ ~SetUp(m)'
  BY DEF SetUp, SetUpPlaces
<1>2. {k \in Media : SetUp(k)}' = {k \in Media : SetUp(k)}
  BY <1>1, LeaseOfOne
<1>3. [k \in Media |-> Has(k)]' = [[k \in Media |-> Has(k)] EXCEPT ![m] = @ \union found]
  BY LeaseOfOne
<1>4. Free' = Free \ (found \union dropped) /\ ToSet(freeList)' = ToSet(freeList')
  BY DEF ToSet
<1>5. found \in SUBSET Free /\ dropped \in SUBSET Free /\ found \intersect dropped = {}
  OBVIOUS
<1>6. [k \in Media |-> Has(k)][m] = Has(m)
  OBVIOUS
<1>7. Lease!Search(m, found, dropped)
  BY <1>1, <1>2, <1>3, <1>4, <1>5, <1>6 DEF Lease!Search, Lease!AtMostOne
<1>. QED
  BY <1>5, <1>7 DEF Lease!Next

\* A start of m fails: it has no port any more, and none was put back.
LEMMA LeaseForgotten ==
    ASSUME NEW m \in Media, Others(m), freeList' = freeList, Has(m)' = {}, pc[m] \notin SetUpPlaces
    PROVE  [Lease!Next]_(Lease!vars)
<1>1. ~SetUp(m) /\ ~SetUp(m)'
  BY DEF SetUp, SetUpPlaces
<1>2. {k \in Media : SetUp(k)}' = {k \in Media : SetUp(k)}
  BY <1>1, LeaseOfOne
<1>3. [k \in Media |-> Has(k)]' = [[k \in Media |-> Has(k)] EXCEPT ![m] = {}]
  BY LeaseOfOne
<1>4. (ToSet(freeList) \ {0})' = ToSet(freeList) \ {0}
  BY DEF ToSet
<1>5. Lease!Forget(m)
  BY <1>1, <1>2, <1>3, <1>4 DEF Lease!Forget
<1>. QED
  BY <1>5 DEF Lease!Next

\* m puts p back, if it is a port of the pool.
LEMMA LeaseGivenBack ==
    ASSUME TypeOK, PoolInv, NEW m \in Media, Others(m), NEW p \in Ports, freeList' = Returned(p),
           p \in PortRange => p \in Has(m),
           Has(m)' = Has(m) \ {p}, pc[m] \in SetUpPlaces, Has(m)' = {} \/ pc'[m] \in SetUpPlaces
    PROVE  [Lease!Next]_(Lease!vars)
<1>1. CASE p \notin PortRange
  <2>1. freeList' = freeList /\ Has(m)' = Has(m)
    BY <1>1 DEF Returned, PortRange, Has
  <2>. QED
    BY <2>1, LeaseKept
<1>2. CASE p \in PortRange
  <2>1. p \notin ToSet(freeList) /\ p # 0 /\ freeList \in Seq(Ports) /\ Distinct(freeList)
    BY <1>2, PoolAssumption DEF PoolInv, Lists, TypeOK, PortRange
  <2>2. ToSet(freeList') = ToSet(freeList) \union {p}
    BY <1>2, <2>1, PushAppends
  <2>3. (ToSet(freeList) \ {0})' = (ToSet(freeList) \ {0}) \union {p}
    BY <2>1, <2>2 DEF ToSet
  <2>4. SetUp(m) /\ (SetUp(m)' <=> Has(m) # {p})
    BY <1>2 DEF SetUp, SetUpPlaces
  <2>5. [k \in Media |-> Has(k)]' = [[k \in Media |-> Has(k)] EXCEPT ![m] = @ \ {p}]
    BY LeaseOfOne
  <2>6. {k \in Media : SetUp(k)}' = IF Has(m) = {p} THEN {k \in Media : SetUp(k)} \ {m}
                                                   ELSE {k \in Media : SetUp(k)}
    BY <2>4, LeaseOfOne
  <2>7. [k \in Media |-> Has(k)][m] = Has(m) /\ m \in {k \in Media : SetUp(k)}
    BY <2>4
  <2>8. Lease!GiveBack(m, p)
    BY <1>2, <2>3, <2>5, <2>6, <2>7 DEF Lease!GiveBack
  <2>. QED
    BY <1>2, <2>7, <2>8 DEF Lease!Next
<1>. QED
  BY <1>1, <1>2

LEMMA StartLeases ==
    ASSUME TypeOK, PoolInv, NEW m \in Media, Others(m),
           \/ \E again \in BOOLEAN : Start(m, again)
           \/ GetChannel(m) \/ BindVideo(m) \/ LendVideo(m) \/ BindAudio(m) \/ LendAudio(m)
    PROVE  [Lease!Next]_(Lease!vars)
<1>t. /\ pc \in [Media -> Locations] /\ got \in [Media -> Ports]
      /\ local \in [Media -> [video : Ports, audio : Ports]] /\ proto \in [Media -> {"udp", "tcp"}]
      /\ 0 \notin PortRange /\ NoPorts.video = 0 /\ NoPorts.audio = 0
  BY PoolAssumption DEF TypeOK, PortRange, NoPorts
<1>i. InPlace(m) /\ Lists
  BY DEF PoolInv
<1>1. ASSUME NEW again \in BOOLEAN, Start(m, again) PROVE [Lease!Next]_(Lease!vars)
  <2>1. /\ pc[m] = "idle" /\ pc'[m] = IF m \in channels THEN "eraseVideo" ELSE "getChannel"
        /\ UNCHANGED <<freeList, local, got>>
    BY <1>1, <1>t DEF Start, Goto
  <2>2. m \notin channels => local[m] = NoPorts
    BY <1>i DEF InPlace
  <2>3. Has(m)' = Has(m) /\ (m \notin channels => Has(m) = {})
    BY <1>t, <2>1, <2>2 DEF Has, GotHeld, VideoHeld, AudioHeld
  <2>. QED
    BY <2>1, <2>3, LeaseKept DEF SetUpPlaces, AudioHeld, VideoHeld
<1>2. CASE GetChannel(m)
  <2>1. /\ pc[m] = "getChannel" /\ UNCHANGED <<freeList, local, got>>
        /\ pc'[m] \in {"bindVideo", "idle"}
    BY <1>2, <1>t DEF GetChannel, Goto
  <2>2. local[m] = NoPorts
    BY <1>i, <2>1 DEF InPlace
  <2>3. Has(m)' = Has(m) /\ Has(m) = {}
    BY <1>t, <2>1, <2>2 DEF Has, GotHeld, VideoHeld, AudioHeld
  <2>. QED
    BY <2>1, <2>3, LeaseKept
<1>3. CASE BindVideo(m)
  <2> DEFINE i == FirstBindable(proto[m])
             list == AfterSearch(proto[m], i)
             found == IF i = 0 THEN {} ELSE {freeList[i]}
  <2>0. /\ pc[m] = "bindVideo" /\ freeList' = list /\ local' = local
        /\ i = 0 => pc'[m] = "drop"
        /\ i # 0 => pc'[m] = "lendVideo" /\ got'[m] = freeList[i]
    BY <1>3, <1>t DEF BindVideo, Search, Goto
  <2>1. proto[m] \in {"udp", "tcp"}
    BY <1>t
  <2>2. /\ ToSet(list) \subseteq ToSet(freeList) \union {0}
        /\ i # 0 => /\ freeList[i] \in PortRange /\ freeList[i] \in ToSet(freeList)
                    /\ freeList[i] \notin ToSet(list)
    BY <1>i, <2>1, SearchTakes
  <2>. HIDE DEF i, list
  <2>3. Has(m) = {} /\ Has(m)' = found
    BY <2>0, <2>2 DEF Has, GotHeld, VideoHeld, AudioHeld
  <2>4. /\ found \subseteq (ToSet(freeList) \ {0}) \ ToSet(freeList')
        /\ \A p, q \in found : p = q
    BY <1>t, <2>0, <2>2
  <2>5. pc[m] \notin SetUpPlaces /\ pc'[m] \notin SetUpPlaces
    BY <2>0 DEF SetUpPlaces, AudioHeld, VideoHeld
  <2>. HIDE DEF found
  <2>. QED
    BY <2>0, <2>2, <2>3, <2>4, <2>5, LeaseSearched
<1>4. CASE LendVideo(m)
  <2>1. /\ pc[m] = "lendVideo" /\ freeList' = freeList /\ got' = got
        /\ \/ pc'[m] = "bindAudio" /\ local' = local
           \/ /\ pc'[m] = "setup"
              /\ local'[m].video = got[m] /\ local'[m].audio = local[m].audio
    BY <1>4, <1>t DEF LendVideo, Goto
  <2>2. local[m] = NoPorts
    BY <1>i, <2>1 DEF InPlace
  <2>3. Has(m)' = Has(m)
    BY <1>t, <2>1, <2>2 DEF Has, GotHeld, VideoHeld, AudioHeld
  <2>. QED
    BY <2>1, <2>3, LeaseKept DEF SetUpPlaces, AudioHeld, VideoHeld
<1>5. CASE BindAudio(m)
  <2> DEFINE i == FirstBindable("udp")
             list == AfterSearch("udp", i)
  <2>0. /\ pc[m] = "bindAudio" /\ freeList' = list
        /\ i = 0 => pc'[m] = "drop"
        /\ i # 0 => /\ pc'[m] = "lendAudio" /\ got'[m] = freeList[i]
                    /\ local'[m].video = got[m]
    <3>1. CASE i = 0
      BY <1>5, <1>t, <3>1 DEF BindAudio, Goto
    <3>2. CASE i # 0
      BY <1>5, <1>t, <3>2 DEF BindAudio, Goto
    <3>. QED
      BY <3>1, <3>2
  <2>1. i = 0 => list = freeList
    BY DEF AfterSearch, Rejected
  <2>2. /\ ToSet(list) \subseteq ToSet(freeList) \union {0}
        /\ i # 0 => /\ freeList[i] \in PortRange /\ freeList[i] \in ToSet(freeList)
                    /\ freeList[i] \notin ToSet(list)
    BY <1>i, SearchTakes
  <2>. HIDE DEF i, list
  <2>3. Has(m) = {got[m]}
    BY <1>i, <2>0 DEF Has, InPlace, GotHeld, VideoHeld, AudioHeld
  <2>4. CASE i = 0
    <3>1. Has(m)' = {} /\ pc[m] \notin SetUpPlaces
      BY <2>0, <2>4 DEF Has, SetUpPlaces, GotHeld, VideoHeld, AudioHeld
    <3>. QED
      BY <2>0, <2>1, <2>4, <3>1, LeaseForgotten
  <2>5. CASE i # 0
    <3> DEFINE found == {freeList[i]}
    <3>1. Has(m)' = Has(m) \union found
      BY <1>i, <2>0, <2>2, <2>3, <2>5 DEF Has, InPlace, GotHeld, VideoHeld, AudioHeld
    <3>2. /\ found \subseteq (ToSet(freeList) \ {0}) \ ToSet(freeList')
          /\ \A p, q \in found : p = q
      BY <1>t, <2>0, <2>2, <2>5
    <3>3. pc[m] \notin SetUpPlaces /\ pc'[m] \notin SetUpPlaces
      BY <2>0, <2>5 DEF SetUpPlaces, AudioHeld, VideoHeld
    <3>4. \A p, q \in Has(m) : p = q
      BY <2>3
    <3>. HIDE DEF found
    <3>. QED
      BY <2>0, <2>2, <3>1, <3>2, <3>3, <3>4, LeaseSearched
  <2>. QED
    BY <2>4, <2>5
<1>6. CASE LendAudio(m)
  <2>1. /\ pc[m] = "lendAudio" /\ pc'[m] = "setup" /\ UNCHANGED <<freeList, got>>
        /\ local'[m].video = local[m].video /\ local'[m].audio = got[m]
    BY <1>6, <1>t DEF LendAudio, Goto
  <2>2. Has(m)' = Has(m)
    BY <2>1 DEF Has, GotHeld, VideoHeld, AudioHeld
  <2>. QED
    BY <2>1, <2>2, LeaseKept DEF SetUpPlaces, AudioHeld, VideoHeld
<1>. QED
  BY <1>1, <1>2, <1>3, <1>4, <1>5, <1>6

LEMMA OpenLeases ==
    ASSUME TypeOK, PoolInv, GroupsOutside, NEW m \in Media, Others(m),
           \/ Setup(m) \/ OpenUnicast(m) \/ McFreePorts(m)
           \/ \E v, a \in MulticastPorts : OpenMulticast(m, v, a) \/ McLocal(m, v, a)
    PROVE  [Lease!Next]_(Lease!vars)
<1>t. /\ pc \in [Media -> Locations] /\ local \in [Media -> [video : Ports, audio : Ports]]
  BY DEF TypeOK
<1>i. InPlace(m)
  BY DEF PoolInv
<1>1. CASE Setup(m)
  <2>1. /\ pc[m] = "setup" /\ pc'[m] \in {"open", "drop"} /\ UNCHANGED <<freeList, local>>
    BY <1>1, <1>t DEF Setup, Goto
  <2>2. CASE pc'[m] = "drop"
    <3>1. Has(m)' = {} /\ pc[m] \notin SetUpPlaces
      BY <2>1, <2>2 DEF Has, SetUpPlaces, GotHeld, VideoHeld, AudioHeld
    <3>. QED
      BY <2>1, <3>1, LeaseForgotten
  <2>3. CASE pc'[m] = "open"
    <3>1. Has(m)' = Has(m)
      BY <2>1, <2>3 DEF Has, GotHeld, VideoHeld, AudioHeld
    <3>2. CASE Has(m) = {}
      BY <2>1, <3>1, <3>2, LeaseKept
    <3>3. CASE Has(m) # {}
      <4>1. SetUp(m)'
        BY <2>3, <3>1, <3>3 DEF SetUp, AudioHeld, VideoHeld
      <4>2. {k \in Media : SetUp(k)}' = {k \in Media : SetUp(k)} \union {m}
        BY <4>1, LeaseOfOne
      <4>3. /\ [k \in Media |-> Has(k)]' = [k \in Media |-> Has(k)]
            /\ [k \in Media |-> Has(k)][m] # {}
        BY <3>1, <3>3, LeaseOfOne
      <4>4. (ToSet(freeList) \ {0})' = ToSet(freeList) \ {0}
        BY <2>1 DEF ToSet
      <4>5. Lease!Settle(m)
        BY <4>2, <4>3, <4>4 DEF Lease!Settle
      <4>. QED
        BY <4>5 DEF Lease!Next
    <3>. QED
      BY <3>2, <3>3
  <2>. QED
    BY <2>1, <2>2, <2>3
<1>2. CASE OpenUnicast(m) \/ \E v, a \in MulticastPorts : OpenMulticast(m, v, a)
  <2>1. /\ pc[m] = "open" /\ UNCHANGED <<freeList, local>>
        /\ pc'[m] \in {"ready", "eraseVideo", "mcEraseVideo"}
    BY <1>2, <1>t DEF OpenUnicast, OpenMulticast, Goto
  <2>2. Has(m)' = Has(m)
    BY <2>1 DEF Has, GotHeld, VideoHeld, AudioHeld
  <2>. QED
    BY <2>1, <2>2, LeaseKept DEF SetUpPlaces, AudioHeld, VideoHeld
<1>3. CASE McFreePorts(m)
  <2>1. /\ local' = local
        /\ \/ pc[m] = "mcEraseVideo" /\ pc'[m] = "mcPushVideo" /\ freeList' = freeList
           \/ pc[m] = "mcPushVideo" /\ pc'[m] = "mcEraseAudio" /\ freeList' = Returned(local[m].video)
           \/ pc[m] = "mcEraseAudio" /\ pc'[m] = "mcPushAudio" /\ freeList' = freeList
    BY <1>3, <1>t DEF McFreePorts, Erase, Push, Goto
  <2>2. CASE pc[m] \in {"mcEraseVideo", "mcEraseAudio"}
    <3>1. Has(m)' = Has(m)
      BY <2>1, <2>2 DEF Has, GotHeld, VideoHeld, AudioHeld
    <3>. QED
      BY <2>1, <2>2, <3>1, LeaseKept DEF SetUpPlaces, AudioHeld, VideoHeld
  <2>3. CASE pc[m] = "mcPushVideo"
    <3>1. /\ Has(m)' = Has(m) \ {local[m].video}
          /\ local[m].video \in PortRange => local[m].video \in Has(m)
      BY <1>i, <2>1, <2>3 DEF Has, InPlace, GotHeld, VideoHeld, AudioHeld
    <3>2. pc[m] \in SetUpPlaces /\ pc'[m] \in SetUpPlaces /\ local[m].video \in Ports
      BY <1>t, <2>1, <2>3 DEF SetUpPlaces, AudioHeld, VideoHeld
    <3>. QED
      BY <2>1, <2>3, <3>1, <3>2, LeaseGivenBack
  <2>. QED
    BY <2>1, <2>2, <2>3
<1>4. ASSUME NEW v \in MulticastPorts, NEW a \in MulticastPorts, McLocal(m, v, a)
      PROVE  [Lease!Next]_(Lease!vars)
  <2>1. /\ pc[m] = "mcPushAudio" /\ pc'[m] \in {"ready", "eraseVideo"}
        /\ freeList' = Returned(local[m].audio) /\ local'[m] = [video |-> v, audio |-> a]
    BY <1>4, <1>t DEF McLocal, Goto
  <2>2. Has(m)' = {}
    BY <2>1 DEF Has, GroupsOutside, GotHeld
  <2>3. Has(m) = {local[m].audio} \intersect PortRange
    BY <2>1 DEF Has, GotHeld, VideoHeld, AudioHeld
  <2>4. pc[m] \in SetUpPlaces /\ local[m].audio \in Ports
    BY <1>t, <2>1 DEF SetUpPlaces, AudioHeld, VideoHeld
  <2>. QED
    BY <2>1, <2>2, <2>3, <2>4, LeaseGivenBack
<1>. QED
  BY <1>1, <1>2, <1>3, <1>4

LEMMA StopLeases ==
    ASSUME TypeOK, PoolInv, NEW m \in Media, Others(m),
           Play(m) \/ Stop(m) \/ CloseNetStream(m) \/ FreeChannel(m)
    PROVE  [Lease!Next]_(Lease!vars)
<1>t. /\ pc \in [Media -> Locations] /\ local \in [Media -> [video : Ports, audio : Ports]]
      /\ after \in [Media -> {"idle", "getChannel"}]
      /\ 0 \notin PortRange /\ NoPorts.video = 0 /\ NoPorts.audio = 0
  BY PoolAssumption DEF TypeOK, PortRange, NoPorts
<1>i. InPlace(m)
  BY DEF PoolInv
<1>1. CASE Play(m) \/ Stop(m)
  <2>1. /\ UNCHANGED <<freeList, local, got>>
        /\ pc[m] \in {"ready", "playing", "idle"} /\ pc'[m] \in {"playing", "eraseVideo", "idle"}
    BY <1>1, <1>t DEF Play, Stop, Goto
  <2>2. Has(m)' = Has(m)
    BY <2>1 DEF Has, GotHeld, VideoHeld, AudioHeld
  <2>. QED
    BY <2>1, <2>2, LeaseKept DEF SetUpPlaces, AudioHeld, VideoHeld
<1>2. CASE CloseNetStream(m)
  <2>1. /\ local' = local
        /\ \/ pc[m] = "eraseVideo" /\ pc'[m] = "pushVideo" /\ freeList' = freeList
           \/ /\ pc[m] = "pushVideo" /\ freeList' = Returned(local[m].video)
              /\ pc'[m] = IF proto[m] = "udp" THEN "eraseAudio" ELSE "free"
           \/ pc[m] = "eraseAudio" /\ pc'[m] = "pushAudio" /\ freeList' = freeList
           \/ pc[m] = "pushAudio" /\ pc'[m] = "free" /\ freeList' = Returned(local[m].audio)
    BY <1>2, <1>t DEF CloseNetStream, Erase, Push, Goto
  <2>2. CASE pc[m] \in {"eraseVideo", "eraseAudio"}
    <3>1. Has(m)' = Has(m)
      BY <2>1, <2>2 DEF Has, GotHeld, VideoHeld, AudioHeld
    <3>. QED
      BY <2>1, <2>2, <3>1, LeaseKept DEF SetUpPlaces, AudioHeld, VideoHeld
  <2>3. CASE pc[m] = "pushVideo"
    <3>1. /\ Has(m)' = Has(m) \ {local[m].video} /\ (Has(m)' = {} \/ pc'[m] = "eraseAudio")
          /\ local[m].video \in PortRange => local[m].video \in Has(m)
      BY <1>t, <1>i, <2>1, <2>3 DEF Has, InPlace, GotHeld, VideoHeld, AudioHeld
    <3>2. pc[m] \in SetUpPlaces /\ "eraseAudio" \in SetUpPlaces /\ local[m].video \in Ports
      BY <1>t, <2>1, <2>3 DEF SetUpPlaces, AudioHeld, VideoHeld
    <3>. QED
      BY <2>1, <2>3, <3>1, <3>2, LeaseGivenBack
  <2>4. CASE pc[m] = "pushAudio"
    <3>1. Has(m)' = {} /\ Has(m) = {local[m].audio} \intersect PortRange
      BY <2>1, <2>4 DEF Has, GotHeld, VideoHeld, AudioHeld
    <3>2. pc[m] \in SetUpPlaces /\ local[m].audio \in Ports
      BY <1>t, <2>4 DEF SetUpPlaces, AudioHeld, VideoHeld
    <3>. QED
      BY <2>1, <2>4, <3>1, <3>2, LeaseGivenBack
  <2>. QED
    BY <2>1, <2>2, <2>3, <2>4
<1>3. CASE FreeChannel(m)
  <2>1. /\ pc[m] \in {"free", "drop"} /\ pc'[m] \in {"idle", "getChannel"}
        /\ freeList' = freeList /\ local'[m] = NoPorts
    BY <1>3, <1>t DEF FreeChannel, Goto
  <2>2. Has(m)' = {} /\ Has(m) = {}
    BY <1>t, <2>1 DEF Has, GotHeld, VideoHeld, AudioHeld
  <2>. QED
    BY <2>1, <2>2, LeaseKept
<1>. QED
  BY <1>1, <1>2, <1>3

LEMMA StepLeases ==
    ASSUME GroupsOutside, TypeOK, PoolInv, [Next]_vars
    PROVE  [Lease!Next]_(Lease!vars)
<1>1. ASSUME NEW m \in Media, Stream(m) PROVE [Lease!Next]_(Lease!vars)
  BY <1>1, StreamOthers, StartLeases, OpenLeases, StopLeases DEF Stream
<1>2. CASE (\E p \in ForeignPorts : Foreign(p)) \/ UNCHANGED vars
  <2>1. UNCHANGED <<freeList, local, got, pc>>
    BY <1>2 DEF Foreign, vars
  <2>. QED
    BY <2>1 DEF Lease!vars, Has, SetUp, ToSet
<1>. QED
  BY <1>1, <1>2 DEF Next

\* The two lists and the streams implement PortLease: a port comes to a stream from the
\* free list alone, at most two to one start, and a stream that was set up puts each of
\* its ports back once, for any pool, any number of streams and any interleaving; when the
\* group's ports are outside the pool.
THEOREM ImplementsLeaseCorrect ==
    ASSUME GroupsOutside
    PROVE  Spec => ImplementsLease
<1>1. Init => Lease!Init
  <2>. SUFFICES ASSUME Init PROVE Lease!Init
    OBVIOUS
  <2>1. freeList = Pool /\ \A m \in Media : pc[m] = "idle" /\ local[m] = NoPorts
    BY DEF Init
  <2>2. NoPorts.video = 0 /\ NoPorts.audio = 0 /\ 0 \notin PortRange
    BY PoolAssumption DEF NoPorts, PortRange
  <2>3. \A m \in Media : Has(m) = {} /\ ~SetUp(m)
    BY <2>1, <2>2 DEF Has, SetUp, GotHeld
  <2>. QED
    BY <2>1, <2>3, PoolCounts DEF Lease!Init, PoolPorts
<1>2. TypeOK /\ PoolInv /\ [Next]_vars => [Lease!Next]_(Lease!vars)
  BY StepLeases
<1>. QED
  BY <1>1, <1>2, TypeCorrect, PoolInvCorrect, PTL DEF Spec, ImplementsLease, Lease!Spec


\* The ports of the pool that are neither free nor with a stream.
Gone == PoolPorts \ (ToSet(freeList) \union UNION {Has(m) : m \in Media})

\* What a search drops and what a start forgets that fails before it is set up never comes
\* back: no later start, stop or change to a group's ports puts such a port into
\* circulation again (only UnInit and a new Init would); when the group's ports are
\* outside the pool.
THEOREM GoneStaysGone ==
    ASSUME GroupsOutside
    PROVE  Spec => [][Gone \subseteq Gone']_vars
<1>1. TypeOK /\ PoolInv /\ [Next]_vars => Gone \subseteq Gone'
  <2>. SUFFICES ASSUME TypeOK, PoolInv, [Next]_vars PROVE Gone \subseteq Gone'
    OBVIOUS
  <2> DEFINE free == ToSet(freeList) \ {0}
             lease == [k \in Media |-> Has(k)]
             inUse == free \union UNION {lease[k] : k \in Media}
  <2>1. Gone = PoolPorts \ inUse
    BY PoolCounts DEF Gone
  <2>2. Gone' = PoolPorts \ inUse'
    <3>1. PoolPorts' = PoolPorts /\ 0 \notin PoolPorts
      BY PoolCounts DEF PoolPorts, Pool
    <3>. QED
      BY <3>1 DEF Gone
  <2>3. inUse' \subseteq inUse
    <3>1. CASE UNCHANGED Lease!vars
      BY <3>1 DEF Lease!vars
    <3>2. CASE Lease!Next
      <4>1. PICK s \in Media :
               \/ \E found, dropped \in SUBSET free : Lease!Search(s, found, dropped)
               \/ Lease!Forget(s) \/ Lease!Settle(s)
               \/ \E p \in lease[s] : Lease!GiveBack(s, p)
        BY <3>2 DEF Lease!Next
      <4>2. \/ \E found \in SUBSET free : free' \subseteq free /\ lease' = [lease EXCEPT ![s] = @ \union found]
            \/ free' = free /\ lease' = [lease EXCEPT ![s] = {}]
            \/ free' = free /\ lease' = lease
            \/ \E p \in lease[s] : free' = free \union {p} /\ lease' = [lease EXCEPT ![s] = @ \ {p}]
        BY <4>1 DEF Lease!Search, Lease!Forget, Lease!Settle, Lease!GiveBack
      <4>3. inUse' = free' \union UNION {lease'[k] : k \in Media} /\ DOMAIN lease = Media
        OBVIOUS
      <4>. HIDE DEF free, lease
      <4>. QED
        BY <4>2, <4>3
    <3>. QED
      BY <3>1, <3>2, StepLeases
  <2>. QED
    BY <2>1, <2>2, <2>3
<1>. QED
  BY <1>1, TypeCorrect, PoolInvCorrect, PTL DEF Spec

=============================================================================
