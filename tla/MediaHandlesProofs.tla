------------------------- MODULE MediaHandlesProofs -------------------------
(* Theorems about MediaHandles, for any number of objects and of threads of  *)
(* the client.                                                               *)
EXTENDS MediaHandles, TLAPS

-----------------------------------------------------------------------------
(* How threads move *)

LEMMA Moves ==
    ASSUME TypeOK, NEW t \in Threads, NEW at \in Places, NEW o \in Objects, Goto(t, at, o)
    PROVE  /\ pc' \in [Threads -> [at : Places, of : Objects \union {Null}]]
           /\ pc'[t] = [at |-> at, of |-> o]
           /\ \A u \in Threads \ {t} : pc'[u] = pc[u]
BY DEF TypeOK, Goto

LEMMA Leaves ==
    ASSUME TypeOK, NEW t \in Threads, Return(t)
    PROVE  /\ pc' \in [Threads -> [at : Places, of : Objects \union {Null}]]
           /\ pc'[t] = [at |-> "idle", of |-> Null]
           /\ \A u \in Threads \ {t} : pc'[u] = pc[u]
<1>1. Idle \in [at : Places, of : Objects \union {Null}]
  BY DEF Idle, Places
<1>. QED
  BY <1>1 DEF TypeOK, Return, Idle

LEMMA ClientIsThread == \A t \in Clients : t \in Threads /\ t # Event
BY HandleAssumption DEF Threads

-----------------------------------------------------------------------------
(* The references *)

\* An object in the map has been put by nobody, and one that is about to be put is put
\* by one thread.
Counted ==
    /\ \A o \in m_map : m_RefCounter[o] >= 0
    /\ \A t \in Clients : pc[t].at = "put" =>
          pc[t].of \in Objects /\ pc[t].of \notin m_map /\ m_RefCounter[pc[t].of] >= 0
    /\ \A t, u \in Clients :
          pc[t].at = "put" /\ pc[u].at = "put" /\ pc[t].of = pc[u].of => t = u

LEMMA TypeInit == Init => TypeOK /\ Counted
<1>1. Idle \in [at : Places, of : Objects \union {Null}] /\ Idle.at = "idle"
  BY DEF Idle, Places
<1>2. Init => TypeOK
  BY <1>1 DEF Init, TypeOK, Kinds
<1>3. Init => \A t \in Clients : pc[t].at = "idle"
  BY <1>1, ClientIsThread DEF Init
<1>. QED
  BY <1>2, <1>3 DEF Init, Counted

\* A step that adds nothing to the map, leaves the references alone and brings no thread
\* to "put".
LEMMA CountedStays ==
    ASSUME Counted, NEW t \in Threads, m_map' \subseteq m_map, m_RefCounter' = m_RefCounter,
           \A u \in Threads \ {t} : pc'[u] = pc[u], pc'[t].at # "put"
    PROVE  Counted'
<1>1. \A u \in Clients : pc'[u].at = "put" => pc'[u] = pc[u]
  BY ClientIsThread
<1>. QED
  BY <1>1 DEF Counted

LEMMA StartsType ==
    ASSUME TypeOK, Counted, NEW t \in Clients, NEW k \in Kinds, TakeFree(t, k) \/ New(t, k)
    PROVE  TypeOK' /\ Counted'
<1>0. t \in Threads /\ "lock" \in Places
  BY ClientIsThread DEF Places, UsePlaces
<1>1. CASE TakeFree(t, k)
  <2>1. PICK o \in Objects : /\ busy' = busy \union {o} /\ named' = named \union {o}
                             /\ Goto(t, "lock", o)
    BY <1>1 DEF TakeFree, FreeOnes, TypeOK
  <2>2. UNCHANGED <<mapVars, finished, m_pMediaMutex, streamVars, useVars>>
    BY <1>1 DEF TakeFree
  <2>3. /\ pc' \in [Threads -> [at : Places, of : Objects \union {Null}]]
        /\ pc'[t] = [at |-> "lock", of |-> o]
        /\ \A u \in Threads \ {t} : pc'[u] = pc[u]
    BY <1>0, <2>1, Moves
  <2>4. Counted'
    BY <1>0, <2>2, <2>3, CountedStays DEF mapVars
  <2>. QED
    BY <2>1, <2>2, <2>3, <2>4 DEF TypeOK, mapVars, streamVars, useVars
<1>2. CASE New(t, k)
  <2>1. PICK o \in Objects :
          /\ Fresh(o)
          /\ m_map' = m_map \union {o}
          /\ live' = live \union {o}
          /\ kind' = [kind EXCEPT ![o] = k]
          /\ m_RefCounter' = [m_RefCounter EXCEPT ![o] = 0]
          /\ busy' = busy \union {o}
          /\ finished' = finished \ {o}
          /\ named' = named \union {o}
          /\ Unlock(o)
          /\ Goto(t, "lock", o)
    BY <1>2 DEF New
  <2>2. UNCHANGED <<streamVars, useVars>>
    BY <1>2 DEF New
  <2>3. /\ pc' \in [Threads -> [at : Places, of : Objects \union {Null}]]
        /\ pc'[t] = [at |-> "lock", of |-> o]
        /\ \A u \in Threads \ {t} : pc'[u] = pc[u]
    BY <1>0, <2>1, Moves
  <2>4. m_pMediaMutex' \in [Objects -> Threads \union {Null}]
    BY <2>1 DEF Unlock, TypeOK
  <2>5. m_RefCounter' \in [Objects -> -1..2] /\ kind' \in [Objects -> Kinds]
    BY <2>1 DEF TypeOK
  <2>6. TypeOK'
    BY <2>1, <2>2, <2>3, <2>4, <2>5 DEF TypeOK, streamVars, useVars
  <2>7. \A u \in Clients : pc[u].of # o
    BY <2>1, ClientIsThread DEF Fresh, Rests
  <2>8. \A u \in Clients : pc'[u].at = "put" => pc'[u] = pc[u]
    BY <2>3, ClientIsThread
  <2>9. \A p \in Objects : m_RefCounter'[p] = IF p = o THEN 0 ELSE m_RefCounter[p]
    BY <2>1 DEF TypeOK
  <2>10. m_map \subseteq Objects
    BY DEF TypeOK
  <2>11. Counted'
    BY <2>1, <2>7, <2>8, <2>9, <2>10 DEF Counted
  <2>. QED
    BY <2>6, <2>11
<1>. QED
  BY <1>1, <1>2

\* A thread goes on, or returns.
LEMMA Steps ==
    ASSUME TypeOK, Counted, NEW t \in Threads, NEW o \in Objects, NEW at \in Places \ {"put"},
           Goto(t, at, o) \/ Return(t)
    PROVE  /\ pc' \in [Threads -> [at : Places, of : Objects \union {Null}]]
           /\ m_map' \subseteq m_map /\ m_RefCounter' = m_RefCounter => Counted'
<1>1. /\ pc' \in [Threads -> [at : Places, of : Objects \union {Null}]]
      /\ pc'[t].at # "put"
      /\ \A u \in Threads \ {t} : pc'[u] = pc[u]
  <2>1. CASE Goto(t, at, o)
    <3>1. at \in Places /\ at # "put"
      OBVIOUS
    <3>2. pc'[t] = [at |-> at, of |-> o]
      BY <2>1, <3>1, Moves
    <3>. QED
      BY <2>1, <3>1, <3>2, Moves
  <2>2. CASE Return(t)
    BY <2>2, Leaves
  <2>. QED
    BY <2>1, <2>2
<1>. QED
  BY <1>1, CountedStays

LEMMA StartingType ==
    ASSUME TypeOK, Counted, NEW t \in Threads,
           StartPlay(t) \/ Setup(t) \/ Play(t) \/ Undo(t) \/ StartFails(t)
    PROVE  TypeOK' /\ Counted'
<1>0. {"setup", "failed", "play", "undo"} \subseteq Places \ {"put"}
  BY DEF Places, UsePlaces
<1>1. CASE StartPlay(t)
  <2>1. PICK o \in Objects :
          /\ \/ Lock(t, o) /\ rtsp' = rtsp \union {o} /\ Goto(t, "setup", o)
             \/ Goto(t, "failed", o) /\ UNCHANGED <<m_pMediaMutex, rtsp>>
          /\ UNCHANGED <<mapVars, stateVars, net, m_bRun, receiver, useVars>>
    BY <1>1 DEF StartPlay
  <2>2. Goto(t, "setup", o) \/ Goto(t, "failed", o)
    BY <2>1
  <2>3. Counted' /\ pc' \in [Threads -> [at : Places, of : Objects \union {Null}]]
    BY <1>0, <2>1, <2>2, Steps DEF mapVars
  <2>4. m_pMediaMutex' \in [Objects -> Threads \union {Null}]
    BY <2>1 DEF Lock, TypeOK
  <2>. QED
    BY <2>1, <2>3, <2>4 DEF TypeOK, mapVars, stateVars, useVars
<1>2. CASE Setup(t)
  <2>1. PICK o \in Objects :
          /\ \/ /\ net' = net \union {o} /\ m_bRun' = m_bRun \union {o}
                /\ receiver' = [receiver EXCEPT ![o] = "test"]
                /\ Goto(t, "play", o)
                /\ UNCHANGED <<m_pMediaMutex, rtsp>>
             \/ Goto(t, "play", o) /\ UNCHANGED <<m_pMediaMutex, streamVars>>
             \/ /\ rtsp' = rtsp \ {o} /\ Unlock(o) /\ Goto(t, "failed", o)
                /\ UNCHANGED <<net, m_bRun, receiver>>
          /\ UNCHANGED <<mapVars, stateVars, useVars>>
    BY <1>2 DEF Setup
  <2>2. Goto(t, "play", o) \/ Goto(t, "failed", o)
    BY <2>1
  <2>3. Counted' /\ pc' \in [Threads -> [at : Places, of : Objects \union {Null}]]
    BY <1>0, <2>1, <2>2, Steps DEF mapVars
  <2>4. m_pMediaMutex' \in [Objects -> Threads \union {Null}]
    BY <2>1 DEF Unlock, TypeOK
  <2>5. receiver' \in [Objects -> {"none", "test", "data"}]
    BY <2>1 DEF streamVars, TypeOK
  <2>. QED
    BY <2>1, <2>3, <2>4, <2>5 DEF TypeOK, mapVars, stateVars, useVars, streamVars
<1>3. CASE Play(t)
  <2>1. PICK o \in Objects :
          /\ \/ /\ Unlock(o) /\ opened' = opened \union {o} /\ Return(t)
                /\ UNCHANGED m_bRun
             \/ /\ m_bRun' = m_bRun \ {o} /\ Goto(t, "undo", o)
                /\ UNCHANGED <<m_pMediaMutex, opened>>
          /\ UNCHANGED <<mapVars, stateVars, rtsp, net, receiver, events>>
    BY <1>3 DEF Play
  <2>2. Goto(t, "undo", o) \/ Return(t)
    BY <2>1
  <2>3. Counted' /\ pc' \in [Threads -> [at : Places, of : Objects \union {Null}]]
    BY <1>0, <2>1, <2>2, Steps DEF mapVars
  <2>4. m_pMediaMutex' \in [Objects -> Threads \union {Null}]
    BY <2>1 DEF Unlock, TypeOK
  <2>. QED
    BY <2>1, <2>3, <2>4 DEF TypeOK, mapVars, stateVars
<1>4. CASE Undo(t)
  <2>1. PICK o \in Objects :
          /\ rtsp' = rtsp \ {o} /\ net' = net \ {o} /\ Unlock(o) /\ Goto(t, "failed", o)
          /\ UNCHANGED <<mapVars, stateVars, m_bRun, receiver, useVars>>
    BY <1>4 DEF Undo
  <2>3. Counted' /\ pc' \in [Threads -> [at : Places, of : Objects \union {Null}]]
    BY <1>0, <2>1, Steps DEF mapVars
  <2>4. m_pMediaMutex' \in [Objects -> Threads \union {Null}]
    BY <2>1 DEF Unlock, TypeOK
  <2>. QED
    BY <2>1, <2>3, <2>4 DEF TypeOK, mapVars, stateVars, useVars
<1>5. CASE StartFails(t)
  <2>1. PICK o \in Objects :
          /\ IF kind[o] = "realplay"
             THEN /\ live' = IF o \in m_map THEN live \ {o} ELSE live
                  /\ m_map' = m_map \ {o}
                  /\ UNCHANGED <<busy, named>>
             ELSE /\ busy' = busy \ {o} /\ named' = named \ {o}
                  /\ UNCHANGED <<m_map, live>>
          /\ Return(t)
          /\ UNCHANGED <<kind, m_RefCounter, finished, m_pMediaMutex, streamVars, useVars>>
    BY <1>5 DEF StartFails
  <2>2. /\ m_map' \subseteq m_map /\ live' \subseteq live /\ m_RefCounter' = m_RefCounter
        /\ busy' \subseteq busy /\ named' \subseteq named
    BY <2>1
  <2>3. Counted' /\ pc' \in [Threads -> [at : Places, of : Objects \union {Null}]]
    BY <1>0, <2>1, <2>2, Steps
  <2>. QED
    BY <2>1, <2>2, <2>3 DEF TypeOK, streamVars, useVars
<1>. QED
  BY <1>1, <1>2, <1>3, <1>4, <1>5

LEMMA StoppingType ==
    ASSUME TypeOK, Counted, NEW t \in Threads,
           \/ \E o \in Objects : Stop(t, o)
           \/ StopPlay(t) \/ Teardown(t) \/ CloseNetStream(t) \/ RetSet(t) \/ RetSetHandle(t)
           \/ UseDeleted(t)
    PROVE  TypeOK' /\ Counted'
<1>0. {"stop", "teardown", "close", "reset", "rename", "erase"} \subseteq Places \ {"put"}
  BY DEF Places, UsePlaces
<1>1. CASE \E o \in Objects : Stop(t, o)
  <2>1. PICK o \in Objects : Stop(t, o)
    BY <1>1
  <2>2. Goto(t, "stop", o) \/ Return(t)
    BY <2>1 DEF Stop
  <2>3. Counted' /\ pc' \in [Threads -> [at : Places, of : Objects \union {Null}]]
    BY <1>0, <2>1, <2>2, Steps DEF Stop, mapVars
  <2>. QED
    BY <2>1, <2>3 DEF Stop, TypeOK, mapVars, stateVars, streamVars
<1>2. CASE StopPlay(t)
  <2>1. PICK o \in Objects :
          /\ Lock(t, o) /\ Goto(t, "teardown", o)
          /\ UNCHANGED <<mapVars, stateVars, streamVars, useVars>>
    BY <1>2 DEF StopPlay
  <2>2. m_pMediaMutex' \in [Objects -> Threads \union {Null}]
    BY <2>1 DEF Lock, TypeOK
  <2>3. Counted' /\ pc' \in [Threads -> [at : Places, of : Objects \union {Null}]]
    BY <1>0, <2>1, Steps DEF mapVars
  <2>. QED
    BY <2>1, <2>2, <2>3 DEF TypeOK, mapVars, stateVars, streamVars, useVars
<1>3. CASE Teardown(t)
  <2>1. PICK o \in Objects :
          /\ rtsp' = rtsp \ {o} /\ m_bRun' = m_bRun \ {o} /\ Goto(t, "close", o)
          /\ UNCHANGED <<mapVars, stateVars, m_pMediaMutex, net, receiver, useVars>>
    BY <1>3 DEF Teardown
  <2>2. Counted' /\ pc' \in [Threads -> [at : Places, of : Objects \union {Null}]]
    BY <1>0, <2>1, Steps DEF mapVars
  <2>. QED
    BY <2>1, <2>2 DEF TypeOK, mapVars, stateVars, useVars
<1>4. CASE CloseNetStream(t)
  <2>1. PICK o \in Objects :
          /\ net' = net \ {o}
          /\ IF t = Event
             THEN Unlock(o) /\ Return(t)
             ELSE Goto(t, "reset", o) /\ UNCHANGED m_pMediaMutex
          /\ UNCHANGED <<mapVars, stateVars, rtsp, m_bRun, receiver, useVars>>
    BY <1>4 DEF CloseNetStream
  <2>2. Goto(t, "reset", o) \/ Return(t)
    BY <2>1
  <2>3. m_pMediaMutex' \in [Objects -> Threads \union {Null}]
    BY <2>1 DEF Unlock, TypeOK
  <2>4. Counted' /\ pc' \in [Threads -> [at : Places, of : Objects \union {Null}]]
    BY <1>0, <2>1, <2>2, Steps DEF mapVars
  <2>. QED
    BY <2>1, <2>3, <2>4 DEF TypeOK, mapVars, stateVars, useVars
<1>5. CASE RetSet(t)
  <2>1. PICK o \in Objects :
          /\ busy' = busy \ {o} /\ Goto(t, "rename", o)
          /\ UNCHANGED <<mapVars, finished, named, m_pMediaMutex, streamVars, useVars>>
    BY <1>5 DEF RetSet
  <2>2. Counted' /\ pc' \in [Threads -> [at : Places, of : Objects \union {Null}]]
    BY <1>0, <2>1, Steps DEF mapVars
  <2>. QED
    BY <2>1, <2>2 DEF TypeOK, mapVars, streamVars, useVars
<1>6. CASE RetSetHandle(t)
  <2>1. PICK o \in Objects :
          /\ named' = named \ {o} /\ Unlock(o)
          /\ IF kind[o] = "realplay"
             THEN finished' = finished \union {o} /\ Goto(t, "erase", o)
             ELSE UNCHANGED finished /\ Return(t)
          /\ UNCHANGED <<mapVars, busy, streamVars, useVars>>
    BY <1>6 DEF RetSetHandle
  <2>2. Goto(t, "erase", o) \/ Return(t)
    BY <2>1
  <2>3. m_pMediaMutex' \in [Objects -> Threads \union {Null}]
    BY <2>1 DEF Unlock, TypeOK
  <2>4. Counted' /\ pc' \in [Threads -> [at : Places, of : Objects \union {Null}]]
    BY <1>0, <2>1, <2>2, Steps DEF mapVars
  <2>. QED
    BY <2>1, <2>3, <2>4 DEF TypeOK, mapVars, streamVars, useVars
<1>7. CASE UseDeleted(t)
  <2>1. /\ pc' \in [Threads -> [at : Places, of : Objects \union {Null}]]
        /\ pc'[t].at # "put" /\ \A u \in Threads \ {t} : pc'[u] = pc[u]
    BY <1>7, Leaves DEF UseDeleted
  <2>2. Counted'
    BY <1>7, <2>1, CountedStays DEF UseDeleted, mapVars
  <2>. QED
    BY <1>7, <2>1, <2>2 DEF UseDeleted, TypeOK, mapVars, stateVars, streamVars, useVars
<1>. QED
  BY <1>1, <1>2, <1>3, <1>4, <1>5, <1>6, <1>7

\* The last reference: only the thread that has taken the object out of the map drops one.
LEMMA ReferencesType ==
    ASSUME TypeOK, Counted, NEW t \in Clients, Erase(t) \/ PutRef(t)
    PROVE  TypeOK' /\ Counted'
<1>0. t \in Threads /\ "put" \in Places
  BY ClientIsThread DEF Places, UsePlaces
<1>1. CASE Erase(t)
  <2>1. PICK o \in Objects :
          /\ pc[t] = [at |-> "erase", of |-> o]
          /\ m_map' = m_map \ {o}
          /\ IF o \in m_map THEN Goto(t, "put", o) ELSE Return(t)
          /\ UNCHANGED <<live, kind, m_RefCounter, stateVars, m_pMediaMutex, streamVars, useVars>>
    BY <1>1 DEF Erase
  <2>2. CASE o \in m_map
    <3>1. /\ pc' \in [Threads -> [at : Places, of : Objects \union {Null}]]
          /\ pc'[t] = [at |-> "put", of |-> o]
          /\ \A u \in Threads \ {t} : pc'[u] = pc[u]
      BY <1>0, <2>1, <2>2, Moves
    <3>2. \A u \in Clients \ {t} : pc'[u] = pc[u] /\ (pc[u].at = "put" => pc[u].of # o)
      BY <2>2, <3>1, ClientIsThread DEF Counted
    <3>3. m_RefCounter[o] >= 0
      BY <2>2 DEF Counted
    <3>4. Counted'
      BY <2>1, <3>1, <3>2, <3>3 DEF Counted
    <3>. QED
      BY <2>1, <3>1, <3>4 DEF TypeOK, stateVars, streamVars, useVars
  <2>3. CASE o \notin m_map
    <3>1. /\ pc' \in [Threads -> [at : Places, of : Objects \union {Null}]]
          /\ pc'[t].at # "put" /\ \A u \in Threads \ {t} : pc'[u] = pc[u]
      BY <1>0, <2>1, <2>3, Leaves
    <3>2. Counted'
      BY <1>0, <2>1, <3>1, CountedStays
    <3>. QED
      BY <2>1, <3>1, <3>2 DEF TypeOK, stateVars, streamVars, useVars
  <2>. QED
    BY <2>2, <2>3
<1>2. CASE PutRef(t)
  <2>1. PICK o \in Objects :
          /\ pc[t] = [at |-> "put", of |-> o]
          /\ m_RefCounter' = [m_RefCounter EXCEPT ![o] = @ - 1]
          /\ live' = IF m_RefCounter[o] = 1 THEN live \ {o} ELSE live
          /\ Return(t)
          /\ UNCHANGED <<m_map, kind, stateVars, m_pMediaMutex, streamVars, useVars>>
    BY <1>2 DEF PutRef, At
  <2>2. m_RefCounter[o] >= 0 /\ o \notin m_map
    BY <2>1 DEF Counted
  <2>3. m_RefCounter' \in [Objects -> -1..2]
    BY <2>1, <2>2 DEF TypeOK
  <2>4. \A p \in Objects \ {o} : m_RefCounter'[p] = m_RefCounter[p]
    BY <2>1 DEF TypeOK
  <2>5. /\ pc' \in [Threads -> [at : Places, of : Objects \union {Null}]]
        /\ pc'[t].at # "put" /\ \A u \in Threads \ {t} : pc'[u] = pc[u]
    BY <1>0, <2>1, Leaves
  <2>6. \A u \in Clients : pc'[u].at = "put" => u # t /\ pc'[u] = pc[u] /\ pc[u].of # o
    BY <2>1, <2>5, ClientIsThread DEF Counted
  <2>7. m_map \subseteq Objects
    BY DEF TypeOK
  <2>8. Counted'
    BY <2>1, <2>2, <2>4, <2>6, <2>7 DEF Counted
  <2>. QED
    BY <2>1, <2>3, <2>5, <2>8 DEF TypeOK, stateVars, streamVars, useVars
<1>. QED
  BY <1>1, <1>2

LEMMA EventType ==
    ASSUME TypeOK, Counted,
           \/ \E o \in Objects : PostStream(o) \/ HandleStreamMsg(o) \/ Receive(o)
           \/ GetRealPlayEx \/ StopStream
    PROVE  TypeOK' /\ Counted'
<1>0. Event \in Threads /\ {"ref", "stop", "teardown"} \subseteq Places \ {"put"}
  BY DEF Threads, Places, UsePlaces
<1>1. ASSUME NEW o \in Objects, PostStream(o)
      PROVE  TypeOK' /\ Counted'
  BY <1>1 DEF PostStream, TypeOK, Counted, mapVars, stateVars, streamVars
<1>2. ASSUME NEW o \in Objects, HandleStreamMsg(o)
      PROVE  TypeOK' /\ Counted'
  <2>1. Goto(Event, "ref", o) \/ Return(Event)
    BY <1>2 DEF HandleStreamMsg
  <2>2. Counted' /\ pc' \in [Threads -> [at : Places, of : Objects \union {Null}]]
    BY <1>0, <1>2, <2>1, Steps DEF HandleStreamMsg, mapVars
  <2>. QED
    BY <1>2, <2>2 DEF HandleStreamMsg, TypeOK, mapVars, stateVars, streamVars
<1>3. ASSUME NEW o \in Objects, Receive(o)
      PROVE  TypeOK' /\ Counted'
  <2>1. receiver' \in [Objects -> {"none", "test", "data"}]
    BY <1>3 DEF Receive, MainLoop, ProcMediaPacket, TypeOK
  <2>2. UNCHANGED <<mapVars, stateVars, m_pMediaMutex, rtsp, net, m_bRun, useVars, pc>>
    BY <1>3 DEF Receive, MainLoop, ProcMediaPacket
  <2>. QED
    BY <2>1, <2>2 DEF TypeOK, Counted, mapVars, stateVars, useVars
<1>4. CASE GetRealPlayEx
  <2>1. PICK o \in Objects :
          /\ IF o \in m_map
             THEN /\ m_RefCounter' = [m_RefCounter EXCEPT ![o] = IF @ = 2 THEN 2 ELSE @ + 1]
                  /\ Goto(Event, "stop", o)
             ELSE /\ Return(Event)
                  /\ UNCHANGED m_RefCounter
          /\ UNCHANGED <<m_map, live, kind, stateVars, m_pMediaMutex, streamVars, useVars>>
    BY <1>4 DEF GetRealPlayEx
  <2>2. CASE o \in m_map
    <3>1. /\ pc' \in [Threads -> [at : Places, of : Objects \union {Null}]]
          /\ \A u \in Clients : pc'[u] = pc[u]
      BY <1>0, <2>1, <2>2, Moves, ClientIsThread
    <3>2. /\ m_RefCounter' \in [Objects -> -1..2] /\ m_RefCounter'[o] >= 0
          /\ \A p \in Objects \ {o} : m_RefCounter'[p] = m_RefCounter[p]
      BY <2>1, <2>2 DEF TypeOK, Counted
    <3>3. m_map \subseteq Objects
      BY DEF TypeOK
    <3>4. Counted'
      BY <2>1, <2>2, <3>1, <3>2, <3>3 DEF Counted
    <3>. QED
      BY <2>1, <3>1, <3>2, <3>4 DEF TypeOK, stateVars, streamVars, useVars
  <2>3. CASE o \notin m_map
    <3>1. Counted' /\ pc' \in [Threads -> [at : Places, of : Objects \union {Null}]]
      BY <1>0, <2>1, <2>3, Steps
    <3>. QED
      BY <2>1, <2>3, <3>1 DEF TypeOK, stateVars, streamVars, useVars
  <2>. QED
    BY <2>2, <2>3
<1>5. CASE StopStream
  <2>1. PICK o \in Objects :
          /\ IF o \in finished
             THEN Return(Event) /\ UNCHANGED m_pMediaMutex
             ELSE Lock(Event, o) /\ Goto(Event, "teardown", o)
          /\ UNCHANGED <<mapVars, stateVars, streamVars, useVars>>
    BY <1>5 DEF StopStream
  <2>2. Goto(Event, "teardown", o) \/ Return(Event)
    BY <2>1
  <2>3. Counted' /\ pc' \in [Threads -> [at : Places, of : Objects \union {Null}]]
    BY <1>0, <2>1, <2>2, Steps DEF mapVars
  <2>4. m_pMediaMutex' \in [Objects -> Threads \union {Null}]
    BY <1>0, <2>1 DEF Lock, TypeOK
  <2>. QED
    BY <2>1, <2>3, <2>4 DEF TypeOK, mapVars, stateVars, streamVars, useVars
<1>. QED
  BY <1>1, <1>2, <1>3, <1>4, <1>5

LEMMA TypeStep ==
    ASSUME TypeOK, Counted, [Next]_vars
    PROVE  TypeOK' /\ Counted'
<1>1. CASE \E t \in Clients, k \in Kinds : TakeFree(t, k) \/ New(t, k)
  BY <1>1, StartsType
<1>2. CASE \E t \in Clients, o \in Objects : Stop(t, o)
  BY <1>2, StoppingType, ClientIsThread
<1>3. CASE \E t \in Clients : ClientStep(t) \/ ThreadStep(t)
  BY <1>3, StartingType, StoppingType, ReferencesType, ClientIsThread DEF ClientStep, ThreadStep
<1>4. CASE \E o \in Objects : PostStream(o) \/ HandleStreamMsg(o) \/ Receive(o)
  BY <1>4, EventType
<1>5. CASE EventStep
  <2>1. Event \in Threads
    BY DEF Threads
  <2>. QED
    BY <1>5, <2>1, EventType, StoppingType DEF EventStep, ThreadStep
<1>6. CASE UNCHANGED vars
  BY <1>6 DEF TypeOK, Counted, vars, mapVars, stateVars, streamVars, useVars
<1>. QED
  BY <1>1, <1>2, <1>3, <1>4, <1>5, <1>6 DEF Next

\* The managers, the objects, their threads and the references are well typed: an object's
\* count falls by one reference only, whatever calls and events meet at it.
THEOREM TypeCorrect == Spec => []TypeOK
<1>1. Init => TypeOK /\ Counted
  BY TypeInit
<1>2. TypeOK /\ Counted /\ [Next]_vars => (TypeOK /\ Counted)'
  BY TypeStep
<1>. QED
  BY <1>1, <1>2, PTL DEF Spec

-----------------------------------------------------------------------------
(* Who has an object *)

\* No two threads of the client are at one object, and none is at one whose stream the
\* client has opened and not stopped.
Apart ==
    /\ \A t, u \in Clients : pc[t].of = pc[u].of /\ pc[t].of # Null => t = u
    /\ \A t \in Clients : pc[t].of \notin opened

\* What thread t of the client knows of its object: it is in the map up to the step that
\* erases it, it is in use while a stream is started, and once it is to be freed the
\* event thread can only find less of its stream, never more.
Knows(t) ==
    /\ pc[t].at \notin {"idle", "put"} => pc[t].of \in m_map
    /\ pc[t].at = "put" => pc[t].of \notin m_map
    /\ pc[t].at \in {"lock", "setup", "play", "undo"} => pc[t].of \in busy \intersect named
    /\ pc[t].at \in {"lock", "close", "failed", "reset", "rename", "erase", "put"} =>
          pc[t].of \notin rtsp
    /\ pc[t].at \in {"lock", "setup", "failed", "reset", "rename", "erase", "put"} =>
          pc[t].of \notin net

MediaInv == Apart /\ (\A t \in Clients : Knows(t)) /\ ReachedIsLive /\ StreamIsHeld

\* A thread of the client does a step at an object where no other is.
LEMMA ClientAlone ==
    ASSUME Apart, \A u \in Clients : Knows(u), NEW t \in Clients, NEW o \in Objects,
           \A u \in Clients \ {t} : pc[u].of # o,
           pc'[t].of \in {o, Null},
           \A u \in Threads \ {t} : pc'[u] = pc[u],
           m_map' \union {o} = m_map \union {o},
           opened' \union {o} = opened \union {o}, opened' \subseteq Objects,
           rtsp' \subseteq rtsp \union {o}, net' \subseteq net \union {o},
           busy \subseteq busy' \union {o}, named \subseteq named' \union {o},
           pc'[t].of \notin opened',
           Knows(t)'
    PROVE  Apart' /\ \A u \in Clients : Knows(u)'
<1>1. \A u \in Clients \ {t} : pc'[u] = pc[u] /\ pc[u].of # o
  BY ClientIsThread
<1>2. Apart'
  BY <1>1 DEF Apart
<1>3. ASSUME NEW u \in Clients \ {t}
      PROVE  Knows(u)'
  BY <1>1, <1>3 DEF Knows
<1>. QED
  BY <1>2, <1>3

\* A step that moves no thread of the client and only takes from the streams.
LEMMA ClientsStay ==
    ASSUME Apart, \A u \in Clients : Knows(u),
           \A u \in Clients : pc'[u] = pc[u],
           UNCHANGED <<m_map, opened, busy, named>>,
           rtsp' \subseteq rtsp, net' \subseteq net
    PROVE  Apart' /\ \A u \in Clients : Knows(u)'
<1>1. Apart'
  BY DEF Apart
<1>2. ASSUME NEW u \in Clients
      PROVE  Knows(u)'
  BY <1>2 DEF Knows
<1>. QED
  BY <1>1, <1>2

LEMMA InitMedia == Init => MediaInv
<1>1. Idle.at = "idle" /\ Idle.of = Null /\ (Init => \A t \in Clients : pc[t] = Idle)
  BY ClientIsThread DEF Init, Idle
<1>. QED
  BY <1>1 DEF Init, MediaInv, Apart, Knows, ReachedIsLive, StreamIsHeld

LEMMA StartsMedia ==
    ASSUME StartsRest, TypeOK, MediaInv, NEW t \in Clients, NEW k \in Kinds,
           TakeFree(t, k) \/ New(t, k)
    PROVE  MediaInv'
<1>0. t \in Threads /\ "lock" \in Places
  BY ClientIsThread DEF Places, UsePlaces
<1>1. CASE TakeFree(t, k)
  <2>1. PICK o \in FreeOnes(k) : /\ StartsRest => Rests(o)
                             /\ busy' = busy \union {o} /\ named' = named \union {o}
                             /\ Goto(t, "lock", o)
    BY <1>1 DEF TakeFree
  <2>2. o \in Objects /\ o \in m_map /\ o \notin busy
    BY DEF FreeOnes, TypeOK
  <2>3. UNCHANGED <<m_map, live, kind, m_RefCounter, rtsp, net, receiver, opened>>
    BY <1>1 DEF TakeFree, mapVars, streamVars, useVars
  <2>4. /\ pc'[t] = [at |-> "lock", of |-> o]
        /\ \A u \in Threads \ {t} : pc'[u] = pc[u]
    BY <1>0, <2>1, <2>2, Moves
  <2>5. \A u \in Clients : pc[u].of # o
    BY <2>1, ClientIsThread DEF Rests
  <2>6. o \notin rtsp \union net \union opened
    BY <2>2 DEF MediaInv, StreamIsHeld
  <2>7. Knows(t)'
    BY <2>1, <2>2, <2>3, <2>4, <2>6 DEF Knows
  <2>8. Apart' /\ \A u \in Clients : Knows(u)'
    BY <2>1, <2>2, <2>3, <2>4, <2>5, <2>6, <2>7, ClientAlone DEF MediaInv, TypeOK
  <2>9. ReachedIsLive' /\ StreamIsHeld'
    BY <2>1, <2>3 DEF MediaInv, ReachedIsLive, StreamIsHeld
  <2>. QED
    BY <2>8, <2>9 DEF MediaInv
<1>2. CASE New(t, k)
  <2>1. PICK o \in Objects :
          /\ Fresh(o)
          /\ m_map' = m_map \union {o} /\ live' = live \union {o}
          /\ busy' = busy \union {o} /\ named' = named \union {o}
          /\ Goto(t, "lock", o)
    BY <1>2 DEF New
  <2>2. UNCHANGED <<rtsp, net, receiver, opened>>
    BY <1>2 DEF New, streamVars, useVars
  <2>3. /\ pc'[t] = [at |-> "lock", of |-> o]
        /\ \A u \in Threads \ {t} : pc'[u] = pc[u]
    BY <1>0, <2>1, Moves
  <2>4. \A u \in Clients : pc[u].of # o
    BY <2>1, ClientIsThread DEF Fresh, Rests
  <2>5. o \notin rtsp \union net \union opened
    BY <2>1 DEF MediaInv, ReachedIsLive, StreamIsHeld, Fresh
  <2>6. Knows(t)'
    BY <2>1, <2>2, <2>3, <2>5 DEF Knows
  <2>7. Apart' /\ \A u \in Clients : Knows(u)'
    BY <2>1, <2>2, <2>3, <2>4, <2>5, <2>6, ClientAlone DEF MediaInv, TypeOK
  <2>8. ReachedIsLive' /\ StreamIsHeld'
    BY <2>1, <2>2 DEF MediaInv, ReachedIsLive, StreamIsHeld
  <2>. QED
    BY <2>7, <2>8 DEF MediaInv
<1>. QED
  BY <1>1, <1>2

\* The object of a thread of the client is its own.
LEMMA Alone ==
    ASSUME TypeOK, Apart, NEW t \in Clients, NEW o \in Objects, pc[t].of = o
    PROVE  (\A u \in Clients \ {t} : pc[u].of # o) /\ o \notin opened
BY HandleAssumption DEF Apart

LEMMA StartingMedia ==
    ASSUME TypeOK, MediaInv, NEW t \in Clients,
           StartPlay(t) \/ Setup(t) \/ Play(t) \/ Undo(t) \/ StartFails(t)
    PROVE  MediaInv'
<1>0. t \in Threads /\ {"setup", "failed", "play", "undo"} \subseteq Places
  BY ClientIsThread DEF Places, UsePlaces
<1>00. Null \notin opened
  BY HandleAssumption DEF TypeOK
<1>1. CASE StartPlay(t)
  <2>1. PICK o \in Objects :
          /\ At(t, "lock", o)
          /\ \/ rtsp' = rtsp \union {o} /\ Goto(t, "setup", o)
             \/ rtsp' = rtsp /\ Goto(t, "failed", o)
          /\ UNCHANGED <<mapVars, stateVars, net, m_bRun, receiver, useVars>>
    BY <1>1 DEF StartPlay
  <2>2. UNCHANGED <<m_map, live, busy, named, net, receiver, opened>>
    BY <2>1 DEF mapVars, stateVars, useVars
  <2>3. /\ pc[t] = [at |-> "lock", of |-> o]
        /\ o \in m_map \intersect busy \intersect named /\ o \notin rtsp \union net
    BY <2>1 DEF At, MediaInv, Knows
  <2>4. /\ \/ pc'[t] = [at |-> "setup", of |-> o]
           \/ rtsp' = rtsp /\ pc'[t] = [at |-> "failed", of |-> o]
        /\ \A u \in Threads \ {t} : pc'[u] = pc[u]
    BY <1>0, <2>1, Moves
  <2>5. (\A u \in Clients \ {t} : pc[u].of # o) /\ o \notin opened
    BY <2>3, Alone DEF MediaInv
  <2>6. Knows(t)'
    BY <2>1, <2>2, <2>3, <2>4 DEF Knows
  <2>7. Apart' /\ \A u \in Clients : Knows(u)'
    BY <2>1, <2>2, <2>4, <2>5, <2>6, ClientAlone DEF MediaInv, TypeOK
  <2>8. ReachedIsLive' /\ StreamIsHeld'
    BY <2>1, <2>2, <2>3 DEF MediaInv, ReachedIsLive, StreamIsHeld
  <2>. QED
    BY <2>7, <2>8 DEF MediaInv
<1>2. CASE Setup(t)
  <2>1. PICK o \in Objects :
          /\ At(t, "setup", o)
          /\ \/ /\ net' = net \union {o} /\ rtsp' = rtsp
                /\ receiver' = [receiver EXCEPT ![o] = "test"]
                /\ Goto(t, "play", o)
             \/ Goto(t, "play", o) /\ UNCHANGED <<rtsp, net, receiver>>
             \/ rtsp' = rtsp \ {o} /\ Goto(t, "failed", o) /\ UNCHANGED <<net, receiver>>
          /\ UNCHANGED <<mapVars, stateVars, useVars>>
    BY <1>2 DEF Setup, streamVars
  <2>2. UNCHANGED <<m_map, live, busy, named, opened>>
    BY <2>1 DEF mapVars, stateVars, useVars
  <2>3. /\ pc[t] = [at |-> "setup", of |-> o]
        /\ o \in m_map \intersect busy \intersect named /\ o \notin net
    BY <2>1 DEF At, MediaInv, Knows
  <2>4. /\ \/ pc'[t] = [at |-> "play", of |-> o]
           \/ net' = net /\ rtsp' = rtsp \ {o} /\ pc'[t] = [at |-> "failed", of |-> o]
        /\ \A u \in Threads \ {t} : pc'[u] = pc[u]
    BY <1>0, <2>1, Moves
  <2>5. (\A u \in Clients \ {t} : pc[u].of # o) /\ o \notin opened
    BY <2>3, Alone DEF MediaInv
  <2>6. Knows(t)'
    BY <2>2, <2>3, <2>4 DEF Knows
  <2>7. rtsp' \subseteq rtsp /\ net \subseteq net' /\ net' \subseteq net \union {o}
    BY <2>1
  <2>8. Apart' /\ \A u \in Clients : Knows(u)'
    BY <2>2, <2>4, <2>5, <2>6, <2>7, ClientAlone DEF MediaInv, TypeOK
  <2>9. \A p \in Objects : receiver'[p] # "none" => p \in net'
    BY <2>1, <2>7 DEF MediaInv, ReachedIsLive, TypeOK
  <2>10. StreamIsHeld'
    BY <2>2, <2>3, <2>7 DEF MediaInv, StreamIsHeld
  <2>11. ReachedIsLive'
    BY <2>2, <2>9, <2>10 DEF MediaInv, ReachedIsLive, StreamIsHeld
  <2>. QED
    BY <2>8, <2>10, <2>11 DEF MediaInv
<1>3. CASE Play(t)
  <2>1. PICK o \in Objects :
          /\ At(t, "play", o)
          /\ \/ opened' = opened \union {o} /\ Return(t)
             \/ opened' = opened /\ Goto(t, "undo", o)
          /\ UNCHANGED <<mapVars, stateVars, rtsp, net, receiver, events>>
    BY <1>3 DEF Play
  <2>2. UNCHANGED <<m_map, live, busy, named, rtsp, net, receiver>>
    BY <2>1 DEF mapVars, stateVars
  <2>3. /\ pc[t] = [at |-> "play", of |-> o]
        /\ o \in m_map \intersect busy \intersect named
    BY <2>1 DEF At, MediaInv, Knows
  <2>4. /\ \/ pc'[t] = [at |-> "idle", of |-> Null]
           \/ opened' = opened /\ pc'[t] = [at |-> "undo", of |-> o]
        /\ \A u \in Threads \ {t} : pc'[u] = pc[u]
    BY <1>0, <2>1, Moves, Leaves
  <2>5. (\A u \in Clients \ {t} : pc[u].of # o) /\ o \notin opened
    BY <2>3, Alone DEF MediaInv
  <2>6. Knows(t)'
    BY <2>2, <2>3, <2>4 DEF Knows
  <2>7. opened' \subseteq opened \union {o} /\ opened \subseteq opened' /\ opened' \subseteq Objects
    BY <2>1 DEF TypeOK
  <2>8. pc'[t].of \notin opened'
    BY <2>4, <2>5, <2>7, HandleAssumption
  <2>9. Apart' /\ \A u \in Clients : Knows(u)'
    BY <2>2, <2>4, <2>5, <2>6, <2>7, <2>8, ClientAlone DEF MediaInv
  <2>10. ReachedIsLive' /\ StreamIsHeld'
    BY <2>2, <2>3, <2>7 DEF MediaInv, ReachedIsLive, StreamIsHeld
  <2>. QED
    BY <2>9, <2>10 DEF MediaInv
<1>4. CASE Undo(t)
  <2>1. PICK o \in Objects :
          /\ At(t, "undo", o) /\ receiver[o] = "none"
          /\ rtsp' = rtsp \ {o} /\ net' = net \ {o} /\ Goto(t, "failed", o)
          /\ UNCHANGED <<mapVars, stateVars, m_bRun, receiver, useVars>>
    BY <1>4 DEF Undo
  <2>2. UNCHANGED <<m_map, live, busy, named, receiver, opened>>
    BY <2>1 DEF mapVars, stateVars, useVars
  <2>3. pc[t] = [at |-> "undo", of |-> o] /\ o \in m_map
    BY <2>1 DEF At, MediaInv, Knows
  <2>4. /\ pc'[t] = [at |-> "failed", of |-> o]
        /\ \A u \in Threads \ {t} : pc'[u] = pc[u]
    BY <1>0, <2>1, Moves
  <2>5. (\A u \in Clients \ {t} : pc[u].of # o) /\ o \notin opened
    BY <2>3, Alone DEF MediaInv
  <2>6. Knows(t)'
    BY <2>1, <2>2, <2>3, <2>4 DEF Knows
  <2>7. Apart' /\ \A u \in Clients : Knows(u)'
    BY <2>1, <2>2, <2>4, <2>5, <2>6, ClientAlone DEF MediaInv, TypeOK
  <2>8. ReachedIsLive' /\ StreamIsHeld'
    BY <2>1, <2>2 DEF MediaInv, ReachedIsLive, StreamIsHeld
  <2>. QED
    BY <2>7, <2>8 DEF MediaInv
<1>5. CASE StartFails(t)
  <2>1. PICK o \in Objects :
          /\ pc[t] = [at |-> "failed", of |-> o]
          /\ IF kind[o] = "realplay"
             THEN /\ live' = IF o \in m_map THEN live \ {o} ELSE live
                  /\ m_map' = m_map \ {o}
                  /\ UNCHANGED <<busy, named>>
             ELSE /\ busy' = busy \ {o} /\ named' = named \ {o}
                  /\ UNCHANGED <<m_map, live>>
          /\ Return(t)
    BY <1>5 DEF StartFails
  <2>2. UNCHANGED <<rtsp, net, receiver, opened>>
    BY <1>5 DEF StartFails, streamVars, useVars
  <2>3. /\ m_map \ {o} \subseteq m_map' /\ m_map' \subseteq m_map
        /\ busy \ {o} \subseteq busy' /\ named \ {o} \subseteq named'
        /\ live \ {o} \subseteq live' /\ (o \in m_map' => live' = live)
    BY <2>1
  <2>4. o \in m_map /\ o \notin rtsp \union net
    BY <2>1 DEF MediaInv, Knows
  <2>5. /\ pc'[t] = [at |-> "idle", of |-> Null]
        /\ \A u \in Threads \ {t} : pc'[u] = pc[u]
    BY <1>0, <2>1, Leaves
  <2>6. (\A u \in Clients \ {t} : pc[u].of # o) /\ o \notin opened
    BY <2>1, Alone DEF MediaInv
  <2>7. Knows(t)'
    BY <2>5 DEF Knows
  <2>8. Apart' /\ \A u \in Clients : Knows(u)'
    BY <1>00, <2>2, <2>3, <2>5, <2>6, <2>7, ClientAlone DEF MediaInv, TypeOK
  <2>9. StreamIsHeld'
    BY <2>2, <2>3, <2>4, <2>6 DEF MediaInv, StreamIsHeld
  <2>10. ReachedIsLive'
    BY <2>2, <2>3, <2>4 DEF MediaInv, ReachedIsLive
  <2>. QED
    BY <2>8, <2>9, <2>10 DEF MediaInv
<1>. QED
  BY <1>1, <1>2, <1>3, <1>4, <1>5

LEMMA StoppingMedia ==
    ASSUME TypeOK, Counted, MediaInv, NEW t \in Clients,
           \/ \E o \in Objects : Stop(t, o)
           \/ StopPlay(t) \/ RetSet(t) \/ RetSetHandle(t) \/ Erase(t) \/ PutRef(t)
    PROVE  MediaInv'
<1>0. t \in Threads /\ {"stop", "teardown", "rename", "erase", "put"} \subseteq Places
  BY ClientIsThread DEF Places, UsePlaces
<1>00. Null \notin opened
  BY HandleAssumption DEF TypeOK
<1>1. CASE \E o \in Objects : Stop(t, o)
  <2>1. PICK o \in Objects :
          /\ o \in opened /\ opened' = opened \ {o}
          /\ IF o \in m_map THEN Goto(t, "stop", o) ELSE Return(t)
    BY <1>1 DEF Stop
  <2>2. UNCHANGED <<m_map, live, busy, named, rtsp, net, receiver>>
    BY <1>1 DEF Stop, mapVars, stateVars, streamVars
  <2>3. o \in m_map
    BY <2>1 DEF MediaInv, StreamIsHeld
  <2>4. pc'[t] = [at |-> "stop", of |-> o] /\ \A u \in Threads \ {t} : pc'[u] = pc[u]
    BY <1>0, <2>1, <2>3, Moves
  <2>5. \A u \in Clients \ {t} : pc[u].of # o
    BY <2>1 DEF MediaInv, Apart
  <2>6. Knows(t)'
    BY <2>2, <2>3, <2>4 DEF Knows
  <2>7. Apart' /\ \A u \in Clients : Knows(u)'
    BY <2>1, <2>2, <2>4, <2>5, <2>6, ClientAlone DEF MediaInv, TypeOK
  <2>8. ReachedIsLive' /\ StreamIsHeld'
    BY <2>1, <2>2 DEF MediaInv, ReachedIsLive, StreamIsHeld
  <2>. QED
    BY <2>7, <2>8 DEF MediaInv
<1>2. CASE StopPlay(t)
  <2>1. PICK o \in Objects : At(t, "stop", o) /\ Goto(t, "teardown", o)
    BY <1>2 DEF StopPlay
  <2>2. UNCHANGED <<m_map, live, busy, named, rtsp, net, receiver, opened>>
    BY <1>2 DEF StopPlay, mapVars, stateVars, streamVars, useVars
  <2>3. pc[t] = [at |-> "stop", of |-> o] /\ o \in m_map
    BY <2>1 DEF At, MediaInv, Knows
  <2>4. pc'[t] = [at |-> "teardown", of |-> o] /\ \A u \in Threads \ {t} : pc'[u] = pc[u]
    BY <1>0, <2>1, Moves
  <2>5. (\A u \in Clients \ {t} : pc[u].of # o) /\ o \notin opened
    BY <2>3, Alone DEF MediaInv
  <2>6. Knows(t)'
    BY <2>2, <2>3, <2>4 DEF Knows
  <2>7. Apart' /\ \A u \in Clients : Knows(u)'
    BY <2>2, <2>4, <2>5, <2>6, ClientAlone DEF MediaInv, TypeOK
  <2>. QED
    BY <2>2, <2>7 DEF MediaInv, ReachedIsLive, StreamIsHeld
<1>3. CASE RetSet(t)
  <2>1. PICK o \in Objects : At(t, "reset", o) /\ busy' = busy \ {o} /\ Goto(t, "rename", o)
    BY <1>3 DEF RetSet
  <2>2. UNCHANGED <<m_map, live, named, rtsp, net, receiver, opened>>
    BY <1>3 DEF RetSet, mapVars, streamVars, useVars
  <2>3. pc[t] = [at |-> "reset", of |-> o] /\ o \in m_map /\ o \notin rtsp \union net
    BY <2>1 DEF At, MediaInv, Knows
  <2>4. pc'[t] = [at |-> "rename", of |-> o] /\ \A u \in Threads \ {t} : pc'[u] = pc[u]
    BY <1>0, <2>1, Moves
  <2>5. (\A u \in Clients \ {t} : pc[u].of # o) /\ o \notin opened
    BY <2>3, Alone DEF MediaInv
  <2>6. Knows(t)'
    BY <2>2, <2>3, <2>4 DEF Knows
  <2>7. Apart' /\ \A u \in Clients : Knows(u)'
    BY <2>1, <2>2, <2>4, <2>5, <2>6, ClientAlone DEF MediaInv, TypeOK
  <2>. QED
    BY <2>1, <2>2, <2>3, <2>5, <2>7 DEF MediaInv, ReachedIsLive, StreamIsHeld
<1>4. CASE RetSetHandle(t)
  <2>1. PICK o \in Objects :
          /\ At(t, "rename", o) /\ named' = named \ {o}
          /\ Goto(t, "erase", o) \/ Return(t)
    BY <1>4 DEF RetSetHandle
  <2>2. UNCHANGED <<m_map, live, busy, rtsp, net, receiver, opened>>
    BY <1>4 DEF RetSetHandle, mapVars, streamVars, useVars
  <2>3. pc[t] = [at |-> "rename", of |-> o] /\ o \in m_map /\ o \notin rtsp \union net
    BY <2>1 DEF At, MediaInv, Knows
  <2>4. /\ \/ pc'[t] = [at |-> "erase", of |-> o]
           \/ pc'[t] = [at |-> "idle", of |-> Null]
        /\ \A u \in Threads \ {t} : pc'[u] = pc[u]
    BY <1>0, <2>1, Moves, Leaves
  <2>5. (\A u \in Clients \ {t} : pc[u].of # o) /\ o \notin opened
    BY <2>3, Alone DEF MediaInv
  <2>6. Knows(t)'
    BY <2>2, <2>3, <2>4 DEF Knows
  <2>7. /\ pc'[t].of \in {o, Null} /\ pc'[t].of \notin opened'
        /\ named \subseteq named' \union {o} /\ opened' \subseteq Objects
    BY <1>00, <2>1, <2>2, <2>4, <2>5 DEF TypeOK
  <2>8. Apart' /\ \A u \in Clients : Knows(u)'
    BY <2>2, <2>4, <2>5, <2>6, <2>7, ClientAlone DEF MediaInv
  <2>. QED
    BY <2>1, <2>2, <2>5, <2>8 DEF MediaInv, ReachedIsLive, StreamIsHeld
<1>5. CASE Erase(t)
  <2>1. PICK o \in Objects :
          /\ pc[t] = [at |-> "erase", of |-> o]
          /\ m_map' = m_map \ {o}
          /\ IF o \in m_map THEN Goto(t, "put", o) ELSE Return(t)
    BY <1>5 DEF Erase
  <2>2. UNCHANGED <<live, busy, named, rtsp, net, receiver, opened>>
    BY <1>5 DEF Erase, stateVars, streamVars, useVars
  <2>3. o \in m_map /\ o \notin rtsp \union net
    BY <2>1 DEF MediaInv, Knows
  <2>4. pc'[t] = [at |-> "put", of |-> o] /\ \A u \in Threads \ {t} : pc'[u] = pc[u]
    BY <1>0, <2>1, <2>3, Moves
  <2>5. (\A u \in Clients \ {t} : pc[u].of # o) /\ o \notin opened
    BY <2>1, Alone DEF MediaInv
  <2>6. Knows(t)'
    BY <2>1, <2>2, <2>3, <2>4 DEF Knows
  <2>7. Apart' /\ \A u \in Clients : Knows(u)'
    BY <2>1, <2>2, <2>4, <2>5, <2>6, ClientAlone DEF MediaInv, TypeOK
  <2>. QED
    BY <2>1, <2>2, <2>3, <2>5, <2>7 DEF MediaInv, ReachedIsLive, StreamIsHeld
<1>6. CASE PutRef(t)
  <2>1. PICK o \in Objects :
          /\ At(t, "put", o)
          /\ live' = IF m_RefCounter[o] = 1 THEN live \ {o} ELSE live
          /\ Return(t)
    BY <1>6 DEF PutRef
  <2>2. UNCHANGED <<m_map, busy, named, rtsp, net, receiver, opened>>
    BY <1>6 DEF PutRef, stateVars, streamVars, useVars
  <2>3. pc[t] = [at |-> "put", of |-> o] /\ o \notin m_map
    BY <2>1 DEF At, MediaInv, Knows
  <2>4. pc'[t] = [at |-> "idle", of |-> Null] /\ \A u \in Threads \ {t} : pc'[u] = pc[u]
    BY <1>0, <2>1, Leaves
  <2>5. (\A u \in Clients \ {t} : pc[u].of # o) /\ o \notin opened
    BY <2>3, Alone DEF MediaInv
  <2>6. Knows(t)'
    BY <2>4 DEF Knows
  <2>7. Apart' /\ \A u \in Clients : Knows(u)'
    BY <1>00, <2>2, <2>4, <2>5, <2>6, ClientAlone DEF MediaInv, TypeOK
  <2>8. StreamIsHeld'
    BY <2>2 DEF MediaInv, StreamIsHeld
  <2>9. ReachedIsLive'
    BY <2>1, <2>2, <2>3, <2>8 DEF MediaInv, ReachedIsLive, StreamIsHeld
  <2>. QED
    BY <2>7, <2>8, <2>9 DEF MediaInv
<1>. QED
  BY <1>1, <1>2, <1>3, <1>4, <1>5, <1>6

\* What client and event thread do alike.  The channel is freed when nobody receives on it.
LEMMA ThreadMedia ==
    ASSUME TypeOK, MediaInv, NEW t \in Threads, ThreadStep(t)
    PROVE  MediaInv'
<1>0. {"close", "reset"} \subseteq Places /\ (t = Event => \A u \in Clients : u # t)
  BY HandleAssumption DEF Places, UsePlaces
<1>00. Null \notin opened
  BY HandleAssumption DEF TypeOK
<1>1. CASE Teardown(t)
  <2>1. PICK o \in Objects : At(t, "teardown", o) /\ rtsp' = rtsp \ {o} /\ Goto(t, "close", o)
    BY <1>1 DEF Teardown
  <2>2. UNCHANGED <<m_map, live, busy, named, net, receiver, opened>>
    BY <1>1 DEF Teardown, mapVars, stateVars, useVars
  <2>3. pc'[t] = [at |-> "close", of |-> o] /\ \A u \in Threads \ {t} : pc'[u] = pc[u]
    BY <1>0, <2>1, Moves
  <2>4. Apart' /\ \A u \in Clients : Knows(u)'
    <3>1. CASE t = Event
      <4>1. \A u \in Clients : pc'[u] = pc[u]
        BY <1>0, <2>3, <3>1, ClientIsThread
      <4>. QED
        BY <2>1, <2>2, <4>1, ClientsStay DEF MediaInv
    <3>2. CASE t \in Clients
      <4>1. pc[t] = [at |-> "teardown", of |-> o] /\ o \in m_map
        BY <2>1, <3>2 DEF At, MediaInv, Knows
      <4>2. (\A u \in Clients \ {t} : pc[u].of # o) /\ o \notin opened
        BY <3>2, <4>1, Alone DEF MediaInv
      <4>3. Knows(t)'
        BY <2>1, <2>2, <2>3, <4>1 DEF Knows
      <4>. QED
        BY <2>1, <2>2, <2>3, <3>2, <4>2, <4>3, ClientAlone DEF MediaInv, TypeOK
    <3>. QED
      BY <3>1, <3>2 DEF Threads
  <2>. QED
    BY <2>1, <2>2, <2>4 DEF MediaInv, ReachedIsLive, StreamIsHeld
<1>2. CASE CloseNetStream(t)
  <2>1. PICK o \in Objects :
          /\ At(t, "close", o) /\ receiver[o] = "none"
          /\ net' = net \ {o}
          /\ IF t = Event THEN Return(t) ELSE Goto(t, "reset", o)
    BY <1>2 DEF CloseNetStream
  <2>2. UNCHANGED <<m_map, live, busy, named, rtsp, receiver, opened>>
    BY <1>2 DEF CloseNetStream, mapVars, stateVars, useVars
  <2>3. Apart' /\ \A u \in Clients : Knows(u)'
    <3>1. CASE t = Event
      <4>1. \A u \in Clients : pc'[u] = pc[u]
        BY <1>0, <2>1, <3>1, ClientIsThread, Leaves
      <4>. QED
        BY <2>1, <2>2, <4>1, ClientsStay DEF MediaInv
    <3>2. CASE t \in Clients
      <4>1. pc[t] = [at |-> "close", of |-> o] /\ o \in m_map /\ o \notin rtsp
        BY <2>1, <3>2 DEF At, MediaInv, Knows
      <4>2. (\A u \in Clients \ {t} : pc[u].of # o) /\ o \notin opened
        BY <3>2, <4>1, Alone DEF MediaInv
      <4>3. pc'[t] = [at |-> "reset", of |-> o] /\ \A u \in Threads \ {t} : pc'[u] = pc[u]
        BY <1>0, <2>1, <3>2, Moves
      <4>4. Knows(t)'
        BY <2>1, <2>2, <4>1, <4>3 DEF Knows
      <4>. QED
        BY <2>1, <2>2, <3>2, <4>2, <4>3, <4>4, ClientAlone DEF MediaInv, TypeOK
    <3>. QED
      BY <3>1, <3>2 DEF Threads
  <2>. QED
    BY <2>1, <2>2, <2>3 DEF MediaInv, ReachedIsLive, StreamIsHeld
<1>3. CASE UseDeleted(t)
  <2>1. UNCHANGED <<m_map, live, busy, named, rtsp, net, receiver, opened>>
    BY <1>3 DEF UseDeleted, mapVars, stateVars, streamVars, useVars
  <2>2. pc'[t] = [at |-> "idle", of |-> Null] /\ \A u \in Threads \ {t} : pc'[u] = pc[u]
    BY <1>3, Leaves DEF UseDeleted
  <2>3. Apart' /\ \A u \in Clients : Knows(u)'
    <3>1. \A u \in Clients : pc'[u] = pc[u] \/ u = t
      BY <2>2, ClientIsThread
    <3>2. Apart'
      BY <1>00, <2>1, <2>2, <3>1 DEF MediaInv, Apart
    <3>3. ASSUME NEW u \in Clients
          PROVE  Knows(u)'
      <4>1. CASE u = t
        BY <2>2, <4>1 DEF Knows
      <4>2. CASE pc'[u] = pc[u]
        BY <2>1, <4>2 DEF MediaInv, Knows
      <4>. QED
        BY <3>1, <4>1, <4>2
    <3>. QED
      BY <3>2, <3>3
  <2>. QED
    BY <2>1, <2>3 DEF MediaInv, ReachedIsLive, StreamIsHeld
<1>. QED
  BY <1>1, <1>2, <1>3 DEF ThreadStep

LEMMA EventMedia ==
    ASSUME TypeOK, MediaInv,
           \/ \E o \in Objects : PostStream(o) \/ HandleStreamMsg(o) \/ Receive(o)
           \/ GetRealPlayEx \/ StopStream
    PROVE  MediaInv'
<1>0. /\ Event \in Threads /\ {"ref", "stop", "teardown"} \subseteq Places
      /\ \A u \in Clients : u \in Threads \ {Event}
  BY HandleAssumption DEF Threads, Places, UsePlaces
<1>1. UNCHANGED <<m_map, live, busy, named, rtsp, net, opened>>
  BY DEF PostStream, HandleStreamMsg, Receive, MainLoop, ProcMediaPacket, GetRealPlayEx,
         StopStream, mapVars, stateVars, streamVars, useVars
<1>2. \A u \in Clients : pc'[u] = pc[u]
  <2>1. CASE \E o \in Objects : PostStream(o) \/ Receive(o)
    BY <2>1 DEF PostStream, Receive, MainLoop, ProcMediaPacket
  <2>2. CASE \E o \in Objects : HandleStreamMsg(o)
    BY <1>0, <2>2, Moves, Leaves DEF HandleStreamMsg
  <2>3. CASE GetRealPlayEx
    BY <1>0, <2>3, Moves, Leaves DEF GetRealPlayEx
  <2>4. CASE StopStream
    BY <1>0, <2>4, Moves, Leaves DEF StopStream
  <2>. QED
    BY <2>1, <2>2, <2>3, <2>4
<1>3. \A o \in Objects : receiver'[o] # "none" => receiver[o] # "none"
  BY DEF PostStream, HandleStreamMsg, Receive, MainLoop, ProcMediaPacket, GetRealPlayEx,
         StopStream, streamVars, TypeOK
<1>4. Apart' /\ \A u \in Clients : Knows(u)'
  BY <1>1, <1>2, ClientsStay DEF MediaInv
<1>. QED
  BY <1>1, <1>3, <1>4 DEF MediaInv, ReachedIsLive, StreamIsHeld

LEMMA MediaStep ==
    ASSUME StartsRest, TypeOK, Counted, MediaInv, [Next]_vars
    PROVE  MediaInv'
<1>1. CASE \E t \in Clients, k \in Kinds : TakeFree(t, k) \/ New(t, k)
  BY <1>1, StartsMedia
<1>2. CASE \E t \in Clients, o \in Objects : Stop(t, o)
  BY <1>2, StoppingMedia
<1>3. CASE \E t \in Clients : ClientStep(t) \/ ThreadStep(t)
  BY <1>3, StartingMedia, StoppingMedia, ThreadMedia, ClientIsThread DEF ClientStep
<1>4. CASE \E o \in Objects : PostStream(o) \/ HandleStreamMsg(o) \/ Receive(o)
  BY <1>4, EventMedia
<1>5. CASE EventStep
  <2>1. Event \in Threads
    BY DEF Threads
  <2>. QED
    BY <1>5, <2>1, EventMedia, ThreadMedia DEF EventStep
<1>6. CASE UNCHANGED vars
  BY <1>6 DEF MediaInv, Apart, Knows, ReachedIsLive, StreamIsHeld, vars, mapVars, stateVars,
              streamVars, useVars
<1>. QED
  BY <1>1, <1>2, <1>3, <1>4, <1>5, <1>6 DEF Next

\* As long as no object is used again before the stop that has freed it is over, every
\* step keeps MediaInv.
LEMMA MediaInvCorrect ==
    ASSUME StartsRest
    PROVE  Spec => []MediaInv
<1>1. Init => TypeOK /\ Counted /\ MediaInv
  BY TypeInit, InitMedia
<1>2. TypeOK /\ Counted /\ MediaInv /\ [Next]_vars => (TypeOK /\ Counted /\ MediaInv)'
  BY TypeStep, MediaStep
<1>. QED
  BY <1>1, <1>2, PTL DEF Spec

\* Under the same condition the maps hold no deleted object, and a receiving thread runs only
\* while its object and its channel are there.
THEOREM ReachedIsLiveCorrect ==
    ASSUME StartsRest
    PROVE  Spec => []ReachedIsLive
<1>1. MediaInv => ReachedIsLive
  BY DEF MediaInv
<1>. QED
  BY <1>1, MediaInvCorrect, PTL

\* Under the same condition whatever is left of a stream belongs to an object that is found
\* and not free, however starts, stops and the event thread meet.
THEOREM StreamIsHeldCorrect ==
    ASSUME StartsRest
    PROVE  Spec => []StreamIsHeld
<1>1. MediaInv => StreamIsHeld
  BY DEF MediaInv
<1>. QED
  BY <1>1, MediaInvCorrect, PTL

=============================================================================
