--------------------------- MODULE SDKTimerProofs ---------------------------
(* Theorems about SDKTimer for any number of starts.  What a logout promises *)
(* is proved for logins that do not fail after they have started the timer.  *)
EXTENDS SDKTimer, TLAPS

-----------------------------------------------------------------------------
(* Type correctness *)

Memory == {"none", "live", "deleted"}
AnItem == [memory : Memory, trigger : BOOLEAN, m_bRemoved : BOOLEAN]
Loops == [at : {"none", "sleep", "lock", "scan", "ended"}, item : {Null}]
         \union [at : {"trigger"}, item : Starts]

\* A start makes mutex, thread and item in this order.
MadeInOrder ==
    /\ pc = "run" => m_pMutexListOfTrigger # Null
    /\ pc = "register" => m_pVosThread # Null
    /\ pc = "insert" => m_pTimerItem # Null

\* A loop that is moved to a location other than a trigger's call is still a loop.
LEMMA LoopAtType ==
    ASSUME loop \in [Starts -> Loops], NEW n,
           NEW at \in {"none", "sleep", "lock", "scan", "ended"}, LoopAt(n, at)
    PROVE  loop' \in [Starts -> Loops]
<1>1. [at |-> at, item |-> Null] \in Loops
  BY DEF Loops
<1>. QED
  BY <1>1 DEF LoopAt

LEMMA LoginType ==
    ASSUME TypeOK, MadeInOrder, Login
    PROVE  TypeOK' /\ MadeInOrder'
<1>1. CASE \E n \in Starts : StartInit(n)
  BY <1>1, StartsAssumption DEF StartInit, TypeOK, MadeInOrder, Pointer, Goto, heap
<1>2. CASE StartRun
  <2>1. loop' \in [Starts -> Loops]
    BY <1>2, LoopAtType DEF StartRun, TypeOK, Loops
  <2>. QED
    BY <1>2, <2>1 DEF StartRun, TypeOK, MadeInOrder, Pointer, Goto, mutex, list, heap, Loops
<1>3. CASE Register
  <2>1. [memory |-> "live", trigger |-> TRUE, m_bRemoved |-> FALSE] \in AnItem
    BY DEF AnItem, Memory
  <2>2. item' \in [Starts -> AnItem]
    BY <1>3, <2>1 DEF Register, TypeOK, AnItem, Memory
  <2>. QED
    BY <1>3, <2>2 DEF Register, TypeOK, MadeInOrder, Goto, mutex, list, AnItem, Memory
<1>4. CASE Insert
  BY <1>4 DEF Insert, TypeOK, MadeInOrder, Pointer, Goto, mutex, heap
<1>5. CASE Domains
  BY <1>5 DEF Domains, TypeOK, MadeInOrder, Goto, mutex, list, heap
<1>. QED
  BY <1>1, <1>2, <1>3, <1>4, <1>5 DEF Login

LEMMA ClearType ==
    ASSUME TypeOK, NEW from, NEW to \in {"exit", "forgetMutex"}, ClearTimer(from, to)
    PROVE  TypeOK' /\ MadeInOrder'
<1>1. \A n \in Starts : item[n] \in AnItem /\ [item[n] EXCEPT !.memory = "deleted"] \in AnItem
  BY DEF TypeOK, AnItem, Memory
<1>2. item' \in [Starts -> AnItem]
  BY <1>1 DEF ClearTimer, TypeOK, AnItem, Memory
<1>3. content' \in [Starts -> SUBSET Starts] /\ m_plistTrigger' \in Pointer
  BY DEF ClearTimer, TypeOK, Pointer, list
<1>. QED
  BY <1>2, <1>3 DEF ClearTimer, TypeOK, MadeInOrder, Goto, mutex, AnItem, Memory

LEMMA StopType ==
    ASSUME TypeOK, MadeInOrder, Logout \/ Stop
    PROVE  TypeOK' /\ MadeInOrder'
<1>i. \A n \in Starts : item[n] \in AnItem
  BY DEF TypeOK, AnItem, Memory
<1>1. CASE Logout
  BY <1>1 DEF Logout, TypeOK, MadeInOrder, Goto, mutex, list, heap
<1>2. CASE CancelRemoves
  <2>1. CASE m_pTimerItem = Null
    BY <1>2, <2>1 DEF CancelRemoves, TypeOK, MadeInOrder, Goto, mutex, list
  <2>2. CASE m_pTimerItem \in Starts
    <3>1. item' = [item EXCEPT ![m_pTimerItem].m_bRemoved = TRUE]
      BY <1>2, <2>2, StartsAssumption DEF CancelRemoves
    <3>2. [item[m_pTimerItem] EXCEPT !.m_bRemoved = TRUE] \in AnItem
      BY <1>i, <2>2 DEF AnItem
    <3>3. item' \in [Starts -> AnItem]
      BY <3>1, <3>2, <2>2 DEF TypeOK, AnItem, Memory
    <3>. QED
      BY <1>2, <2>2, <3>3 DEF CancelRemoves, TypeOK, MadeInOrder, Goto, mutex, list, AnItem, Memory
  <2>. QED
    BY <2>1, <2>2 DEF TypeOK, Pointer
<1>3. CASE CancelForgets
  <2>1. item' \in [Starts -> AnItem]
    BY <1>3, <1>i DEF CancelForgets, TypeOK, AnItem, Memory
  <2>. QED
    BY <1>3, <2>1 DEF CancelForgets, TypeOK, MadeInOrder, Pointer, Goto, mutex, list, AnItem, Memory
<1>4. CASE CancelWaits
  BY <1>4 DEF CancelWaits, TypeOK, MadeInOrder, Goto, mutex, list, heap
<1>5. CASE ClearTimer("clear", "exit")
  BY <1>5, ClearType
<1>6. CASE ExitFlag
  BY <1>6 DEF ExitFlag, TypeOK, MadeInOrder, Goto, mutex, list, heap
<1>7. CASE ExitJoins
  BY <1>7 DEF ExitJoins, TypeOK, MadeInOrder, Pointer, Goto, mutex, list, heap
<1>8. CASE ClearTimer("clearAgain", "forgetMutex")
  BY <1>8, ClearType
<1>9. CASE ExitForgets
  BY <1>9 DEF ExitForgets, TypeOK, MadeInOrder, Pointer, Goto, list, heap
<1>. QED
  BY <1>1, <1>2, <1>3, <1>4, <1>5, <1>6, <1>7, <1>8, <1>9 DEF Stop

LEMMA LoopType ==
    ASSUME TypeOK, MadeInOrder, NEW n \in Starts, Loop(n)
    PROVE  TypeOK' /\ MadeInOrder'
<1>l. loop \in [Starts -> Loops]
  BY DEF TypeOK, Loops
<1>i. \A i \in Starts : item[i] \in AnItem
  BY DEF TypeOK, AnItem, Memory
\* A step of a loop leaves the client alone.
<1>s. ASSUME loop' \in [Starts -> Loops], item' \in [Starts -> AnItem],
             owner' \in [Starts -> Pointer], content' \in [Starts -> SUBSET Starts],
             UNCHANGED <<client, m_pMutexListOfTrigger, m_plistTrigger, m_pTimerItem>>
      PROVE  TypeOK' /\ MadeInOrder'
  BY <1>s DEF TypeOK, MadeInOrder, client, Loops, AnItem, Memory
<1>t. /\ item \in [Starts -> AnItem] /\ owner \in [Starts -> Pointer]
      /\ content \in [Starts -> SUBSET Starts] /\ Items \subseteq Starts
  BY DEF TypeOK, AnItem, Memory, Items, Pointer
<1>1. CASE Wake(n)
  <2>1. loop' \in [Starts -> Loops]
    BY <1>1, <1>l, LoopAtType DEF Wake
  <2>. QED
    BY <1>1, <1>s, <1>t, <2>1 DEF Wake, mutex, list, heap
<1>2. CASE LoopLocks(n)
  <2>1. loop' \in [Starts -> Loops]
    BY <1>2, <1>l, LoopAtType DEF LoopLocks
  <2>2. owner' \in [Starts -> Pointer]
    BY <1>2, <1>t DEF LoopLocks, Pointer
  <2>. QED
    BY <1>2, <1>s, <1>t, <2>1, <2>2 DEF LoopLocks, list, heap
<1>3. CASE DropRemoved(n)
  <2>1. PICK i \in Items : /\ content' = [content EXCEPT ![m_plistTrigger] = @ \ {i}]
                           /\ item' = [item EXCEPT ![i].memory = "deleted"]
    BY <1>3 DEF DropRemoved
  <2>2. item' \in [Starts -> AnItem]
    BY <2>1, <1>t DEF AnItem, Memory
  <2>3. content' \in [Starts -> SUBSET Starts]
    BY <2>1, <1>t
  <2>. QED
    BY <1>3, <1>s, <1>l, <1>t, <2>2, <2>3 DEF DropRemoved, mutex
<1>4. CASE Fire(n)
  <2>1. PICK i \in Items : /\ content' = [content EXCEPT ![m_plistTrigger] = @ \ {i}]
                           /\ loop' = [loop EXCEPT ![n] = [at |-> "trigger", item |-> i]]
    BY <1>4 DEF Fire
  <2>2. [at |-> "trigger", item |-> i] \in Loops
    BY <1>t DEF Loops
  <2>3. loop' \in [Starts -> Loops] /\ content' \in [Starts -> SUBSET Starts]
    BY <2>1, <2>2, <1>l, <1>t
  <2>. QED
    BY <1>4, <1>s, <1>t, <2>3 DEF Fire, mutex, heap
<1>5. CASE Rearm(n)
  <2>1. loop[n].item \in Starts
    BY <1>5, <1>l DEF Rearm, Loops
  <2>2. loop' \in [Starts -> Loops]
    BY <1>5, <1>l, LoopAtType DEF Rearm
  <2>3. content' \in [Starts -> SUBSET Starts]
    BY <1>5, <1>t, <2>1 DEF Rearm
  <2>. QED
    BY <1>5, <1>s, <1>t, <2>2, <2>3 DEF Rearm, mutex, heap
<1>6. CASE EndScan(n)
  <2>1. loop' \in [Starts -> Loops]
    BY <1>6, <1>l, LoopAtType DEF EndScan
  <2>2. owner' \in [Starts -> Pointer]
    BY <1>6, <1>t DEF EndScan, Unlocked, Pointer
  <2>. QED
    BY <1>6, <1>s, <1>t, <2>1, <2>2 DEF EndScan, list, heap
<1>. QED
  BY <1>1, <1>2, <1>3, <1>4, <1>5, <1>6 DEF Loop

LEMMA NextType ==
    ASSUME TypeOK, MadeInOrder, [Next]_vars
    PROVE  TypeOK' /\ MadeInOrder'
<1>1. CASE UNCHANGED vars
  BY <1>1 DEF vars, TypeOK, MadeInOrder
<1>. QED
  BY <1>1, LoginType, StopType, LoopType DEF Next

LEMMA InitType == Init => TypeOK /\ MadeInOrder
<1>. SUFFICES ASSUME Init PROVE TypeOK /\ MadeInOrder
  OBVIOUS
<1>1. NoItem \in AnItem /\ [at |-> "none", item |-> Null] \in Loops
  BY DEF NoItem, AnItem, Memory, Loops
<1>2. item \in [Starts -> AnItem] /\ loop \in [Starts -> Loops]
  BY <1>1 DEF Init
<1>. QED
  BY <1>2 DEF Init, TypeOK, MadeInOrder, Pointer, AnItem, Memory, Loops

\* The timer is well typed in every reachable state, whether or not logins fail.
THEOREM TypeCorrect == Spec => []TypeOK
<1>. QED
  BY InitType, NextType, PTL DEF Spec

-----------------------------------------------------------------------------
(* The inductive invariant of a timer whose logins succeed *)

\* Between a logout and the next login the timer has no mutex, list or thread.
OutsideIsOff ==
    slot # "used" =>
        pc = "idle" /\ {m_pMutexListOfTrigger, m_plistTrigger, m_pVosThread, m_pTimerItem} = {Null}

\* While a login lasts, mutex, list, thread and item are those of its start, each
\* from the step that makes it to the step that gives it up.
InsideIsOne ==
    slot = "used" =>
        /\ m_pMutexListOfTrigger \in Starts
        /\ m_plistTrigger =
              IF pc \in {"exit", "join", "clearAgain", "forgetMutex"}
              THEN Null ELSE m_pMutexListOfTrigger
        /\ m_pVosThread =
              IF pc \in {"run", "clearAgain", "forgetMutex"} THEN Null ELSE m_pMutexListOfTrigger
        /\ m_pTimerItem =
              IF pc \in {"insert", "domains", "idle", "cancel", "forget"}
              THEN m_pMutexListOfTrigger ELSE Null

\* No loop runs but that of the thread; it scans and triggers with the mutex, a
\* list and its own item.
OneLoop ==
    \A n \in Starts :
        /\ loop[n].at \notin {"none", "ended"} => n = m_pVosThread
        /\ loop[n].at \in {"scan", "trigger"} => owner[n] = n /\ m_plistTrigger = n
        /\ Triggering(n) => loop[n].item = n

\* Only the timer's list has an item, the one of the same start.
OneItem == \A n \in Starts : content[n] # {} => n = m_plistTrigger /\ content[n] = {n}

\* A live item is in its list, in the hands of its loop, or about to be inserted.
LiveIsHeld ==
    \A n \in Starts :
        item[n].memory = "live" =>
            \/ n \in content[n]
            \/ loop[n].item = n
            \/ pc = "insert" /\ n = m_pTimerItem

\* From its mark until it is deleted, an item stays marked.
Marked ==
    pc \in {"forget", "wait", "clear"} =>
        \A n \in Starts : item[n].memory = "live" => item[n].m_bRemoved

\* Before it is inserted, an item is alive and nowhere; the loop finds nothing.
NotYetInserted ==
    pc \in {"run", "register", "insert"} =>
        /\ \A n \in Starts : content[n] = {} /\ ~Triggering(n)
        /\ pc = "insert" => item[m_pTimerItem].memory = "live"

\* Once cancelTimer has returned, the trigger is not running and does not run
\* again, although the item was marked without the mutex and a trigger that had
\* begun before puts it back into the list (SDKTimer.cpp:415, 439 and 565).
CancelledIsQuiet ==
    pc \in {"clear", "exit", "join", "clearAgain", "forgetMutex"} \/ slot = "out"
        => \A n \in Starts : ~Triggering(n)

TimerInv ==
    /\ TypeOK
    /\ OutsideIsOff
    /\ InsideIsOne
    /\ OneLoop
    /\ OneItem
    /\ LiveIsHeld
    /\ Marked
    /\ NotYetInserted
    /\ ListedIsLive
    /\ CancelledIsQuiet

LEMMA InitInv == Init => TimerInv
<1>. SUFFICES ASSUME Init PROVE TimerInv
  OBVIOUS
<1>1. TypeOK
  BY InitType
<1>2. \A n \in Starts : loop[n].at = "none" /\ loop[n].item = Null /\ item[n].memory = "none"
                        /\ content[n] = {}
  BY DEF Init, NoItem
<1>. QED
  BY <1>1, <1>2, StartsAssumption
  DEF Init, TimerInv, OutsideIsOff, InsideIsOne, OneLoop, OneItem, LiveIsHeld, Marked,
      NotYetInserted, ListedIsLive, CancelledIsQuiet, Triggering

\* The types that the steps below use.
LEMMA Shape ==
    ASSUME TypeOK
    PROVE  /\ loop \in [Starts -> Loops] /\ owner \in [Starts -> Pointer]
           /\ content \in [Starts -> SUBSET Starts] /\ item \in [Starts -> AnItem]
           /\ \A n \in Starts : Triggering(n) <=> loop[n].item # Null
           /\ \A n \in Starts : loop[n].item \in Pointer
<1>1. loop \in [Starts -> Loops]
  BY DEF TypeOK, Loops
<1>2. \A n \in Starts : /\ Triggering(n) <=> loop[n].item # Null
                        /\ loop[n].item \in Pointer
  BY <1>1, StartsAssumption DEF Loops, Triggering, Pointer
<1>. QED
  BY <1>1, <1>2 DEF TypeOK, AnItem, Memory

LEMMA StartInitInv ==
    ASSUME TimerInv, TypeOK', NEW n \in Starts, StartInit(n)
    PROVE  TimerInv'
<1>1. /\ pc' = "run" /\ slot' = "used" /\ m_pMutexListOfTrigger' = n /\ m_plistTrigger' = n
      /\ m_pVosThread' = Null /\ m_pTimerItem' = Null
      /\ UNCHANGED <<content, item, loop>>
  BY DEF StartInit, TimerInv, OutsideIsOff, heap, Goto
<1>2. \A k \in Starts : content[k] = {} /\ loop[k].at \in {"none", "ended"}
  BY StartsAssumption DEF TimerInv, OutsideIsOff, OneItem, OneLoop, StartInit
<1>3. \A k \in Starts : loop[k].item = Null /\ item[k].memory # "live" /\ ~Triggering(k)
  BY <1>2, Shape, StartsAssumption DEF TimerInv, LiveIsHeld, StartInit, Triggering
<1>4. \A k \in Starts : ~Triggering(k)'
  BY <1>1, <1>3 DEF Triggering
<1>. QED
  BY <1>1, <1>2, <1>3, <1>4, StartsAssumption
  DEF TimerInv, OutsideIsOff, InsideIsOne, OneLoop, OneItem, LiveIsHeld, Marked,
      NotYetInserted, ListedIsLive, CancelledIsQuiet

LEMMA LoginInv ==
    ASSUME TimerInv, TypeOK', LoginFails = FALSE, Login
    PROVE  TimerInv'
<1>1. CASE \E n \in Starts : StartInit(n)
  BY <1>1, StartInitInv
<1>2. CASE StartRun
  <2> DEFINE m == m_pMutexListOfTrigger
  <2>1. slot = "used" /\ m \in Starts /\ m_plistTrigger = m /\ m_pTimerItem = Null
        /\ m_pVosThread = Null
    BY <1>2 DEF StartRun, TimerInv, OutsideIsOff, InsideIsOne
  <2>2. /\ pc' = "register" /\ m_pVosThread' = m
        /\ loop' = [loop EXCEPT ![m] = [at |-> "sleep", item |-> Null]]
        /\ UNCHANGED <<m_bExit, m_pMutexListOfTrigger, owner, m_plistTrigger, content,
                       item, m_pTimerItem, slot>>
    BY <1>2 DEF StartRun, Goto, LoopAt, mutex, list, heap
  <2>3. \A k \in Starts : /\ content[k] = {} /\ ~Triggering(k) /\ loop[k].item = Null
                          /\ loop[k].at \in {"none", "ended"}
    BY <1>2, <2>1, Shape, StartsAssumption DEF StartRun, TimerInv, NotYetInserted, OneLoop
  <2>4. \A k \in Starts : /\ ~Triggering(k)' /\ loop'[k].item = Null
                          /\ k # m => loop'[k].at \in {"none", "ended"}
                          /\ loop'[k].at \in {"none", "ended", "sleep"}
    BY <2>2, <2>3, Shape DEF TimerInv, Triggering
  <2>. QED
    BY <1>2, <2>1, <2>2, <2>3, <2>4, StartsAssumption
    DEF StartRun, TimerInv, OutsideIsOff, InsideIsOne, OneLoop, OneItem, LiveIsHeld, Marked,
        NotYetInserted, ListedIsLive, CancelledIsQuiet
<1>3. CASE Register
  <2> DEFINE m == m_pMutexListOfTrigger
  <2>1. slot = "used" /\ m \in Starts /\ m_plistTrigger = m /\ m_pTimerItem = Null
        /\ m_pVosThread = m
    BY <1>3 DEF Register, TimerInv, OutsideIsOff, InsideIsOne
  <2>2. /\ pc' = "insert" /\ m_pTimerItem' = m
        /\ item' = [item EXCEPT ![m] = [memory |-> "live", trigger |-> TRUE, m_bRemoved |-> FALSE]]
        /\ UNCHANGED <<m_bExit, m_pMutexListOfTrigger, owner, m_plistTrigger, content,
                       m_pVosThread, loop, slot>>
    BY <1>3, <2>1 DEF Register, Goto, mutex, list
  <2>3. \A k \in Starts : /\ content[k] = {} /\ ~Triggering(k) /\ ~Triggering(k)'
                          /\ loop[k].item = Null
    BY <1>3, <2>2, Shape DEF Register, TimerInv, NotYetInserted, Triggering
  <2>4. \A k \in Starts : item[k].memory # "live"
    BY <1>3, <2>1, <2>3, StartsAssumption DEF Register, TimerInv, LiveIsHeld
  <2>5. \A k \in Starts : item'[k].memory = "live" <=> k = m
    BY <2>1, <2>2, <2>4, Shape DEF TimerInv
  <2>. QED
    BY <1>3, <2>1, <2>2, <2>3, <2>5, StartsAssumption
    DEF Register, TimerInv, OutsideIsOff, InsideIsOne, OneLoop, OneItem, LiveIsHeld, Marked,
        NotYetInserted, ListedIsLive, CancelledIsQuiet
<1>4. CASE Insert
  <2> DEFINE m == m_pMutexListOfTrigger
  <2>1. slot = "used" /\ m \in Starts /\ m_plistTrigger = m /\ m_pTimerItem = m
        /\ m_pVosThread = m
    BY <1>4 DEF Insert, TimerInv, OutsideIsOff, InsideIsOne
  <2>2. /\ pc' = "domains" /\ content' = [content EXCEPT ![m] = @ \union {m}]
        /\ UNCHANGED <<m_bExit, m_pMutexListOfTrigger, owner, m_plistTrigger, item,
                       m_pTimerItem, m_pVosThread, loop, slot>>
    BY <1>4, <2>1 DEF Insert, Goto, mutex, heap
  <2>3. \A k \in Starts : /\ content[k] = {} /\ ~Triggering(k) /\ ~Triggering(k)'
                          /\ loop[k].item = Null
    BY <1>4, <2>2, Shape DEF Insert, TimerInv, NotYetInserted, Triggering
  <2>4. \A k \in Starts : content'[k] = IF k = m THEN {m} ELSE {}
    BY <2>1, <2>2, <2>3, Shape DEF TimerInv
  <2>5. item[m].memory = "live"
    BY <1>4, <2>1 DEF Insert, TimerInv, NotYetInserted
  <2>. QED
    BY <1>4, <2>1, <2>2, <2>3, <2>4, <2>5, StartsAssumption
    DEF Insert, TimerInv, OutsideIsOff, InsideIsOne, OneLoop, OneItem, LiveIsHeld, Marked,
        NotYetInserted, ListedIsLive, CancelledIsQuiet
<1>5. CASE Domains
  <2>1. /\ pc = "domains" /\ pc' = "idle"
        /\ UNCHANGED <<m_bExit, m_pMutexListOfTrigger, owner, m_plistTrigger, content, item,
                       m_pTimerItem, m_pVosThread, loop, slot>>
    BY <1>5 DEF Domains, Goto, mutex, list, heap
  <2>. QED
    BY <2>1
    DEF TimerInv, OutsideIsOff, InsideIsOne, OneLoop, OneItem, LiveIsHeld, Marked,
        NotYetInserted, ListedIsLive, CancelledIsQuiet, Triggering
<1>. QED
  BY <1>1, <1>2, <1>3, <1>4, <1>5 DEF Login

\* The mutex is free only while no loop scans or triggers.
LEMMA FreeIsQuiet ==
    ASSUME TimerInv, Free, slot = "used"
    PROVE  \A n \in Starts : loop[n].at \notin {"scan", "trigger"}
<1>. SUFFICES ASSUME NEW n \in Starts, loop[n].at \in {"scan", "trigger"} PROVE FALSE
  OBVIOUS
<1>1. owner[n] = n /\ m_plistTrigger = n
  BY DEF TimerInv, OneLoop
<1>2. m_pMutexListOfTrigger = n
  BY <1>1, StartsAssumption DEF TimerInv, InsideIsOne
<1>. QED
  BY <1>1, <1>2, StartsAssumption DEF Free

\* A clearTimer that finds the list deletes the item; one that does not, nothing.
LEMMA ClearInv ==
    ASSUME TimerInv, TypeOK', NEW from, NEW to, ClearTimer(from, to),
           \/ from = "clear" /\ to = "exit"
           \/ from = "clearAgain" /\ to = "forgetMutex"
    PROVE  TimerInv'
<1> DEFINE m == m_pMutexListOfTrigger
<1>1. pc = from /\ slot = "used" /\ m \in Starts /\ m_pTimerItem = Null
  BY DEF ClearTimer, TimerInv, OutsideIsOff, InsideIsOne
<1>2. \A n \in Starts : ~Triggering(n) /\ loop[n].item = Null /\ loop[n].at # "scan"
  BY <1>1, FreeIsQuiet, Shape DEF ClearTimer, TimerInv, Triggering
<1>3. /\ pc' = to /\ m_plistTrigger' = Null
      /\ content' = [n \in Starts |-> IF n = m_plistTrigger THEN {} ELSE content[n]]
      /\ item' = [n \in Starts |->
                    IF n \in Items THEN [item[n] EXCEPT !.memory = "deleted"] ELSE item[n]]
      /\ UNCHANGED <<m_bExit, m_pVosThread, slot, m_pMutexListOfTrigger, owner, m_pTimerItem,
                     loop>>
  BY <1>1, StartsAssumption DEF ClearTimer, Goto, mutex
<1>4. \A n \in Starts : content'[n] = {} /\ ~Triggering(n)'
  BY <1>2, <1>3, Shape DEF TimerInv, OneItem, Triggering
<1>5. \A n \in Starts : item'[n].memory # "live"
  <2> SUFFICES ASSUME NEW n \in Starts PROVE item'[n].memory # "live"
    OBVIOUS
  <2>1. CASE n \in Items
    BY <2>1, <1>3, Shape DEF TimerInv, AnItem
  <2>2. CASE n \notin Items
    <3>1. content[n] = {}
      BY <2>2, StartsAssumption DEF TimerInv, OneItem, Items
    <3>2. item[n].memory # "live"
      BY <3>1, <1>1, <1>2, StartsAssumption DEF TimerInv, LiveIsHeld
    <3>. QED
      BY <2>2, <3>2, <1>3
  <2>. QED
    BY <2>1, <2>2
<1>6. OutsideIsOff' /\ InsideIsOne'
  BY <1>1, <1>3, StartsAssumption DEF TimerInv, OutsideIsOff, InsideIsOne
<1>7. OneLoop'
  BY <1>2, <1>3, <1>4 DEF TimerInv, OneLoop, Triggering
<1>8. OneItem' /\ LiveIsHeld' /\ ListedIsLive'
  BY <1>4, <1>5 DEF OneItem, LiveIsHeld, ListedIsLive
<1>9. Marked' /\ NotYetInserted' /\ CancelledIsQuiet'
  BY <1>3, <1>4, <1>5 DEF Marked, NotYetInserted, CancelledIsQuiet
<1>. QED
  BY <1>6, <1>7, <1>8, <1>9 DEF TimerInv

LEMMA StopInv ==
    ASSUME TimerInv, TypeOK', Logout \/ Stop
    PROVE  TimerInv'
<1> DEFINE m == m_pMutexListOfTrigger
<1>t. \A n \in Starts : Triggering(n)' <=> loop'[n].at = "trigger"
  BY DEF Triggering
<1>1. CASE Logout
  BY <1>1, <1>t
  DEF Logout, Goto, mutex, list, heap, TimerInv, OutsideIsOff, InsideIsOne, OneLoop, OneItem,
      LiveIsHeld, Marked, NotYetInserted, ListedIsLive, CancelledIsQuiet, Triggering
<1>2. CASE CancelRemoves
  <2>1. slot = "used" /\ m \in Starts /\ m_pTimerItem = m /\ m_plistTrigger = m
        /\ m_pVosThread = m /\ pc = "cancel"
    BY <1>2 DEF CancelRemoves, TimerInv, OutsideIsOff, InsideIsOne
  <2>2. /\ pc' = "forget" /\ item' = [item EXCEPT ![m].m_bRemoved = TRUE]
        /\ UNCHANGED <<m_bExit, m_pMutexListOfTrigger, owner, m_plistTrigger, content,
                       m_pTimerItem, m_pVosThread, loop, slot>>
    BY <1>2, <2>1, StartsAssumption DEF CancelRemoves, Goto, mutex, list
  <2>3. \A n \in Starts : item[n].memory = "live" => n = m
    BY <2>1, Shape, StartsAssumption DEF TimerInv, LiveIsHeld, OneItem, OneLoop, Triggering
  <2>4. /\ \A n \in Starts : item'[n].memory = item[n].memory
        /\ item'[m].m_bRemoved
    BY <2>1, <2>2, Shape DEF TimerInv, AnItem
  <2>. QED
    BY <2>1, <2>2, <2>3, <2>4
    DEF TimerInv, OutsideIsOff, InsideIsOne, OneLoop, OneItem, LiveIsHeld, Marked,
        NotYetInserted, ListedIsLive, CancelledIsQuiet, Triggering
<1>3. CASE CancelForgets
  <2>1. slot = "used" /\ m \in Starts /\ m_pTimerItem = m /\ pc = "forget"
    BY <1>3 DEF CancelForgets, TimerInv, OutsideIsOff, InsideIsOne
  <2>2. /\ pc' = "wait" /\ m_pTimerItem' = Null /\ item' = [item EXCEPT ![m].trigger = FALSE]
        /\ UNCHANGED <<m_bExit, m_pMutexListOfTrigger, owner, m_plistTrigger, content,
                       m_pVosThread, loop, slot>>
    BY <1>3, <2>1 DEF CancelForgets, Goto, mutex, list
  <2>3. \A n \in Starts : /\ item'[n].memory = item[n].memory
                          /\ item'[n].m_bRemoved = item[n].m_bRemoved
    BY <2>1, <2>2, Shape DEF TimerInv, AnItem
  <2>. QED
    BY <2>1, <2>2, <2>3
    DEF TimerInv, OutsideIsOff, InsideIsOne, OneLoop, OneItem, LiveIsHeld, Marked,
        NotYetInserted, ListedIsLive, CancelledIsQuiet, Triggering
<1>4. CASE CancelWaits
  <2>1. slot = "used"
    BY <1>4 DEF CancelWaits, TimerInv, OutsideIsOff
  <2>2. \A n \in Starts : ~Triggering(n)
    BY <1>4, <2>1, FreeIsQuiet DEF CancelWaits, Triggering
  <2>. QED
    BY <1>4, <2>1, <2>2
    DEF CancelWaits, Goto, mutex, list, heap, TimerInv, OutsideIsOff, InsideIsOne, OneLoop,
        OneItem, LiveIsHeld, Marked, NotYetInserted, ListedIsLive, CancelledIsQuiet, Triggering
<1>5. CASE ClearTimer("clear", "exit")
  BY <1>5, ClearInv
<1>6. CASE ExitFlag
  BY <1>6
  DEF ExitFlag, Goto, mutex, list, heap, TimerInv, OutsideIsOff, InsideIsOne, OneLoop, OneItem,
      LiveIsHeld, Marked, NotYetInserted, ListedIsLive, CancelledIsQuiet, Triggering
<1>7. CASE ExitJoins
  <2>1. \A n \in Starts : loop[n].at \in {"none", "ended"}
    BY <1>7 DEF ExitJoins, TimerInv, OneLoop
  <2>. QED
    BY <1>7, <2>1
    DEF ExitJoins, Goto, mutex, list, heap, TimerInv, OutsideIsOff, InsideIsOne, OneLoop,
        OneItem, LiveIsHeld, Marked, NotYetInserted, ListedIsLive, CancelledIsQuiet, Triggering
<1>8. CASE ClearTimer("clearAgain", "forgetMutex")
  BY <1>8, ClearInv
<1>9. CASE ExitForgets
  BY <1>9
  DEF ExitForgets, Goto, list, heap, TimerInv, OutsideIsOff, InsideIsOne, OneLoop, OneItem,
      LiveIsHeld, Marked, NotYetInserted, ListedIsLive, CancelledIsQuiet, Triggering
<1>. QED
  BY <1>1, <1>2, <1>3, <1>4, <1>5, <1>6, <1>7, <1>8, <1>9 DEF Stop

LEMMA LoopInv ==
    ASSUME TimerInv, TypeOK', NEW n \in Starts, Loop(n)
    PROVE  TimerInv'
<1> DEFINE m == m_pMutexListOfTrigger
\* The loop is that of the login that lasts; its client has not touched anything.
<1>1. /\ slot = "used" /\ n = m /\ m_pVosThread = n /\ loop[n].at \notin {"none", "ended"}
      /\ UNCHANGED <<m_bExit, m_pVosThread, slot, pc, m_pMutexListOfTrigger, m_plistTrigger,
                     m_pTimerItem>>
  <2>1. loop[n].at \notin {"none", "ended"}
    BY DEF Loop, Wake, LoopLocks, DropRemoved, Fire, Rearm, EndScan
  <2>2. m_pVosThread = n
    BY <2>1 DEF TimerInv, OneLoop
  <2>3. UNCHANGED <<m_bExit, m_pVosThread, slot, pc, m_pMutexListOfTrigger, m_plistTrigger,
                    m_pTimerItem>>
    BY DEF Loop, Wake, LoopLocks, DropRemoved, Fire, Rearm, EndScan, client, mutex, list, heap
  <2>. QED
    BY <2>1, <2>2, <2>3, StartsAssumption DEF TimerInv, OutsideIsOff, InsideIsOne
<1>2. OutsideIsOff' /\ InsideIsOne'
  BY <1>1 DEF TimerInv, OutsideIsOff, InsideIsOne
<1>3. \A k \in Starts \ {n} : loop[k].at \in {"none", "ended"} /\ loop[k].item = Null
  BY <1>1, Shape DEF TimerInv, OneLoop, Triggering
\* Wake, LoopLocks and EndScan move the loop and its hold on the mutex.
<1>4. ASSUME NEW at \in {"sleep", "lock", "scan", "ended"}, LoopAt(n, at), ~Triggering(n),
             UNCHANGED <<content, item>>,
             at = "scan" => owner'[n] = n /\ m_plistTrigger = n
      PROVE  TimerInv'
  <2>1. \A k \in Starts : /\ loop'[k].item = loop[k].item
                          /\ Triggering(k)' <=> Triggering(k)
                          /\ k # n => loop'[k].at = loop[k].at
                          /\ loop'[n].at = at
    BY <1>4, Shape DEF TimerInv, LoopAt, Triggering
  <2>2. OneLoop'
    BY <1>1, <1>3, <1>4, <2>1 DEF OneLoop, Triggering
  <2>3. OneItem' /\ LiveIsHeld' /\ Marked' /\ NotYetInserted'
    BY <1>1, <1>4, <2>1 DEF TimerInv, OneItem, LiveIsHeld, Marked, NotYetInserted
  <2>4. ListedIsLive' /\ CancelledIsQuiet'
    BY <1>1, <1>4, <2>1 DEF TimerInv, ListedIsLive, CancelledIsQuiet
  <2>. QED
    BY <1>2, <2>2, <2>3, <2>4 DEF TimerInv
<1>5. CASE Wake(n)
  BY <1>5, <1>4 DEF Wake, Triggering, mutex, list, heap
<1>6. CASE LoopLocks(n)
  <2>1. m # Null
    BY <1>1, StartsAssumption
  <2>2. CASE m_plistTrigger = Null
    BY <1>6, <1>4, <2>1, <2>2 DEF LoopLocks, Triggering, list, heap
  <2>3. CASE m_plistTrigger # Null
    <3>1. m_plistTrigger = n
      BY <1>1, <2>3 DEF TimerInv, InsideIsOne
    <3>2. LoopAt(n, "scan") /\ owner' = [owner EXCEPT ![n] = n] /\ ~Triggering(n)
          /\ UNCHANGED <<content, item>>
      BY <1>1, <1>6, <2>1, <2>3 DEF LoopLocks, Triggering, list, heap
    <3>3. owner'[n] = n
      BY <3>2, Shape DEF TimerInv
    <3>. QED
      BY <1>4, <3>1, <3>2, <3>3
  <2>. QED
    BY <2>2, <2>3
<1>7. CASE EndScan(n)
  BY <1>7, <1>4 DEF EndScan, Triggering, list, heap
\* Nothing is scanned while the item is not yet in the list.
<1>8. ASSUME loop[n].at = "scan", NEW i \in Items
      PROVE  /\ i = n /\ content[n] = {n} /\ m_plistTrigger = n /\ item[n].memory = "live"
             /\ pc \notin {"run", "register", "insert"} /\ loop[n].item = Null
             /\ owner[n] = n
             /\ pc \notin {"exit", "join", "clearAgain", "forgetMutex"}
  <2>1. m_plistTrigger = n /\ owner[n] = n
    BY <1>8 DEF TimerInv, OneLoop
  <2>2. i \in content[n] /\ content[n] = {n}
    BY <1>8, <2>1 DEF Items, TimerInv, OneItem
  <2>3. item[n].memory = "live" /\ pc \notin {"run", "register", "insert"}
    BY <2>2 DEF TimerInv, ListedIsLive, NotYetInserted
  <2>4. pc \notin {"exit", "join", "clearAgain", "forgetMutex"}
    BY <1>1, <2>1, StartsAssumption DEF TimerInv, InsideIsOne
  <2>. QED
    BY <1>8, <2>1, <2>2, <2>3, <2>4, Shape DEF TimerInv, Triggering
<1>9. CASE DropRemoved(n)
  <2>1. PICK i \in Items : /\ content' = [content EXCEPT ![m_plistTrigger] = @ \ {i}]
                           /\ item' = [item EXCEPT ![i].memory = "deleted"]
    BY <1>9 DEF DropRemoved
  <2>2. loop[n].at = "scan" /\ UNCHANGED <<loop, owner>>
    BY <1>9 DEF DropRemoved, mutex
  <2>3. /\ i = n /\ m_plistTrigger = n /\ pc \notin {"run", "register", "insert"}
        /\ content[n] = {n}
    BY <1>8, <2>1, <2>2
  <2>4. \A k \in Starts : content'[k] = {} /\ item'[k].memory # "live"
    <3>1. \A k \in Starts : k # n => content[k] = {} /\ item[k].memory # "live"
      BY <1>1, <1>3, <2>3, StartsAssumption DEF TimerInv, OneItem, LiveIsHeld
    <3>2. content' = [content EXCEPT ![n] = {}] /\ item' = [item EXCEPT ![n].memory = "deleted"]
      BY <2>1, <2>3, Shape DEF TimerInv
    <3>3. item'[n].memory = "deleted"
      BY <3>2, Shape DEF TimerInv, AnItem
    <3>. QED
      BY <3>1, <3>2, <3>3, Shape DEF TimerInv
  <2>5. \A k \in Starts : ~Triggering(k) /\ ~Triggering(k)'
    BY <1>3, <2>2 DEF Triggering
  <2>6. OneLoop'
    BY <1>1, <2>2, <2>5 DEF TimerInv, OneLoop
  <2>7. OneItem' /\ LiveIsHeld' /\ Marked' /\ NotYetInserted'
    BY <1>1, <2>3, <2>4 DEF OneItem, LiveIsHeld, Marked, NotYetInserted
  <2>8. ListedIsLive' /\ CancelledIsQuiet'
    BY <2>4, <2>5 DEF ListedIsLive, CancelledIsQuiet
  <2>. QED
    BY <1>2, <2>6, <2>7, <2>8 DEF TimerInv
<1>10. CASE Fire(n)
  <2>1. PICK i \in Items : /\ ~Removed(i)
                           /\ content' = [content EXCEPT ![m_plistTrigger] = @ \ {i}]
                           /\ loop' = [loop EXCEPT ![n] = [at |-> "trigger", item |-> i]]
    BY <1>10 DEF Fire
  <2>2. loop[n].at = "scan" /\ UNCHANGED <<item, owner>>
    BY <1>10 DEF Fire, mutex, heap
  <2>3. /\ i = n /\ m_plistTrigger = n /\ pc \notin {"run", "register", "insert"}
        /\ content[n] = {n} /\ item[n].memory = "live" /\ owner[n] = n
        /\ pc \notin {"exit", "join", "clearAgain", "forgetMutex"}
    BY <1>8, <2>1, <2>2
  \* After the mark the item is removed: its trigger is not called.
  <2>4. pc \notin {"forget", "wait", "clear"}
    BY <2>1, <2>3 DEF Removed, TimerInv, Marked
  <2>5. \A k \in Starts : content'[k] = {} /\ (k # n => item[k].memory # "live")
    BY <1>1, <1>3, <2>1, <2>3, Shape, StartsAssumption DEF TimerInv, OneItem, LiveIsHeld
  <2>6. /\ loop'[n].at = "trigger" /\ loop'[n].item = n
        /\ \A k \in Starts \ {n} : loop'[k] = loop[k]
    BY <2>1, <2>3, Shape DEF TimerInv
  <2>7. OneLoop'
    BY <1>1, <1>3, <2>2, <2>3, <2>6 DEF OneLoop, Triggering
  <2>8. OneItem' /\ LiveIsHeld' /\ Marked' /\ NotYetInserted'
    BY <1>1, <2>2, <2>3, <2>4, <2>5, <2>6 DEF OneItem, LiveIsHeld, Marked, NotYetInserted
  <2>9. ListedIsLive'
    BY <1>3, <2>2, <2>3, <2>5, <2>6 DEF ListedIsLive, Triggering
  <2>10. CancelledIsQuiet'
    BY <1>1, <2>3, <2>4 DEF CancelledIsQuiet
  <2>. QED
    BY <1>2, <2>7, <2>8, <2>9, <2>10 DEF TimerInv
<1>11. CASE Rearm(n)
  <2>1. loop[n].at = "trigger" /\ LoopAt(n, "scan") /\ UNCHANGED <<item, owner>>
    BY <1>11 DEF Rearm, mutex, heap
  <2>2. Triggering(n) /\ loop[n].item = n /\ owner[n] = n /\ m_plistTrigger = n
    BY <2>1 DEF Triggering, TimerInv, OneLoop
  <2>3. item[n].memory = "live" /\ pc \notin {"run", "register", "insert"}
    BY <2>2 DEF TimerInv, ListedIsLive, NotYetInserted
  <2>4. \A k \in Starts : content'[k] = IF k = n THEN {n} ELSE {}
    BY <1>11, <2>2, Shape DEF Rearm, TimerInv, OneItem
  <2>5. /\ loop'[n].at = "scan" /\ loop'[n].item = Null
        /\ \A k \in Starts \ {n} : loop'[k] = loop[k]
    BY <2>1, Shape DEF LoopAt, TimerInv
  <2>6. \A k \in Starts : ~Triggering(k)' /\ loop'[k].item = Null
    BY <1>3, <2>5 DEF Triggering
  <2>7. OneLoop'
    BY <1>1, <1>3, <2>1, <2>2, <2>5, <2>6 DEF OneLoop
  <2>8. OneItem' /\ Marked' /\ NotYetInserted'
    BY <1>1, <2>1, <2>2, <2>3, <2>4 DEF TimerInv, OneItem, Marked, NotYetInserted
  <2>9. LiveIsHeld'
    BY <1>1, <1>3, <2>1, <2>2, <2>3, <2>4, StartsAssumption DEF TimerInv, OneItem, LiveIsHeld
  <2>10. ListedIsLive' /\ CancelledIsQuiet'
    BY <2>1, <2>3, <2>4, <2>6, StartsAssumption DEF ListedIsLive, CancelledIsQuiet
  <2>. QED
    BY <1>2, <2>7, <2>8, <2>9, <2>10 DEF TimerInv
<1>. QED
  BY <1>5, <1>6, <1>7, <1>9, <1>10, <1>11 DEF Loop

\* The invariant is inductive when a login that has started the timer succeeds.
LEMMA NextInv ==
    ASSUME TimerInv, LoginFails = FALSE, [Next]_vars
    PROVE  TimerInv'
<1>1. MadeInOrder
  BY StartsAssumption DEF TimerInv, MadeInOrder, OutsideIsOff, InsideIsOne
<1>2. TypeOK'
  BY <1>1, NextType DEF TimerInv
<1>3. CASE UNCHANGED vars
  BY <1>3
  DEF vars, TimerInv, TypeOK, OutsideIsOff, InsideIsOne, OneLoop, OneItem, LiveIsHeld, Marked,
      NotYetInserted, ListedIsLive, CancelledIsQuiet, Triggering
<1>. QED
  BY <1>2, <1>3, LoginInv, StopInv, LoopInv DEF Next

LEMMA InvCorrect ==
    ASSUME LoginFails = FALSE
    PROVE  Spec => []TimerInv
<1>1. TimerInv /\ [Next]_vars => TimerInv'
  BY NextInv
<1>. QED
  BY InitInv, <1>1, PTL DEF Spec

\* Once cancelTimer has returned, no trigger runs until the next login: the
\* promise on which the owner of a trigger relies that it cancels.
THEOREM QuietCorrect ==
    ASSUME LoginFails = FALSE
    PROVE  Spec => []CancelledIsQuiet
<1>1. TimerInv => CancelledIsQuiet
  BY DEF TimerInv
<1>. QED
  BY InvCorrect, <1>1, PTL

\* What is in a list or in the hands of a trigger is alive, and in one place only.
THEOREM LiveCorrect ==
    ASSUME LoginFails = FALSE
    PROVE  Spec => []ListedIsLive
<1>1. TimerInv => ListedIsLive
  BY DEF TimerInv
<1>. QED
  BY InvCorrect, <1>1, PTL

\* A logout leaves neither an item nor a thread behind.
THEOREM EmptyCorrect ==
    ASSUME LoginFails = FALSE
    PROVE  Spec => []LoggedOutIsEmpty
<1>1. TimerInv => LoggedOutIsEmpty
  <2>. SUFFICES ASSUME TimerInv, slot = "out", NEW n \in Starts
                PROVE  item[n].memory # "live" /\ loop[n].at \in {"none", "ended"}
    BY DEF LoggedOutIsEmpty
  <2>1. m_plistTrigger = Null /\ m_pVosThread = Null /\ pc = "idle"
    BY DEF TimerInv, OutsideIsOff
  <2>2. loop[n].at \in {"none", "ended"} /\ content[n] = {}
    BY <2>1, StartsAssumption DEF TimerInv, OneLoop, OneItem
  <2>. QED
    BY <2>1, <2>2, Shape, StartsAssumption DEF TimerInv, LiveIsHeld, Triggering
<1>. QED
  BY InvCorrect, <1>1, PTL

-----------------------------------------------------------------------------
(* The timer implements Trigger *)

\* A step that changes neither what the client has asked for nor the loops.
LEMMA Stutters ==
    ASSUME Phase' = Phase, UNCHANGED loop
    PROVE  [TriggerSpec!Next]_(TriggerSpec!vars)
<1>1. Calling' = Calling
  BY DEF Calling, Triggering
<1>. QED
  BY <1>1 DEF TriggerSpec!vars

\* Every step of the timer is a step of Trigger, or none.
LEMMA StepImplements ==
    ASSUME TimerInv, TimerInv', LoginFails = FALSE, [Next]_vars
    PROVE  [TriggerSpec!Next]_(TriggerSpec!vars)
<1> DEFINE Goal == [TriggerSpec!Next]_(TriggerSpec!vars)
<1>1. CASE UNCHANGED vars
  BY <1>1, Stutters DEF vars, Phase
<1>2. CASE Login
  <2>1. CASE \E n \in Starts : StartInit(n)
    <3>1. UNCHANGED <<m_pTimerItem, loop>> /\ pc = "idle" /\ pc' = "run"
      BY <2>1 DEF StartInit, heap, Goto
    <3>. QED
      BY <3>1, Stutters DEF Phase
  <2>2. CASE StartRun
    <3>1. UNCHANGED m_pTimerItem /\ pc = "run" /\ pc' = "register"
      BY <2>2 DEF StartRun, heap, Goto
    <3>2. Calling = FALSE /\ Calling' = FALSE
      BY <3>1 DEF TimerInv, NotYetInserted, Calling
    <3>. QED
      BY <3>1, <3>2 DEF Phase, TriggerSpec!vars
  <2>3. CASE Register
    <3>1. pc = "register" /\ pc' = "insert" /\ UNCHANGED <<slot, loop>>
      BY <2>3 DEF Register, Goto
    <3>2. m_pTimerItem = Null /\ m_pTimerItem' # Null
      BY <3>1, StartsAssumption DEF TimerInv, OutsideIsOff, InsideIsOne
    <3>3. Phase = "off" /\ Phase' = "armed"
      BY <3>1, <3>2 DEF Phase
    <3>4. Calling' = Calling
      BY <3>1 DEF Calling, Triggering
    <3>. QED
      BY <3>3, <3>4 DEF TriggerSpec!Next, TriggerSpec!Arm
  <2>4. CASE Insert
    <3>1. UNCHANGED <<m_pTimerItem, loop>> /\ pc = "insert" /\ pc' = "domains"
      BY <2>4 DEF Insert, heap, Goto
    <3>. QED
      BY <3>1, Stutters DEF Phase
  <2>5. CASE Domains
    <3>1. UNCHANGED <<m_pTimerItem, loop>> /\ pc = "domains" /\ pc' = "idle"
      BY <2>5 DEF Domains, heap, Goto
    <3>. QED
      BY <3>1, Stutters DEF Phase
  <2>. QED
    BY <1>2, <2>1, <2>2, <2>3, <2>4, <2>5 DEF Login
<1>3. CASE CancelRemoves
  <2>1. pc = "cancel" /\ UNCHANGED <<m_pTimerItem, loop>> /\ m_pTimerItem # Null
    BY <1>3, StartsAssumption DEF CancelRemoves, TimerInv, OutsideIsOff, InsideIsOne
  <2>2. Phase = "armed" /\ Phase' = "cancelled"
    BY <1>3, <2>1 DEF CancelRemoves, Goto, Phase
  <2>3. Calling' = Calling
    BY <2>1 DEF Calling, Triggering
  <2>. QED
    BY <2>2, <2>3 DEF TriggerSpec!Next, TriggerSpec!Cancel
<1>4. CASE CancelForgets
  BY <1>4, Stutters DEF CancelForgets, Goto, Phase
<1>5. CASE CancelWaits
  <2>1. pc = "wait" /\ pc' = "clear" /\ UNCHANGED <<slot, m_pTimerItem, loop>>
    BY <1>5 DEF CancelWaits, Goto, heap
  <2>2. m_pTimerItem' = Null
    BY <2>1, StartsAssumption DEF TimerInv, OutsideIsOff, InsideIsOne
  <2>3. Phase = "cancelled" /\ Phase' = "off"
    BY <2>1, <2>2 DEF Phase
  <2>4. Calling = FALSE /\ Calling' = FALSE
    BY <2>1 DEF TimerInv, CancelledIsQuiet, Calling, Triggering
  <2>. QED
    BY <2>3, <2>4 DEF TriggerSpec!Next, TriggerSpec!CancelReturns
<1>6. CASE ClearTimer("clear", "exit") \/ ClearTimer("clearAgain", "forgetMutex")
  BY <1>6, Stutters DEF ClearTimer, Goto, Phase
<1>7. CASE Logout \/ ExitFlag \/ ExitJoins \/ ExitForgets
  BY <1>7, Stutters DEF Logout, ExitFlag, ExitJoins, ExitForgets, Goto, heap, Phase
<1>8. ASSUME NEW n \in Starts, Loop(n) PROVE Goal
  <2>1. Phase' = Phase
    BY <1>8 DEF Loop, Wake, LoopLocks, DropRemoved, Fire, Rearm, EndScan, client, heap, Phase
  <2>2. CASE Fire(n)
    <3>1. PICK i \in Items : ~Removed(i) /\ loop' = [loop EXCEPT ![n] = [at |-> "trigger", item |-> i]]
      BY <2>2 DEF Fire
    <3>2. loop[n].at = "scan" /\ m_plistTrigger = n /\ i = n /\ n = m_pVosThread /\ UNCHANGED pc
      BY <2>2, <3>1 DEF Fire, client, TimerInv, OneLoop, OneItem, Items
    <3>3. item[n].memory = "live" /\ pc \notin {"run", "register", "insert"} /\ slot = "used"
      BY <3>1, <3>2, StartsAssumption
      DEF TimerInv, ListedIsLive, NotYetInserted, Items, OutsideIsOff
    <3>4. pc \notin {"forget", "wait", "clear", "exit", "join", "clearAgain", "forgetMutex"}
      BY <3>1, <3>2, <3>3, StartsAssumption DEF Removed, TimerInv, Marked, InsideIsOne
    <3>5. m_pTimerItem # Null
      BY <3>3, <3>4, StartsAssumption DEF TimerInv, TypeOK, InsideIsOne
    <3>6. Phase = "armed"
      BY <3>4, <3>5 DEF Phase
    <3>7. Calling = FALSE
      BY <3>2, StartsAssumption DEF Calling, Triggering, TimerInv, OneLoop
    <3>8. loop'[n].at = "trigger"
      BY <3>1, Shape DEF TimerInv
    <3>9. Calling' = TRUE
      BY <3>8 DEF Calling, Triggering
    <3>. QED
      BY <2>1, <3>6, <3>7, <3>9 DEF TriggerSpec!Next, TriggerSpec!Call
  <2>3. CASE Rearm(n)
    <3>1. Calling = TRUE
      BY <2>3 DEF Rearm, Calling, Triggering
    <3>2. /\ UNCHANGED m_pVosThread /\ n = m_pVosThread
          /\ loop' = [loop EXCEPT ![n] = [at |-> "scan", item |-> Null]]
      BY <2>3 DEF Rearm, client, LoopAt, TimerInv, OneLoop
    <3>3. \A k \in Starts : loop'[k].at # "trigger"
      BY <3>2, Shape DEF TimerInv, OneLoop
    <3>4. Calling' = FALSE
      BY <3>3 DEF Calling, Triggering
    <3>. QED
      BY <2>1, <3>1, <3>4 DEF TriggerSpec!Next, TriggerSpec!Return
  <2>4. CASE Wake(n) \/ LoopLocks(n) \/ DropRemoved(n) \/ EndScan(n)
    <3>1. \A k \in Starts : loop'[k].at = "trigger" <=> loop[k].at = "trigger"
      BY <2>4, Shape DEF Wake, LoopLocks, DropRemoved, EndScan, LoopAt, TimerInv
    <3>2. Calling' = Calling
      BY <3>1 DEF Calling, Triggering
    <3>. QED
      BY <2>1, <3>2 DEF TriggerSpec!vars
  <2>. QED
    BY <1>8, <2>2, <2>3, <2>4 DEF Loop
<1>. QED
  BY <1>1, <1>2, <1>3, <1>4, <1>5, <1>6, <1>7, <1>8 DEF Next, Stop

\* A timer is a Trigger to the owner of its trigger, for any number of starts.
THEOREM ImplementsCorrect ==
    ASSUME LoginFails = FALSE
    PROVE  Spec => ImplementsTrigger
<1>1. Init => TriggerSpec!Init
  <2>. SUFFICES ASSUME Init PROVE Phase = "off" /\ Calling = FALSE
    BY DEF TriggerSpec!Init
  <2>1. \A n \in Starts : loop[n].at = "none"
    BY DEF Init
  <2>. QED
    BY <2>1 DEF Init, Phase, Calling, Triggering
<1>2. TimerInv /\ TimerInv' /\ [Next]_vars => [TriggerSpec!Next]_(TriggerSpec!vars)
  BY StepImplements
<1>. QED
  BY InvCorrect, <1>1, <1>2, PTL DEF Spec, ImplementsTrigger, TriggerSpec!Spec

=============================================================================
