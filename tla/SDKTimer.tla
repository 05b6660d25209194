------------------------------ MODULE SDKTimer ------------------------------
(***************************************************************************)
(* A timer of a user (inc/common/SDKTimer.cpp, CNVSTimer) with the one      *)
(* repeated trigger the SDK gives it, from CUserMgr::StartResumeTimer at a  *)
(* login to CUserMgr::StopResumeTimer at the logout, on a CUserMgr that is  *)
(* used again by the next login.  CUserMgr has three such timers; they      *)
(* share nothing.                                                           *)
(*                                                                         *)
(* A start creates a mutex, a list, an item and a thread: all four have the *)
(* start's id.  The loop of the thread looks at one item per step; no other *)
(* thread changes the list while it does, except in the trigger's call, the *)
(* only one that may take long.                                             *)
(***************************************************************************)
EXTENDS Naturals, FiniteSets

CONSTANTS
    Starts,     \* ids of starts; an id is used again when all it names is gone
    Null,       \* a NULL pointer
    LoginFails  \* a login may fail after it has started the timer

ASSUME StartsAssumption == Null \notin Starts /\ LoginFails \in BOOLEAN

VARIABLES
    m_bExit,                \* what ends the loops
    m_pMutexListOfTrigger,  \* the mutex of the list
    owner,                  \* the loop that holds a mutex
    m_plistTrigger,         \* the list
    content,                \* the items of a list
    item,                   \* an item: its memory, its trigger, its removed flag
    m_pTimerItem,           \* the trigger's item
    m_pVosThread,           \* the thread
    loop,                   \* where the loop of a thread is, with which item
    slot,                   \* the session slot
    pc                      \* the thread of the login or of the logout

vars == <<m_bExit, m_pMutexListOfTrigger, owner, m_plistTrigger, content, item,
          m_pTimerItem, m_pVosThread, loop, slot, pc>>

list == <<m_plistTrigger, content>>
heap == <<item, m_pTimerItem>>
mutex == <<m_pMutexListOfTrigger, owner>>
client == <<m_bExit, m_pVosThread, slot, pc>>

Pointer == Starts \union {Null}
NoItem == [memory |-> "none", trigger |-> FALSE, m_bRemoved |-> FALSE]

Init ==
    /\ m_bExit = FALSE
    /\ m_pMutexListOfTrigger = Null
    /\ owner = [n \in Starts |-> Null]
    /\ m_plistTrigger = Null
    /\ content = [n \in Starts |-> {}]
    /\ item = [n \in Starts |-> NoItem]
    /\ m_pTimerItem = Null
    /\ m_pVosThread = Null
    /\ loop = [n \in Starts |-> [at |-> "none", item |-> Null]]
    /\ slot = "free"
    /\ pc = "idle"

-----------------------------------------------------------------------------
(* Helpers *)

Goto(location) == pc' = location

LoopAt(n, location) == loop' = [loop EXCEPT ![n] = [at |-> location, item |-> Null]]

Items == IF m_plistTrigger = Null THEN {} ELSE content[m_plistTrigger]

\* VOS_MutexLock of a client returns at once when there is no mutex.
Free == m_pMutexListOfTrigger # Null => owner[m_pMutexListOfTrigger] = Null

\* VOS_MutexUnlock: of the mutex the timer has now, whoever holds it.
Unlocked ==
    IF m_pMutexListOfTrigger = Null
    THEN owner
    ELSE [owner EXCEPT ![m_pMutexListOfTrigger] = Null]

\* An id none of whose objects is in use; a mutex is never destroyed, but a
\* NULL pointer is left to it.
Unused(n) ==
    /\ n \notin {m_pMutexListOfTrigger, m_plistTrigger, m_pTimerItem, m_pVosThread}
    /\ content[n] = {}
    /\ item[n].memory # "live"
    /\ loop[n].at \in {"none", "ended"}

-----------------------------------------------------------------------------
(* Login: CUserMgr::Login, StartResumeTimer *)

\* init: everything is created anew, whatever was there.  A loop that is left
\* from a failed login may be in its trigger's call meanwhile; a start that falls
\* between two items of its scan, which would leave it an iterator of a list
\* that is not the timer's any more, is left out.
StartInit(n) ==
    /\ pc = "idle" /\ slot # "used" /\ Unused(n)
    /\ \A k \in Starts : loop[k].at # "scan"
    /\ slot' = "used"
    /\ m_bExit' = FALSE
    /\ m_pMutexListOfTrigger' = n
    /\ owner' = [owner EXCEPT ![n] = Null]
    /\ m_plistTrigger' = n
    /\ Goto("run")
    /\ UNCHANGED <<content, heap, m_pVosThread, loop>>

\* run: the thread starts its loop.  The thread of this start has the id of
\* the mutex that init has just made.
StartRun ==
    /\ pc = "run"
    /\ m_pVosThread' = m_pMutexListOfTrigger
    /\ LoopAt(m_pMutexListOfTrigger, "sleep")
    /\ Goto("register")
    /\ UNCHANGED <<m_bExit, mutex, list, heap, slot>>

\* registerTimer: the item is the trigger's before it is in the list.
Register ==
    /\ pc = "register"
    /\ item' = [item EXCEPT ![m_pVosThread] =
                   [memory |-> "live", trigger |-> TRUE, m_bRemoved |-> FALSE]]
    /\ m_pTimerItem' = m_pVosThread
    /\ Goto("insert")
    /\ UNCHANGED <<m_bExit, mutex, list, m_pVosThread, loop, slot>>

Insert ==
    /\ pc = "insert" /\ Free
    /\ content' = [content EXCEPT ![m_plistTrigger] = @ \union {m_pTimerItem}]
    /\ Goto("domains")
    /\ UNCHANGED <<m_bExit, mutex, m_plistTrigger, heap, m_pVosThread, loop, slot>>

\* GetDomainRoute: its failure is the login's, and CSDKInterface frees the slot.
Domains ==
    /\ pc = "domains"
    /\ \/ UNCHANGED slot
       \/ LoginFails /\ slot' = "free"
    /\ Goto("idle")
    /\ UNCHANGED <<m_bExit, m_pVosThread, mutex, list, heap, loop>>

-----------------------------------------------------------------------------
(* Logout: CUserMgr::StopResumeTimer *)

Logout ==
    /\ pc = "idle" /\ slot = "used"
    /\ Goto("cancel")
    /\ UNCHANGED <<m_bExit, m_pVosThread, slot, mutex, list, heap, loop>>

\* Mutant: the item is marked once the mutex has been taken.
CancelRemovesLate ==
    /\ pc = "cancel" /\ Free
    /\ Goto("forget")
    /\ item' = [item EXCEPT ![m_pTimerItem].m_bRemoved = TRUE]
    /\ UNCHANGED <<m_bExit, m_pVosThread, slot, mutex, list, m_pTimerItem, loop>>

\* cancelTimer, before it takes the mutex: first the mark ...
CancelRemoves ==
    /\ pc = "cancel"
    /\ IF m_pTimerItem = Null
       THEN Goto("wait") /\ UNCHANGED item
       ELSE /\ item' = [item EXCEPT ![m_pTimerItem].m_bRemoved = TRUE]
            /\ Goto("forget")
    /\ UNCHANGED <<m_bExit, m_pVosThread, slot, mutex, list, m_pTimerItem, loop>>

\* ... then the trigger, when the loop may have deleted the item: the write
\* goes nowhere.
CancelForgets ==
    /\ pc = "forget"
    /\ item' = [item EXCEPT ![m_pTimerItem].trigger = FALSE]
    /\ m_pTimerItem' = Null
    /\ Goto("wait")
    /\ UNCHANGED <<m_bExit, m_pVosThread, slot, mutex, list, loop>>

\* cancelTimer takes the mutex and gives it back.
CancelWaits ==
    /\ pc = "wait" /\ Free
    /\ Goto("clear")
    /\ UNCHANGED <<m_bExit, m_pVosThread, slot, mutex, list, heap, loop>>

\* Mutant: the list is deleted without its items.
ClearLeaks(from, to) ==
    /\ pc = from /\ Free
    /\ Goto(to)
    /\ content' = [n \in Starts |-> IF n = m_plistTrigger THEN {} ELSE content[n]]
    /\ m_plistTrigger' = Null
    /\ UNCHANGED <<m_bExit, m_pVosThread, slot, mutex, heap, loop>>

\* clearTimer deletes the items and the list; it does nothing without a mutex.
ClearTimer(from, to) ==
    /\ pc = from /\ Free
    /\ Goto(to)
    /\ IF m_pMutexListOfTrigger = Null
       THEN UNCHANGED <<list, item>>
       ELSE /\ item' = [n \in Starts |->
                          IF n \in Items THEN [item[n] EXCEPT !.memory = "deleted"] ELSE item[n]]
            /\ content' = [n \in Starts |-> IF n = m_plistTrigger THEN {} ELSE content[n]]
            /\ m_plistTrigger' = Null
    /\ UNCHANGED <<m_bExit, m_pVosThread, slot, mutex, m_pTimerItem, loop>>

\* exit: the flag, ...
ExitFlag ==
    /\ pc = "exit"
    /\ m_bExit' = TRUE
    /\ Goto("join")
    /\ UNCHANGED <<m_pVosThread, slot, mutex, list, heap, loop>>

\* Mutant: the thread is not joined.
ExitAnyway ==
    /\ pc = "join"
    /\ m_pVosThread' = Null
    /\ Goto("clearAgain")
    /\ UNCHANGED <<m_bExit, slot, mutex, list, heap, loop>>

\* ... the join of the thread that m_pVosThread names, ...
ExitJoins ==
    /\ pc = "join" /\ loop[m_pVosThread].at = "ended"
    /\ m_pVosThread' = Null
    /\ Goto("clearAgain")
    /\ UNCHANGED <<m_bExit, slot, mutex, list, heap, loop>>

\* ... and, after a second clearTimer, the mutex, which is forgotten and not
\* destroyed: the test in front of VOS_DestroyMutex is the wrong way round.
ExitForgets ==
    /\ pc = "forgetMutex"
    /\ m_pMutexListOfTrigger' = Null
    /\ slot' = "out"
    /\ Goto("idle")
    /\ UNCHANGED <<m_bExit, m_pVosThread, owner, list, heap, loop>>

-----------------------------------------------------------------------------
(* The loop of a thread: CNVSTimer::mainLoop *)

\* The test of m_bExit, and the sleep.
Wake(n) ==
    /\ loop[n].at = "sleep"
    /\ LoopAt(n, IF m_bExit THEN "ended" ELSE "lock")
    /\ UNCHANGED <<client, mutex, list, heap>>

\* The mutex is taken; there may be none, which ends the loop, or no list.
LoopLocks(n) ==
    /\ loop[n].at = "lock" /\ Free
    /\ IF m_pMutexListOfTrigger = Null
       THEN LoopAt(n, "ended") /\ UNCHANGED owner
       ELSE IF m_plistTrigger = Null
            THEN LoopAt(n, "sleep") /\ UNCHANGED owner
            ELSE /\ owner' = [owner EXCEPT ![m_pMutexListOfTrigger] = n]
                 /\ LoopAt(n, "scan")
    /\ UNCHANGED <<client, m_pMutexListOfTrigger, list, heap>>

\* Mutant: the flag is not looked at.
Forgotten(i) == ~item[i].trigger

Removed(i) == ~item[i].trigger \/ item[i].m_bRemoved

\* Mutant: a removed item is deleted and stays in the list.
DropKeepsListed(n) ==
    /\ loop[n].at = "scan"
    /\ \E i \in Items :
          /\ Removed(i)
          /\ item' = [item EXCEPT ![i].memory = "deleted"]
    /\ UNCHANGED <<client, mutex, list, m_pTimerItem, loop>>

\* An item that was cancelled is erased and deleted.
DropRemoved(n) ==
    /\ loop[n].at = "scan"
    /\ \E i \in Items :
          /\ Removed(i)
          /\ content' = [content EXCEPT ![m_plistTrigger] = @ \ {i}]
          /\ item' = [item EXCEPT ![i].memory = "deleted"]
    /\ UNCHANGED <<client, mutex, m_plistTrigger, m_pTimerItem, loop>>

\* An item that is due is erased, and its trigger called under the mutex.
Fire(n) ==
    /\ loop[n].at = "scan"
    /\ \E i \in Items :
          /\ ~Removed(i)
          /\ content' = [content EXCEPT ![m_plistTrigger] = @ \ {i}]
          /\ loop' = [loop EXCEPT ![n] = [at |-> "trigger", item |-> i]]
    /\ UNCHANGED <<client, mutex, m_plistTrigger, heap>>

\* Mutant: the item is still the loop's when it is back in the list.
RearmHolds(n) ==
    /\ loop[n].at = "trigger"
    /\ content' = [l \in Starts |->
          IF l = m_plistTrigger THEN content[l] \union {loop[n].item} ELSE content[l]]
    /\ loop' = [loop EXCEPT ![n].at = "scan"]
    /\ UNCHANGED <<client, mutex, m_plistTrigger, heap>>

\* onTrigger has returned: a repeated item goes back into the list, cancelled
\* meanwhile or not, and is looked at again: it may be due once more.
Rearm(n) ==
    /\ loop[n].at = "trigger"
    /\ content' = [l \in Starts |->
          IF l = m_plistTrigger THEN content[l] \union {loop[n].item} ELSE content[l]]
    /\ LoopAt(n, "scan")
    /\ UNCHANGED <<client, mutex, m_plistTrigger, heap>>

\* The end of the list: whatever is left is not due.
EndScan(n) ==
    /\ loop[n].at = "scan"
    /\ \A i \in Items : ~Removed(i)
    /\ owner' = Unlocked
    /\ LoopAt(n, "sleep")
    /\ UNCHANGED <<client, m_pMutexListOfTrigger, list, heap>>

Loop(n) ==
    \/ Wake(n) \/ LoopLocks(n) \/ DropRemoved(n) \/ Fire(n) \/ Rearm(n) \/ EndScan(n)

Login == (\E n \in Starts : StartInit(n)) \/ StartRun \/ Register \/ Insert \/ Domains

Stop ==
    \/ CancelRemoves \/ CancelForgets \/ CancelWaits
    \/ ClearTimer("clear", "exit") \/ ExitFlag \/ ExitJoins
    \/ ClearTimer("clearAgain", "forgetMutex") \/ ExitForgets

Next == Login \/ Logout \/ Stop \/ \E n \in Starts : Loop(n)

Spec == Init /\ [][Next]_vars

\* The threads run; a trigger returns.  The loop sleeps a tick between two
\* locks, so that whoever waits for the mutex gets it.
FairSpec ==
    /\ Spec
    /\ \A n \in Starts : WF_vars(Loop(n))
    /\ SF_vars(Stop)

-----------------------------------------------------------------------------
(* Properties *)

\* Type invariant; a loop has an item in hand exactly while it is in a trigger.
TypeOK ==
    /\ m_bExit \in BOOLEAN
    /\ m_pMutexListOfTrigger \in Pointer /\ owner \in [Starts -> Pointer]
    /\ m_plistTrigger \in Pointer /\ content \in [Starts -> SUBSET Starts]
    /\ item \in [Starts -> [memory : {"none", "live", "deleted"},
                            trigger : BOOLEAN, m_bRemoved : BOOLEAN]]
    /\ m_pTimerItem \in Pointer
    /\ m_pVosThread \in Pointer
    /\ loop \in [Starts -> [at : {"none", "sleep", "lock", "scan", "ended"}, item : {Null}]
                           \union [at : {"trigger"}, item : Starts]]
    /\ slot \in {"free", "used", "out"}
    /\ pc \in {"idle", "run", "register", "insert", "domains", "cancel", "forget",
               "wait", "clear", "exit", "join", "clearAgain", "forgetMutex"}

Triggering(n) == loop[n].at = "trigger"

\* The owner of the trigger sees nothing of items, lists and threads: from the
\* mark in cancelTimer (SDKTimer.cpp:417) no call begins, and cancelTimer returns when
\* none runs.
Phase ==
    IF pc \in {"forget", "wait"} THEN "cancelled"
    ELSE IF m_pTimerItem # Null THEN "armed" ELSE "off"
Calling == \E n \in Starts : Triggering(n)

TriggerSpec == INSTANCE Trigger WITH phase <- Phase, calling <- Calling
ImplementsTrigger == TriggerSpec!Spec

\* What the loop and clearTimer delete is deleted once: the items of a list, and
\* the one in the hands of a trigger, are alive, and no item is in two places.
ListedIsLive ==
    /\ \A n \in Starts : \A i \in content[n] :
          /\ item[i].memory = "live"
          /\ \A k \in Starts : loop[k].item # i /\ (k # n => i \notin content[k])
    /\ \A n \in Starts : Triggering(n) => item[loop[n].item].memory = "live"

\* A logout leaves nothing of the timer behind: no item (the comment at
\* SDKTimer.cpp:383 speaks of the leak that was there) and no thread.
LoggedOutIsEmpty ==
    slot = "out" =>
        \A n \in Starts : item[n].memory # "live" /\ loop[n].at \in {"none", "ended"}

\* StopResumeTimer returns, however long its triggers take and however often the
\* timer is due when one returns: the mark ends the scan that holds the mutex.
StopReturns == pc = "cancel" ~> pc = "idle"

=============================================================================
