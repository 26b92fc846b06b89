------------------------------ MODULE OSSemProof ----------------------------
(***************************************************************************)
(* Theorems about the semaphores and the kernel under them (OSSem), and    *)
(* about the tasks that come and go (OSTask), for every number of tasks,   *)
(* semaphores, priorities, ticks and counts.                               *)
(***************************************************************************)
EXTENDS OSTask, OSCoreProof

CntTypeOK == /\ OSEventCnt \in [Event -> 0..MaxCnt]
             /\ OSTmrCtr \in 0..TmrTicks - 1

TypeInv == CoreTypeInv /\ CntTypeOK

LEMMA TypeInvImplies == TypeInv => SemTypeOK
BY DEF TypeInv, CoreTypeInv, CntTypeOK, SemTypeOK

-----------------------------------------------------------------------------
(* Types *)

\* The critical section of a post.
LEMMA PostTyped ==
  ASSUME TypeInv, OSTCBPrio' = OSTCBPrio, NEW e \in Event, Post(e)
  PROVE  WakeTypeOK' /\ OSEventCnt' \in [Event -> 0..MaxCnt]
<1>1. CASE OSEventTbl[e] # {}
  BY <1>1, TaskRdyTyped DEF Post, TypeInv, PendResult, CntTypeOK
<1>2. CASE OSEventTbl[e] = {}
  <2>1. WakeTypeOK'
    BY <1>2 DEF Post, TypeInv, CoreTypeInv, TypeOK, PrioInv, PrioMapOK, WakeTypeOK, tcbVars
  <2>2. OSEventCnt' \in [Event -> 0..MaxCnt]
    BY <1>2, SemAssumption DEF Post, TypeInv, CntTypeOK
  <2> QED
    BY <2>1, <2>2
<1> QED
  BY <1>1, <1>2

\* The services of the semaphores keep the types.
LEMMA SemTaskTyped ==
  ASSUME TypeInv, NEW t \in Task, SemTask(t)
  PROVE  TypeInv'
<1> USE DEF TypeInv, CntTypeOK
<1>t. t \in AllTask
  BY DEF AllTask
<1>1. CASE OSSemPendEnd(t)
  <2>1. PrioInv' /\ SwTypeOK'
    BY <1>1 DEF OSSemPendEnd, CoreTypeInv, PrioInv, PrioMapOK, TypeOK, SwTypeOK, swVars
  <2>2. OSEventTbl' \in [Event -> SUBSET AllPrio]
    BY <1>1 DEF OSSemPendEnd, OS_EventTaskRemove, CoreTypeInv, TypeOK
  <2>3. RestTypeOK'
    BY <1>1, <2>2
    DEF OSSemPendEnd, CoreTypeInv, TypeOK, RestTypeOK, nestVars, PendResult, Pc
  <2> QED
    BY <1>1, <2>1, <2>3, TypedByParts DEF OSSemPendEnd
<1>2. ASSUME NEW e \in Event, NEW n \in 0..MaxTicks, OSSemPend(t, e, n)
      PROVE  TypeInv'
  <2>1. SwTypeOK' /\ OSTmrCtr' = OSTmrCtr
    BY <1>2 DEF OSSemPend, CoreTypeInv, TypeOK, SwTypeOK, swVars
  <2>2. CASE OSEventCnt[e] > 0
    <3>1. PrioInv' /\ RestTypeOK'
      BY <1>2, <2>2
      DEF OSSemPend, CoreTypeInv, PrioInv, PrioMapOK, TypeOK, RestTypeOK, nestVars, tcbVars, callVars
    <3>2. OSEventCnt' \in [Event -> 0..MaxCnt]
      BY <1>2, <2>2, SemAssumption DEF OSSemPend
    <3> QED
      BY <2>1, <3>1, <3>2, TypedByParts
  <2>3. CASE OSEventCnt[e] = 0
    <3>1. PrioInv'
      BY <1>2, <2>3, ReadyListTyped DEF OSSemPend, OS_EventTaskWait, CoreTypeInv, PrioInv, PrioMapOK
    <3>2. OSEventTbl' \in [Event -> SUBSET AllPrio]
      BY <1>2, <2>3, <1>t DEF OSSemPend, OS_EventTaskWait, CoreTypeInv, TypeOK
    <3>3. /\ OSTCBDly' \in [AllTask -> 0..MaxTicks]
          /\ pc' \in [AllTask -> Pc]
          /\ pevent' \in [AllTask -> Event \cup {NoEvent}]
      BY <1>2, <2>3, <1>t DEF OSSemPend, OS_EventTaskWait, CoreTypeInv, TypeOK, Pc
    <3>4. RestTypeOK'
      BY <1>2, <2>3, <3>2, <3>3
      DEF OSSemPend, OS_EventTaskWait, CoreTypeInv, TypeOK, RestTypeOK, nestVars, PendResult, Flag
    <3>5. OSEventCnt' = OSEventCnt
      BY <1>2, <2>3 DEF OSSemPend
    <3> QED
      BY <2>1, <3>1, <3>4, <3>5, TypedByParts
  <2>4. OSEventCnt[e] > 0 \/ OSEventCnt[e] = 0
    BY <1>2 DEF OSSemPend
  <2> QED
    BY <2>2, <2>3, <2>4
<1>3. ASSUME NEW e \in Event, OSSemPost(t, e)
      PROVE  TypeInv'
  <2>1. SwTypeOK' /\ OSTmrCtr' = OSTmrCtr /\ OSTCBPrio' = OSTCBPrio
    BY <1>3 DEF OSSemPost, CoreTypeInv, TypeOK, SwTypeOK, swVars
  <2>2. WakeTypeOK' /\ OSEventCnt' \in [Event -> 0..MaxCnt]
    BY <1>3, <2>1, PostTyped DEF OSSemPost
  <2>3. pc' \in [AllTask -> Pc]
    BY <1>3 DEF OSSemPost, CoreTypeInv, TypeOK, Pc
  <2>4. RestTypeOK'
    BY <1>3, <2>2, <2>3 DEF OSSemPost, WakeTypeOK, CoreTypeInv, TypeOK, RestTypeOK, nestVars
  <2> QED
    BY <2>1, <2>2, <2>4, TypedByParts DEF WakeTypeOK
<1>4. ASSUME NEW e \in Event, OSSemAccept(t, e)
      PROVE  TypeInv'
  <2>1. PrioInv' /\ SwTypeOK' /\ RestTypeOK'
    BY <1>4 DEF OSSemAccept, CoreTypeInv, PrioInv, PrioMapOK, TypeOK, SwTypeOK, RestTypeOK,
                coreVars, swVars, nestVars, tcbVars, callVars
  <2>2. OSEventCnt' \in [Event -> 0..MaxCnt]
    BY <1>4, SemAssumption DEF OSSemAccept
  <2> QED
    BY <1>4, <2>1, <2>2, TypedByParts DEF OSSemAccept
<1>5. ASSUME NEW e \in Event, NEW opt \in {"NONE", "BROADCAST"}, OSSemPendAbort(t, e, opt)
      PROVE  TypeInv'
  <2>1. /\ SwTypeOK' /\ OSTmrCtr' = OSTmrCtr /\ OSTCBPrio' = OSTCBPrio
        /\ OSEventCnt' = OSEventCnt
    BY <1>5 DEF OSSemPendAbort, CoreTypeInv, TypeOK, SwTypeOK, swVars
  <2>2. WakeTypeOK'
    BY <1>5, <2>1, TaskRdyTyped DEF OSSemPendAbort, PendResult
  <2>3. pc' \in [AllTask -> Pc]
    BY <1>5 DEF OSSemPendAbort, CoreTypeInv, TypeOK, Pc
  <2>4. RestTypeOK'
    BY <1>5, <2>2, <2>3 DEF OSSemPendAbort, WakeTypeOK, CoreTypeInv, TypeOK, RestTypeOK, nestVars
  <2> QED
    BY <2>1, <2>2, <2>4, TypedByParts DEF WakeTypeOK
<1>6. ASSUME NEW e \in SetEvent, NEW n \in 0..MaxCnt, OSSemSet(t, e, n)
      PROVE  TypeInv'
  <2>1. PrioInv' /\ SwTypeOK' /\ RestTypeOK'
    BY <1>6 DEF OSSemSet, CoreTypeInv, PrioInv, PrioMapOK, TypeOK, SwTypeOK, RestTypeOK,
                coreVars, swVars, nestVars, tcbVars, callVars
  <2> QED
    BY <1>6, <2>1, TypedByParts DEF OSSemSet
<1> QED
  BY <1>1, <1>2, <1>3, <1>4, <1>5, <1>6 DEF SemTask

LEMMA SysTickTyped ==
  ASSUME TypeInv, SysTick_Handler
  PROVE  TypeInv'
<1> USE DEF TypeInv, CntTypeOK
<1>1. SwTypeOK' /\ OSTCBPrio' = OSTCBPrio /\ OSIntNesting' \in Nat
  BY DEF SysTick_Handler, SysTickEnter, CoreTypeInv, TypeOK, SwTypeOK, swVars
<1>2. WakeTypeOK' /\ OSEventCnt' \in [Event -> 0..MaxCnt]
  <2>1. CASE Post(OSTmrSemSignal)
    BY <1>1, <2>1, PostTyped, SemAssumption
  <2>2. CASE UNCHANGED <<OSRdyTbl, tcbVars, OSEventTbl, OSEventCnt>>
    BY <1>1, <2>2 DEF CoreTypeInv, TypeOK, PrioInv, PrioMapOK, WakeTypeOK, tcbVars
  <2> QED
    BY <2>1, <2>2 DEF SysTick_Handler
<1>3. OSTmrCtr' \in 0..TmrTicks - 1
  BY SemAssumption DEF SysTick_Handler
<1>4. RestTypeOK'
  BY <1>1, <1>2
  DEF SysTick_Handler, SysTickEnter, WakeTypeOK, CoreTypeInv, TypeOK, RestTypeOK, callVars
<1> QED
  BY <1>1, <1>2, <1>3, <1>4, TypedByParts DEF WakeTypeOK

LEMMA InitTyped == Init => TypeInv
<1> SUFFICES ASSUME Init PROVE TypeInv
  OBVIOUS
<1>1. CoreTypeInv
  BY CoreInitTyped DEF Init
<1>2. CntTypeOK
  BY SemAssumption DEF Init, CntTypeOK
<1> QED
  BY <1>1, <1>2 DEF TypeInv

LEMMA NextTyped ==
  ASSUME TypeInv, [Next]_semVars
  PROVE  TypeInv'
<1>1. CASE SysTick_Handler
  BY <1>1, SysTickTyped
<1>2. CASE Kernel /\ UNCHANGED <<OSEventCnt, OSTmrCtr>>
  BY <1>2, HandlersTyped DEF Kernel, TypeInv, CntTypeOK
<1>3. ASSUME NEW t \in Task, CoreTask(t), UNCHANGED <<OSEventCnt, OSTmrCtr>>
      PROVE  TypeInv'
  BY <1>3, CoreTaskTyped DEF TypeInv, CntTypeOK
<1>4. ASSUME NEW t \in Task, SemTask(t)
      PROVE  TypeInv'
  BY <1>4, SemTaskTyped
<1>5. CASE UNCHANGED semVars
  <2>1. PrioInv' /\ SwTypeOK' /\ RestTypeOK'
    BY <1>5 DEF semVars, TypeInv, CoreTypeInv, PrioInv, PrioMapOK, TypeOK, SwTypeOK,
                RestTypeOK, coreVars, swVars, nestVars, tcbVars, callVars
  <2> QED
    BY <1>5, <2>1, TypedByParts DEF semVars, TypeInv, CntTypeOK
<1> QED
  BY <1>1, <1>2, <1>3, <1>4, <1>5 DEF Next

LEMMA AlwaysTyped == Spec => []TypeInv
<1>1. TypeInv /\ [Next]_semVars => TypeInv'
  BY NextTyped
<1> QED
  BY InitTyped, <1>1, PTL DEF Spec

\* The types, of the kernel and of the semaphores: in particular the nesting
\* of the scheduler lock never leaves 0..MaxLock and a count never exceeds
\* its limit, in OSSchedLock, OSSchedUnlock, OSSemPost and OSSemSet.
THEOREM TypeCorrect == Spec => []SemTypeOK
BY AlwaysTyped, TypeInvImplies, PTL

-----------------------------------------------------------------------------
(* No lost token *)

LEMMA PostKeepsTokens ==
  ASSUME TypeInv, NoTokenWhileWaiting, NEW e \in Event, Post(e)
  PROVE  NoTokenWhileWaiting'
<1> USE DEF TypeInv, CntTypeOK
<1>1. CASE OSEventTbl[e] # {}
  BY <1>1, TaskRdyLists DEF Post, NoTokenWhileWaiting
<1>2. CASE OSEventTbl[e] = {}
  BY <1>2 DEF Post, NoTokenWhileWaiting
<1> QED
  BY <1>1, <1>2

\* Steps that put nobody in a wait list and change no count.
LEMMA ShorterLists ==
  ASSUME NoTokenWhileWaiting, OSEventCnt' = OSEventCnt,
         \A e \in Event : OSEventTbl'[e] \subseteq OSEventTbl[e]
  PROVE  NoTokenWhileWaiting'
BY DEF NoTokenWhileWaiting

LEMMA SemTaskTokens ==
  ASSUME TypeInv, NoTokenWhileWaiting, NEW t \in Task, SemTask(t)
  PROVE  NoTokenWhileWaiting'
<1> USE DEF TypeInv, CntTypeOK, CoreTypeInv, TypeOK
<1>1. CASE OSSemPendEnd(t)
  <2>1. \A e \in Event : OSEventTbl'[e] \subseteq OSEventTbl[e]
    BY <1>1 DEF OSSemPendEnd, OS_EventTaskRemove
  <2> QED
    BY <1>1, <2>1, ShorterLists DEF OSSemPendEnd
<1>2. ASSUME NEW e \in Event, NEW n \in 0..MaxTicks, OSSemPend(t, e, n)
      PROVE  NoTokenWhileWaiting'
  <2>1. CASE OSEventCnt[e] > 0
    BY <1>2, <2>1 DEF OSSemPend, NoTokenWhileWaiting
  <2>2. CASE OSEventCnt[e] = 0
    BY <1>2, <2>2 DEF OSSemPend, OS_EventTaskWait, NoTokenWhileWaiting
  <2> QED
    BY <1>2, <2>1, <2>2 DEF OSSemPend
<1>3. ASSUME NEW e \in Event, OSSemPost(t, e)
      PROVE  NoTokenWhileWaiting'
  BY <1>3, PostKeepsTokens DEF OSSemPost
<1>4. ASSUME NEW e \in Event, OSSemAccept(t, e)
      PROVE  NoTokenWhileWaiting'
  BY <1>4 DEF OSSemAccept, NoTokenWhileWaiting, coreVars
<1>5. ASSUME NEW e \in Event, NEW opt \in {"NONE", "BROADCAST"}, OSSemPendAbort(t, e, opt)
      PROVE  NoTokenWhileWaiting'
  <2>1. \A d \in Event : OSEventTbl'[d] \subseteq OSEventTbl[d]
    BY <1>5, TaskRdyLists DEF OSSemPendAbort
  <2> QED
    BY <1>5, <2>1, ShorterLists DEF OSSemPendAbort
<1>6. ASSUME NEW e \in SetEvent, NEW n \in 0..MaxCnt, OSSemSet(t, e, n)
      PROVE  NoTokenWhileWaiting'
  BY <1>6, SemAssumption DEF OSSemSet, NoTokenWhileWaiting, coreVars
<1> QED
  BY <1>1, <1>2, <1>3, <1>4, <1>5, <1>6 DEF SemTask

LEMMA NextTokens ==
  ASSUME TypeInv, NoTokenWhileWaiting, [Next]_semVars
  PROVE  NoTokenWhileWaiting'
<1>1. CASE SysTick_Handler
  <2>1. CASE Post(OSTmrSemSignal)
    BY <2>1, PostKeepsTokens, SemAssumption
  <2>2. CASE UNCHANGED <<OSRdyTbl, tcbVars, OSEventTbl, OSEventCnt>>
    BY <2>2 DEF NoTokenWhileWaiting
  <2> QED
    BY <1>1, <2>1, <2>2 DEF SysTick_Handler
<1>2. CASE Kernel /\ UNCHANGED <<OSEventCnt, OSTmrCtr>>
  BY <1>2 DEF Kernel, PendSV_Handler, OSTimeTick, SysTickExit, DeviceIRQ, NoTokenWhileWaiting
<1>3. ASSUME NEW t \in Task, CoreTask(t), UNCHANGED <<OSEventCnt, OSTmrCtr>>
      PROVE  NoTokenWhileWaiting'
  BY <1>3 DEF CoreTask, OS_Sched, OSSchedLock, OSSchedUnlock, OSTimeDly, OSTimeDlyResume,
              OSTaskSuspend, OSTaskResume, NoTokenWhileWaiting
<1>4. ASSUME NEW t \in Task, SemTask(t)
      PROVE  NoTokenWhileWaiting'
  BY <1>4, SemTaskTokens
<1>5. CASE UNCHANGED semVars
  BY <1>5 DEF semVars, coreVars, NoTokenWhileWaiting
<1> QED
  BY <1>1, <1>2, <1>3, <1>4, <1>5 DEF Next

\* A semaphore never keeps a token while a task waits for one: the test of
\* the count and the insertion in the wait list (OSSemPend), and the test of
\* the wait list and the increment (OSSemPost), leave no gap for the other.
THEOREM NoLostToken == Spec => []NoTokenWhileWaiting
<1>1. Init => NoTokenWhileWaiting
  BY DEF Init, CoreInit, NoTokenWhileWaiting
<1>2. TypeInv /\ NoTokenWhileWaiting /\ [Next]_semVars => NoTokenWhileWaiting'
  BY NextTokens
<1> QED
  BY AlwaysTyped, <1>1, <1>2, PTL DEF Spec

-----------------------------------------------------------------------------
(* The most urgent task runs *)

LEMMA SemTaskKernel ==
  ASSUME TypeInv, KernelInv, NEW t \in Task, SemTask(t)
  PROVE  KernelInv'
<1> USE DEF TypeInv, CoreTypeInv, TypeOK, InTask
<1>t. t \in AllTask
  BY DEF AllTask
<1>1. CASE OSSemPendEnd(t)
  BY <1>1, <1>t, ServiceKernel DEF OSSemPendEnd
<1>2. ASSUME NEW e \in Event, NEW n \in 0..MaxTicks, OSSemPend(t, e, n)
      PROVE  KernelInv'
  BY <1>2, <1>t, ServiceKernel DEF OSSemPend, callVars
<1>3. ASSUME NEW e \in Event, OSSemPost(t, e)
      PROVE  KernelInv'
  <2>1. OSEventTbl[e] = {} => OSRdyTbl' = OSRdyTbl
    BY <1>3 DEF OSSemPost, Post
  <2> QED
    BY <1>3, <1>t, <2>1, ServiceKernel DEF OSSemPost
<1>4. ASSUME NEW e \in Event, OSSemAccept(t, e)
      PROVE  KernelInv'
  BY <1>4, <1>t, ServiceKernel DEF OSSemAccept, coreVars, callVars
<1>5. ASSUME NEW e \in Event, NEW opt \in {"NONE", "BROADCAST"}, OSSemPendAbort(t, e, opt)
      PROVE  KernelInv'
  BY <1>5, <1>t, ServiceKernel DEF OSSemPendAbort
<1>6. ASSUME NEW e \in SetEvent, NEW n \in 0..MaxCnt, OSSemSet(t, e, n)
      PROVE  KernelInv'
  BY <1>6, <1>t, ServiceKernel DEF OSSemSet, coreVars, callVars
<1> QED
  BY <1>1, <1>2, <1>3, <1>4, <1>5, <1>6 DEF SemTask

LEMMA NextKernel ==
  ASSUME TypeInv, KernelInv, [Next]_semVars
  PROVE  KernelInv'
<1>1. CASE SysTick_Handler
  <2>1. OSRdyTbl \subseteq OSRdyTbl'
    BY <1>1 DEF SysTick_Handler, Post, OS_EventTaskRdy
  <2> QED
    BY <1>1, <2>1, SysTickEnterKernel DEF SysTick_Handler
<1>2. CASE Kernel /\ UNCHANGED <<OSEventCnt, OSTmrCtr>>
  BY <1>2, HandlersKernel DEF Kernel, TypeInv
<1>3. ASSUME NEW t \in Task, CoreTask(t)
      PROVE  KernelInv'
  BY <1>3, CoreTaskKernel DEF TypeInv
<1>4. ASSUME NEW t \in Task, SemTask(t)
      PROVE  KernelInv'
  BY <1>4, SemTaskKernel
<1>5. CASE UNCHANGED semVars
  BY <1>5 DEF semVars, coreVars, swVars, nestVars, callVars,
              KernelInv, CurInv, Stale, NestInv, LockInv, SchedInv
<1> QED
  BY <1>1, <1>2, <1>3, <1>4, <1>5 DEF Next

LEMMA AlwaysKernel == Spec => [](TypeInv /\ KernelInv)
<1>1. Init => KernelInv
  BY CoreInitKernel DEF Init
<1>2. TypeInv /\ KernelInv /\ [Next]_semVars => KernelInv'
  BY NextKernel
<1> QED
  BY AlwaysTyped, <1>1, <1>2, PTL DEF Spec

\* While application code runs with the scheduler unlocked the most urgent
\* ready task has the processor: every service, tick and handler of OSCore
\* and OSSem that changes the ready list reschedules, and OS_Sched,
\* OSIntExit and PendSV_Handler lose no switch between them.
THEOREM HighestAlwaysRuns == Spec => []HighestRuns
<1>1. TypeInv /\ KernelInv => HighestRuns
  BY DEF KernelInv, SchedInv, HighestRuns
<1> QED
  BY AlwaysKernel, <1>1, PTL

\* OSSchedLock keeps every other task off the processor until the last
\* OSSchedUnlock, whatever handlers and posts make ready meanwhile.
THEOREM LockHolds == Spec => LockKeepsTask
<1>1. TypeInv /\ KernelInv /\ [Next]_semVars => [OSLockNesting > 0 => OSTCBCur' = OSTCBCur]_semVars
  <2> SUFFICES ASSUME TypeInv, KernelInv, Next, OSLockNesting > 0
               PROVE  OSTCBCur' = OSTCBCur
    OBVIOUS
  <2>1. ~PendSV_Handler
    BY DEF KernelInv, LockInv, PendSV_Handler
  <2>2. CASE SysTick_Handler
    BY <2>2 DEF SysTick_Handler, swVars
  <2>3. CASE OSTimeTick \/ SysTickExit \/ DeviceIRQ
    BY <2>3 DEF OSTimeTick, SysTickExit, DeviceIRQ, OSIntExit, SwitchToHighest, swVars
  <2>4. ASSUME NEW t \in Task, CoreTask(t)
        PROVE  OSTCBCur' = OSTCBCur
    BY <2>4 DEF CoreTask, OS_Sched, SwitchToHighest, OSSchedLock, OSSchedUnlock, OSTimeDly,
                OSTimeDlyResume, OSTaskSuspend, OSTaskResume, swVars
  <2>5. ASSUME NEW t \in Task, SemTask(t)
        PROVE  OSTCBCur' = OSTCBCur
    BY <2>5 DEF SemTask, OSSemPend, OSSemPendEnd, OSSemPost, OSSemAccept, OSSemPendAbort,
                OSSemSet, coreVars, swVars
  <2> QED
    BY <2>1, <2>2, <2>3, <2>4, <2>5 DEF Next, Kernel
<1> QED
  BY AlwaysKernel, <1>1, PTL DEF Spec, LockKeepsTask

-----------------------------------------------------------------------------
(* The ready list and the wait lists *)

LEMMA PostLists ==
  ASSUME TypeInv, ListInv, NEW e \in Event, Post(e), UNCHANGED <<OSTCBPrio, pevent>>,
         \A t \in Task : InPendCall(t)' <=> InPendCall(t)
  PROVE  ListInv'
<1>1. CASE OSEventTbl[e] # {}
  <2>1. {Highest(OSEventTbl[e])} \in SUBSET OSEventTbl[e]
    BY <1>1, WaiterTyped DEF TypeInv
  <2> QED
    BY <1>1, <2>1, WakeKeepsLists DEF Post, TypeInv
<1>2. CASE OSEventTbl[e] = {}
  BY <1>2, SameLists DEF Post, tcbVars, TypeInv
<1> QED
  BY <1>1, <1>2

LEMMA SemTaskLists ==
  ASSUME TypeInv, KernelInv, ListInv, NEW t \in Task, SemTask(t)
  PROVE  ListInv'
<1> USE DEF TypeInv, CoreTypeInv, TypeOK
<1>t. \A u \in Task : u \in AllTask
  BY DEF AllTask
<1>1. CASE OSSemPendEnd(t)
  BY <1>1, PendEndLists DEF OSSemPendEnd, PendEnds
<1>2. ASSUME NEW e \in Event, NEW n \in 0..MaxTicks, OSSemPend(t, e, n)
      PROVE  ListInv'
  <2>1. CASE OSEventCnt[e] > 0
    BY <1>2, <2>1, SameLists DEF OSSemPend, CntTypeOK, tcbVars, callVars, InPendCall
  <2>2. CASE OSEventCnt[e] = 0
    BY <1>2, <2>2, PendWaitLists DEF OSSemPend, InTask, CntTypeOK, PendWaits
  <2> QED
    BY <1>2, <2>1, <2>2 DEF OSSemPend
<1>3. ASSUME NEW e \in Event, OSSemPost(t, e)
      PROVE  ListInv'
  <2>1. \A u \in Task : InPendCall(u)' <=> InPendCall(u)
    BY <1>3, <1>t DEF OSSemPost, InTask, InPendCall
  <2> QED
    BY <1>3, <2>1, PostLists DEF OSSemPost
<1>4. ASSUME NEW e \in Event, OSSemAccept(t, e)
      PROVE  ListInv'
  BY <1>4, SameLists DEF OSSemAccept, coreVars, tcbVars, callVars, InPendCall
<1>5. ASSUME NEW e \in Event, NEW opt \in {"NONE", "BROADCAST"}, OSSemPendAbort(t, e, opt)
      PROVE  ListInv'
  <2>1. \A u \in Task : InPendCall(u)' <=> InPendCall(u)
    BY <1>5, <1>t DEF OSSemPendAbort, InTask, InPendCall
  <2>2. {Highest(OSEventTbl[e])} \in SUBSET OSEventTbl[e]
    BY <1>5, WaiterTyped DEF OSSemPendAbort
  <2> QED
    BY <1>5, <2>1, <2>2, WakeKeepsLists DEF OSSemPendAbort
<1>6. ASSUME NEW e \in SetEvent, NEW n \in 0..MaxCnt, OSSemSet(t, e, n)
      PROVE  ListInv'
  BY <1>6, SameLists DEF OSSemSet, coreVars, tcbVars, callVars, InPendCall
<1> QED
  BY <1>1, <1>2, <1>3, <1>4, <1>5, <1>6 DEF SemTask

LEMMA NextLists ==
  ASSUME TypeInv, KernelInv, ListInv, [Next]_semVars
  PROVE  ListInv'
<1>1. CASE SysTick_Handler
  <2>1. /\ OSTCBPrio' = OSTCBPrio /\ pevent' = pevent
        /\ \A t \in Task : InPendCall(t)' <=> InPendCall(t)
    BY <1>1 DEF SysTick_Handler, callVars, InPendCall
  <2>2. CASE Post(OSTmrSemSignal)
    BY <2>1, <2>2, PostLists, SemAssumption
  <2>3. CASE UNCHANGED <<OSRdyTbl, tcbVars, OSEventTbl, OSEventCnt>>
    BY <2>1, <2>3, SameLists DEF TypeInv, tcbVars
  <2> QED
    BY <1>1, <2>2, <2>3 DEF SysTick_Handler
<1>2. CASE Kernel /\ UNCHANGED <<OSEventCnt, OSTmrCtr>>
  BY <1>2, HandlersLists DEF Kernel, TypeInv
<1>3. ASSUME NEW t \in Task, CoreTask(t)
      PROVE  ListInv'
  BY <1>3, CoreTaskLists DEF TypeInv
<1>4. ASSUME NEW t \in Task, SemTask(t)
      PROVE  ListInv'
  BY <1>4, SemTaskLists
<1>5. CASE UNCHANGED semVars
  BY <1>5, SameLists DEF TypeInv, semVars, coreVars, tcbVars, callVars, InPendCall
<1> QED
  BY <1>1, <1>2, <1>3, <1>4, <1>5 DEF Next

LEMMA AlwaysLists == Spec => [](TypeInv /\ KernelInv /\ ListInv)
<1>1. Init => ListInv
  BY CoreInitLists DEF Init
<1>2. TypeInv /\ KernelInv /\ ListInv /\ [Next]_semVars => ListInv'
  BY NextLists
<1> QED
  BY AlwaysKernel, <1>1, <1>2, PTL DEF Spec

\* The ready list holds exactly the tasks that nothing holds back, although
\* posts, aborts, ticks, OSTimeDlyResume, OSTaskSuspend and OSTaskResume each
\* decide it from the part of the TCB they look at.
THEOREM ReadyListAlwaysOK == Spec => []ReadyListOK
<1>1. TypeInv /\ KernelInv /\ ListInv => ReadyListOK
  BY LayersGiveLists DEF TypeInv
<1> QED
  BY AlwaysLists, <1>1, PTL

\* The wait list of a semaphore holds exactly the pends that were neither
\* granted nor aborted, the timed out ones included until they have removed
\* themselves: a post is given to a pend that can take it, never to a task
\* that has left.
THEOREM WaitListAlwaysOK == Spec => []WaitListOK
<1>1. TypeInv /\ KernelInv /\ ListInv => WaitListOK
  BY LayersGiveLists DEF TypeInv
<1> QED
  BY AlwaysLists, <1>1, PTL

-----------------------------------------------------------------------------
(* The priorities: no service of OSCore and OSSem changes one.             *)

LEMMA CoreTaskKeepsPrio ==
  ASSUME NEW t \in Task, CoreTask(t)
  PROVE  OSTCBPrio' = OSTCBPrio
<1>1. CASE OS_Sched(t) \/ OSSchedLock(t) \/ OSSchedUnlock(t)
  BY <1>1 DEF OS_Sched, OSSchedLock, OSSchedUnlock
<1>2. ASSUME NEW n \in 1..MaxTicks, OSTimeDly(t, n)
      PROVE  OSTCBPrio' = OSTCBPrio
  BY <1>2 DEF OSTimeDly
<1>3. ASSUME NEW u \in Task,
             OSTimeDlyResume(t, u) \/ OSTaskSuspend(t, u) \/ OSTaskResume(t, u)
      PROVE  OSTCBPrio' = OSTCBPrio
  BY <1>3 DEF OSTimeDlyResume, OSTaskSuspend, OSTaskResume
<1> QED
  BY <1>1, <1>2, <1>3 DEF CoreTask

LEMMA SemTaskKeepsPrio ==
  ASSUME NEW t \in Task, SemTask(t)
  PROVE  OSTCBPrio' = OSTCBPrio
<1>1. CASE OSSemPendEnd(t)
  BY <1>1 DEF OSSemPendEnd
<1>2. ASSUME NEW e \in Event, NEW n \in 0..MaxTicks, OSSemPend(t, e, n)
      PROVE  OSTCBPrio' = OSTCBPrio
  BY <1>2 DEF OSSemPend
<1>3. ASSUME NEW e \in Event, OSSemPost(t, e)
      PROVE  OSTCBPrio' = OSTCBPrio
  BY <1>3 DEF OSSemPost
<1>4. ASSUME NEW e \in Event, OSSemAccept(t, e)
      PROVE  OSTCBPrio' = OSTCBPrio
  BY <1>4 DEF OSSemAccept, coreVars
<1>5. ASSUME NEW e \in Event, NEW opt \in {"NONE", "BROADCAST"},
             OSSemPendAbort(t, e, opt)
      PROVE  OSTCBPrio' = OSTCBPrio
  BY <1>5 DEF OSSemPendAbort
<1>6. ASSUME NEW e \in Event, NEW n \in 0..MaxCnt, OSSemSet(t, e, n)
      PROVE  OSTCBPrio' = OSTCBPrio
  BY <1>6 DEF OSSemSet, coreVars
<1> QED
  BY <1>1, <1>2, <1>3, <1>4, <1>5, <1>6 DEF SemTask

LEMMA HandlersKeepPrio ==
  ASSUME SysTick_Handler \/ Kernel
  PROVE  OSTCBPrio' = OSTCBPrio
<1>1. CASE SysTick_Handler
  BY <1>1 DEF SysTick_Handler
<1>2. CASE Kernel
  BY <1>2 DEF Kernel, PendSV_Handler, OSTimeTick, SysTickExit, DeviceIRQ
<1> QED
  BY <1>1, <1>2

LEMMA NextKeepsPrio ==
  ASSUME [Next]_semVars
  PROVE  OSTCBPrio' = OSTCBPrio
<1>1. CASE UNCHANGED semVars
  BY <1>1 DEF semVars, coreVars
<1> QED
  BY <1>1, HandlersKeepPrio, CoreTaskKeepsPrio, SemTaskKeepsPrio DEF Next

LEMMA AlwaysFixed == Spec => []FixedPrio
<1>1. Init => FixedPrio
  BY DEF Init, CoreInit, FixedPrio
<1>2. FixedPrio /\ [Next]_semVars => FixedPrio'
  BY NextKeepsPrio DEF FixedPrio
<1> QED
  BY <1>1, <1>2, PTL DEF Spec

-----------------------------------------------------------------------------
(* Refinement: what the callers see of a semaphore is Semaphore's.          *)

\* A step of the kernel that no caller sees: no wait begins or ends.
LEMMA SameView ==
  ASSUME UNCHANGED <<OSTCBPrio, OSEventTbl, pevent>>,
         \A t \in Task : InPendCall(t)' <=> InPendCall(t),
         \A t \in Task, r \in {"OK", "ABORT"} : InPendCall(t) =>
           ("PEND" \notin OSTCBStat'[t] /\ OSTCBStatPend'[t] = r
              <=> "PEND" \notin OSTCBStat[t] /\ OSTCBStatPend[t] = r)
  PROVE  Waiting' = Waiting /\ Granted' = Granted /\ Aborted' = Aborted
<1>1. Waiting' = Waiting
  BY DEF Waiting
<1>2. \A e \in Event, r \in {"OK", "ABORT"} : Ended(e, r)' = Ended(e, r)
  BY DEF Ended, InPend, InPendCall
<1> QED
  BY <1>1, <1>2 DEF Granted, Aborted

\* The end of a delay is the business of a pend only when it times out, which
\* its caller sees when it returns.
LEMMA DlyEndsView ==
  ASSUME TypeInv, ListInv, NEW T \in SUBSET Task, \A t \in T : OSTCBDly[t] # 0,
         DlyEnds(T), UNCHANGED <<OSTCBPrio, OSEventTbl, pevent>>,
         \A t \in Task : InPendCall(t)' <=> InPendCall(t)
  PROVE  Waiting' = Waiting /\ Granted' = Granted /\ Aborted' = Aborted
<1> SUFFICES ASSUME NEW t \in Task, NEW r \in {"OK", "ABORT"}, InPendCall(t)
             PROVE  "PEND" \notin OSTCBStat'[t] /\ OSTCBStatPend'[t] = r
                      <=> "PEND" \notin OSTCBStat[t] /\ OSTCBStatPend[t] = r
  BY SameView
<1>1. t \in AllTask
  BY DEF AllTask
<1>2. CASE t \in T
  <2>1. "PEND" \in OSTCBStat[t]
    BY <1>2 DEF ListInv, PendInv
  <2>2. OSTCBStatPend'[t] = "TO"
    BY <1>1, <1>2, <2>1 DEF DlyEnds
  <2> QED
    BY <2>1, <2>2
<1>3. CASE t \notin T
  BY <1>1, <1>3 DEF DlyEnds
<1> QED
  BY <1>2, <1>3

\* Waking some of the waiters of e: they leave the wait list and are told r.
LEMMA WakeView ==
  ASSUME TypeInv, ListInv, NEW e \in Event, NEW ps \in SUBSET OSEventTbl[e],
         NEW r \in {"OK", "ABORT"}, OS_EventTaskRdy(e, ps, r),
         UNCHANGED <<OSTCBPrio, pevent>>,
         \A t \in Task : InPendCall(t)' <=> InPendCall(t)
  PROVE  LET C == {t \in Task : OSTCBPrio[t] \in ps} IN
         /\ C \subseteq Waiting[e]
         /\ Waiting' = [Waiting EXCEPT ![e] = @ \ C]
         /\ \A d \in Event, q \in {"OK", "ABORT"} :
              Ended(d, q)' = IF d = e /\ q = r THEN Ended(e, r) \cup C ELSE Ended(d, q)
<1> DEFINE C == {t \in Task : OSTCBPrio[t] \in ps}
<1>1. C \subseteq Waiting[e]
  BY DEF Waiting
<1>2. \A t \in C : Waits(t, e)
  BY DEF ListInv, WaitInv
<1>3. \A t \in Task : t \in AllTask
  BY DEF AllTask
<1>4. Waiting' = [Waiting EXCEPT ![e] = @ \ C]
  <2>1. OSEventTbl' = [OSEventTbl EXCEPT ![e] = @ \ ps]
    BY DEF OS_EventTaskRdy
  <2>2. OSEventTbl'[e] = OSEventTbl[e] \ ps /\ \A d \in Event \ {e} : OSEventTbl'[d] = OSEventTbl[d]
    BY <2>1 DEF TypeInv, CoreTypeInv, TypeOK
  <2> QED
    BY <2>2 DEF Waiting
<1>5. \A t \in Task : IF t \in C
                        THEN "PEND" \notin OSTCBStat'[t] /\ OSTCBStatPend'[t] = r
                        ELSE /\ OSTCBStat'[t] = OSTCBStat[t]
                             /\ OSTCBStatPend'[t] = OSTCBStatPend[t]
  BY <1>3 DEF OS_EventTaskRdy
<1>6. ASSUME NEW d \in Event, NEW q \in {"OK", "ABORT"}
      PROVE  Ended(d, q)' = IF d = e /\ q = r THEN Ended(e, r) \cup C ELSE Ended(d, q)
  <2>1. \A t \in Task : t \in Ended(d, q)'
          <=> \/ t \in C /\ d = e /\ q = r
              \/ t \notin C /\ t \in Ended(d, q)
    BY <1>2, <1>5 DEF Ended, InPend, InPendCall, Waits
  <2>2. \A t \in C : t \notin Ended(d, q)
    BY <1>2 DEF Ended, Waits
  <2>3. Ended(d, q)' \subseteq Task /\ Ended(d, q) \subseteq Task /\ C \subseteq Task
    BY DEF Ended, InPend
  <2> QED
    BY <2>1, <2>2, <2>3
<1> QED
  BY <1>1, <1>4, <1>6

SemVars == <<OSEventCnt, Waiting, Granted, Aborted>>
Stays == UNCHANGED SemVars

LEMMA SemInit == Init => Sem!Init
<1> SUFFICES ASSUME Init PROVE Sem!Init
  OBVIOUS
<1>1. OSEventCnt \in [Event -> 0..MaxCnt]
  BY DEF Init
<1>2. Waiting = [e \in Event |-> {}]
  BY DEF Init, CoreInit, Waiting
<1>3. Granted = [e \in Event |-> {}] /\ Aborted = [e \in Event |-> {}]
  <2>1. \A t \in Task : pc[t] = "task"
    BY DEF Init, CoreInit, AllTask
  <2> QED
    BY <2>1 DEF Granted, Aborted, Ended, InPend
<1> QED
  BY <1>1, <1>2, <1>3 DEF Sem!Init

\* A step that only touches the count, or nothing, of what SameView asks for.
LEMMA CountView ==
  ASSUME UNCHANGED coreVars
  PROVE  Waiting' = Waiting /\ Granted' = Granted /\ Aborted' = Aborted
BY SameView DEF coreVars, tcbVars, callVars, InPendCall

\* The kernel's own steps and the services of os_core.c, os_time.c, os_task.c.
LEMMA CoreTaskStays ==
  ASSUME TypeInv, ListInv, NEW t \in Task, CoreTask(t), UNCHANGED OSEventCnt
  PROVE  Stays
<1> USE DEF TypeInv, CoreTypeInv, TypeOK
<1>t. \A u \in Task : u \in AllTask
  BY DEF AllTask
<1>1. CASE OS_Sched(t)
  <2>1. \A u \in Task : InPendCall(u)' <=> InPendCall(u)
    BY <1>1, <1>t DEF OS_Sched, InPendCall
  <2> QED
    BY <1>1, <2>1, SameView DEF OS_Sched, tcbVars, Stays, SemVars
<1>2. CASE OSSchedLock(t)
  BY <1>2, SameView DEF OSSchedLock, tcbVars, callVars, InPendCall, Stays, SemVars
<1>3. CASE OSSchedUnlock(t)
  <2>1. \A u \in Task : InPendCall(u)' <=> InPendCall(u)
    BY <1>3, <1>t DEF OSSchedUnlock, InPendCall
  <2> QED
    BY <1>3, <2>1, SameView DEF OSSchedUnlock, tcbVars, Stays, SemVars
<1>4. ASSUME NEW n \in 1..MaxTicks, OSTimeDly(t, n)
      PROVE  Stays
  <2>1. \A u \in Task : InPendCall(u)' <=> InPendCall(u)
    BY <1>4, <1>t DEF OSTimeDly, InPendCall
  <2> QED
    BY <1>4, <2>1, SameView DEF OSTimeDly, Stays, SemVars
<1>5. ASSUME NEW u \in Task, OSTimeDlyResume(t, u)
      PROVE  Stays
  <2>1. \A v \in Task : InPendCall(v)' <=> InPendCall(v)
    BY <1>5, <1>t DEF OSTimeDlyResume, InPendCall
  <2>2. {u} \in SUBSET Task /\ \A v \in {u} : OSTCBDly[v] # 0
    BY <1>5 DEF OSTimeDlyResume
  <2> QED
    BY <1>5, <2>1, <2>2, DlyEndsView DEF OSTimeDlyResume, Stays, SemVars
<1>6. ASSUME NEW u \in Task, OSTaskSuspend(t, u) \/ OSTaskResume(t, u)
      PROVE  Stays
  <2>1. \A v \in Task : InPendCall(v)' <=> InPendCall(v)
    BY <1>6, <1>t DEF OSTaskSuspend, OSTaskResume, InPendCall
  <2>2. \A v \in Task : "PEND" \in OSTCBStat'[v] <=> "PEND" \in OSTCBStat[v]
    BY <1>6, <1>t DEF OSTaskSuspend, OSTaskResume
  <2>3. UNCHANGED <<OSTCBPrio, OSEventTbl, pevent, OSTCBStatPend>>
    BY <1>6 DEF OSTaskSuspend, OSTaskResume
  <2> QED
    BY <2>1, <2>2, <2>3, SameView DEF Stays, SemVars
<1> QED
  BY <1>1, <1>2, <1>3, <1>4, <1>5, <1>6 DEF CoreTask

LEMMA KernelStays ==
  ASSUME TypeInv, ListInv, Kernel, UNCHANGED OSEventCnt
  PROVE  Stays
<1>1. CASE OSTimeTick
  <2>1. PICK T \in SUBSET Task : DlyEnds(T) /\ \A t \in T : OSTCBDly[t] # 0
    BY <1>1 DEF OSTimeTick
  <2> QED
    BY <1>1, <2>1, DlyEndsView DEF OSTimeTick, callVars, InPendCall, Stays, SemVars
<1>2. CASE PendSV_Handler \/ SysTickExit \/ DeviceIRQ
  BY <1>2, SameView
  DEF PendSV_Handler, SysTickExit, DeviceIRQ, tcbVars, callVars, InPendCall, Stays, SemVars
<1> QED
  BY <1>1, <1>2 DEF Kernel

\* A post: a grant to the most urgent waiter, or one more token, or at the
\* limit nothing.
LEMMA PostImplements ==
  ASSUME TypeInv, FixedPrio, ListInv, NEW e \in Event, Post(e),
         UNCHANGED <<OSTCBPrio, pevent>>,
         \A t \in Task : InPendCall(t)' <=> InPendCall(t)
  PROVE  Sem!Next \/ Stays
<1>1. CASE OSEventTbl[e] # {}
  <2> DEFINE hp == Highest(OSEventTbl[e])
             C == {t \in Task : OSTCBPrio[t] \in {hp}}
  <2>1. hp \in OSEventTbl[e] /\ OSEventTbl[e] \subseteq Nat
    BY <1>1, WaiterTyped DEF TypeInv
  <2>2. \A p \in OSEventTbl[e] : hp <= p
    BY <1>1, <2>1, HighestIsLeast
  <2>3. PICK c \in Task : OSTCBPrio[c] = hp
    BY <2>1 DEF ListInv, WaitInv
  <2>4. \A t \in Task : OSTCBPrio[t] = InitPrio[t]
    BY CoreAssumption DEF FixedPrio, InitOSTCBPrio, AllTask
  <2>5. C = {c}
    BY <2>3, <2>4, CoreAssumption
  <2>6. {hp} \in SUBSET OSEventTbl[e]
    BY <2>1
  <2>7. /\ C \subseteq Waiting[e]
        /\ Waiting' = [Waiting EXCEPT ![e] = @ \ C]
        /\ \A d \in Event, q \in {"OK", "ABORT"} :
             Ended(d, q)' = IF d = e /\ q = "OK" THEN Ended(e, "OK") \cup C ELSE Ended(d, q)
    <3>1. OS_EventTaskRdy(e, {hp}, "OK")
      BY <1>1 DEF Post
    <3> QED
      BY <2>6, <3>1, WakeView
  <2>8. \A d \in Waiting[e] : InitPrio[c] <= InitPrio[d]
    BY <2>2, <2>3, <2>4 DEF Waiting
  <2>9. Granted' = [Granted EXCEPT ![e] = @ \cup {c}]
    BY <2>5, <2>7 DEF Granted
  <2>10. Aborted' = Aborted
    BY <2>7 DEF Aborted
  <2>11. OSEventCnt' = OSEventCnt
    BY <1>1 DEF Post
  <2>12. Sem!Grant(e, c)
    BY <2>5, <2>7, <2>8, <2>9, <2>10, <2>11 DEF Sem!Grant
  <2> QED
    BY <2>12 DEF Sem!Next
<1>2. CASE OSEventTbl[e] = {}
  <2>1. Waiting' = Waiting /\ Granted' = Granted /\ Aborted' = Aborted
    BY <1>2, SameView DEF Post, tcbVars
  <2>2. Waiting[e] = {}
    BY <1>2 DEF Waiting
  <2>3. CASE OSEventCnt[e] < MaxCnt
    <3>1. Sem!Count(e)
      BY <1>2, <2>1, <2>2, <2>3 DEF Post, Sem!Count
    <3> QED
      BY <3>1 DEF Sem!Next
  <2>4. CASE ~(OSEventCnt[e] < MaxCnt)
    <3>1. OSEventCnt' = OSEventCnt
      BY <1>2, <2>4 DEF Post, TypeInv, CntTypeOK
    <3> QED
      BY <2>1, <3>1 DEF Stays, SemVars
  <2> QED
    BY <2>3, <2>4
<1> QED
  BY <1>1, <1>2

\* A pend that finds no token: its task is among the waiting ones.
LEMMA WaitImplements ==
  ASSUME TypeInv, ListInv, NEW t \in Task, NEW e \in Event, NEW n \in 0..MaxTicks,
         OSSemPend(t, e, n), OSEventCnt[e] = 0
  PROVE  Sem!Wait(e, t)
<1> USE DEF TypeInv, CoreTypeInv, TypeOK
<1>t. \A u \in Task : u \in AllTask
  BY DEF AllTask
<1>1. /\ pc' = [pc EXCEPT ![t] = "pendsched"]
      /\ pevent' = [pevent EXCEPT ![t] = e]
      /\ OSTCBPrio' = OSTCBPrio /\ OSEventCnt' = OSEventCnt
      /\ OS_EventTaskWait(t, e, n)
      /\ pc[t] = "task"
  BY DEF OSSemPend, InTask, CntTypeOK
<1>2. Waiting' = [Waiting EXCEPT ![e] = @ \cup {t}]
  <2>1. \A d \in Event : OSEventTbl'[d] = IF d = e THEN OSEventTbl[d] \cup {OSTCBPrio[t]}
                                                   ELSE OSEventTbl[d]
    BY <1>1 DEF OS_EventTaskWait
  <2>2. \A u \in Task : OSTCBPrio[u] = OSTCBPrio[t] <=> u = t
    BY <1>t DEF PrioInv, PrioMapOK
  <2>3. \A d \in Event : {u \in Task : OSTCBPrio[u] \in OSEventTbl'[d]} =
          IF d = e THEN {u \in Task : OSTCBPrio[u] \in OSEventTbl[d]} \cup {t}
                   ELSE {u \in Task : OSTCBPrio[u] \in OSEventTbl[d]}
    BY <2>1, <2>2
  <2> QED
    BY <1>1, <2>3 DEF Waiting
<1>3. \A d \in Event, r \in {"OK", "ABORT"} : Ended(d, r)' = Ended(d, r)
  <2>1. /\ "PEND" \in OSTCBStat'[t] /\ pc[t] \notin {"pendsched", "wake"}
        /\ \A u \in Task : u # t => /\ pc'[u] = pc[u] /\ pevent'[u] = pevent[u]
                                    /\ OSTCBStat'[u] = OSTCBStat[u]
                                    /\ OSTCBStatPend'[u] = OSTCBStatPend[u]
    BY <1>1, <1>t DEF OS_EventTaskWait
  <2> QED
    BY <2>1 DEF Ended, InPend
<1> QED
  BY <1>1, <1>2, <1>3 DEF Sem!Wait, Granted, Aborted

\* A pend that returns: it takes the outcome it was given, or after a timeout
\* gives up.
LEMMA ReturnImplements ==
  ASSUME TypeInv, KernelInv, ListInv, NEW t \in Task, OSSemPendEnd(t)
  PROVE  Sem!Next
<1> USE DEF TypeInv, CoreTypeInv, TypeOK
<1> DEFINE e == pevent[t]
<1>t. \A u \in Task : u \in AllTask
  BY DEF AllTask
<1>1. OSTCBStat[t] = {} /\ pc[t] = "wake"
  BY WakesReady DEF OSSemPendEnd
<1>2. e \in Event
  BY <1>1 DEF ListInv, PendInv, InPendCall
<1>3. /\ pc'[t] = "task" /\ OSTCBPrio' = OSTCBPrio /\ OSEventCnt' = OSEventCnt
      /\ \A u \in Task : u # t => /\ pc'[u] = pc[u] /\ pevent'[u] = pevent[u]
                                  /\ OSTCBStat'[u] = OSTCBStat[u]
                                  /\ OSTCBStatPend'[u] = OSTCBStatPend[u]
  BY <1>t DEF OSSemPendEnd
<1>4. \A d \in Event, r \in {"OK", "ABORT"} :
        Ended(d, r)' = IF d = e /\ r = OSTCBStatPend[t] THEN Ended(d, r) \ {t} ELSE Ended(d, r)
  BY <1>1, <1>3 DEF Ended, InPend
<1>5. CASE OSTCBStatPend[t] = "TO"
  <2>1. t \in Waiting[e]
    BY <1>1, <1>2, <1>5 DEF ListInv, WaitInv, Waits, InPendCall, Waiting
  <2>2. Waiting' = [Waiting EXCEPT ![e] = @ \ {t}]
    <3>1. OSEventTbl' = [OSEventTbl EXCEPT ![e] = @ \ {OSTCBPrio[t]}]
      BY <1>5 DEF OSSemPendEnd, OS_EventTaskRemove
    <3>2. \A u \in Task : OSTCBPrio[u] = OSTCBPrio[t] <=> u = t
      BY <1>t DEF PrioInv, PrioMapOK
    <3>3. \A d \in Event : {u \in Task : OSTCBPrio[u] \in OSEventTbl'[d]} =
            IF d = e THEN {u \in Task : OSTCBPrio[u] \in OSEventTbl[d]} \ {t}
                     ELSE {u \in Task : OSTCBPrio[u] \in OSEventTbl[d]}
      BY <3>1, <3>2
    <3> QED
      BY <1>3, <3>3 DEF Waiting
  <2>3. Granted' = Granted /\ Aborted' = Aborted
    BY <1>4, <1>5 DEF Granted, Aborted
  <2>4. Sem!GiveUp(e, t)
    BY <1>3, <2>1, <2>2, <2>3 DEF Sem!GiveUp
  <2> QED
    BY <1>2, <2>4 DEF Sem!Next
<1>6. CASE OSTCBStatPend[t] # "TO"
  <2>1. Waiting' = Waiting
    BY <1>3, <1>6 DEF OSSemPendEnd, Waiting
  <2>2. t \in Ended(e, OSTCBStatPend[t])
    BY <1>1 DEF Ended, InPend
  <2>3. CASE OSTCBStatPend[t] = "OK"
    <3>1. t \in Granted[e] /\ Granted' = [Granted EXCEPT ![e] = @ \ {t}] /\ Aborted' = Aborted
      BY <1>2, <1>4, <2>2, <2>3 DEF Granted, Aborted
    <3>2. Sem!ReturnGranted(e, t)
      BY <1>3, <2>1, <3>1 DEF Sem!ReturnGranted
    <3> QED
      BY <1>2, <3>2 DEF Sem!Next
  <2>4. CASE OSTCBStatPend[t] = "ABORT"
    <3>1. t \in Aborted[e] /\ Aborted' = [Aborted EXCEPT ![e] = @ \ {t}] /\ Granted' = Granted
      BY <1>2, <1>4, <2>2, <2>4 DEF Granted, Aborted
    <3>2. Sem!ReturnAborted(e, t)
      BY <1>3, <2>1, <3>1 DEF Sem!ReturnAborted
    <3> QED
      BY <1>2, <3>2 DEF Sem!Next
  <2> QED
    BY <1>t, <1>6, <2>3, <2>4 DEF PendResult
<1> QED
  BY <1>5, <1>6

LEMMA SemTaskImplements ==
  ASSUME TypeInv, FixedPrio, KernelInv, ListInv, NoTokenWhileWaiting, NEW t \in Task, SemTask(t)
  PROVE  Sem!Next \/ Stays
<1> USE DEF TypeInv, CoreTypeInv, TypeOK
<1>t. \A u \in Task : u \in AllTask
  BY DEF AllTask
<1>1. CASE OSSemPendEnd(t)
  BY <1>1, ReturnImplements
<1>2. ASSUME NEW e \in Event, NEW n \in 0..MaxTicks, OSSemPend(t, e, n)
      PROVE  Sem!Next
  <2>1. CASE OSEventCnt[e] > 0
    <3>1. /\ OSEventCnt' = [OSEventCnt EXCEPT ![e] = @ - 1]
          /\ UNCHANGED <<OSTCBPrio, tcbVars, OSEventTbl, callVars>>
      BY <1>2, <2>1 DEF OSSemPend, CntTypeOK
    <3>2. Waiting' = Waiting /\ Granted' = Granted /\ Aborted' = Aborted
      BY <3>1, SameView DEF tcbVars, callVars, InPendCall
    <3>3. Sem!Take(e)
      BY <2>1, <3>1, <3>2 DEF Sem!Take
    <3> QED
      BY <3>3 DEF Sem!Next
  <2>2. CASE OSEventCnt[e] = 0
    BY <1>2, <2>2, WaitImplements DEF Sem!Next
  <2> QED
    BY <1>2, <2>1, <2>2 DEF OSSemPend
<1>3. ASSUME NEW e \in Event, OSSemPost(t, e)
      PROVE  Sem!Next \/ Stays
  <2>1. \A u \in Task : InPendCall(u)' <=> InPendCall(u)
    BY <1>3, <1>t DEF OSSemPost, InTask, InPendCall
  <2> QED
    BY <1>3, <2>1, PostImplements DEF OSSemPost
<1>4. ASSUME NEW e \in Event, OSSemAccept(t, e)
      PROVE  Sem!Next
  <2>1. Sem!Take(e)
    BY <1>4, CountView DEF OSSemAccept, Sem!Take
  <2> QED
    BY <2>1 DEF Sem!Next
<1>5. ASSUME NEW e \in Event, NEW opt \in {"NONE", "BROADCAST"}, OSSemPendAbort(t, e, opt)
      PROVE  Sem!Next
  <2> DEFINE ps == IF opt = "BROADCAST" THEN OSEventTbl[e] ELSE {Highest(OSEventTbl[e])}
             C == {u \in Task : OSTCBPrio[u] \in ps}
  <2>1. \A u \in Task : InPendCall(u)' <=> InPendCall(u)
    BY <1>5, <1>t DEF OSSemPendAbort, InTask, InPendCall
  <2>2. ps \in SUBSET OSEventTbl[e]
    BY <1>5, WaiterTyped DEF OSSemPendAbort
  <2>3. OS_EventTaskRdy(e, ps, "ABORT") /\ UNCHANGED <<OSTCBPrio, pevent, OSEventCnt>>
    BY <1>5 DEF OSSemPendAbort
  <2> HIDE DEF ps
  <2>4. /\ C \subseteq Waiting[e]
        /\ Waiting' = [Waiting EXCEPT ![e] = @ \ C]
        /\ \A d \in Event, q \in {"OK", "ABORT"} :
             Ended(d, q)' = IF d = e /\ q = "ABORT" THEN Ended(e, "ABORT") \cup C ELSE Ended(d, q)
    BY <2>1, <2>2, <2>3, WakeView
  <2>5. Granted' = Granted /\ Aborted' = [Aborted EXCEPT ![e] = @ \cup C]
    BY <2>4 DEF Granted, Aborted
  <2>6. C \in SUBSET Task
    OBVIOUS
  <2>7. Sem!Abort(e, C)
    BY <2>3, <2>4, <2>5 DEF Sem!Abort
  <2> QED
    BY <2>6, <2>7 DEF Sem!Next
<1>6. ASSUME NEW e \in SetEvent, NEW n \in 0..MaxCnt, OSSemSet(t, e, n)
      PROVE  Sem!Next
  <2>1. e \in Event
    BY SemAssumption
  <2>2. Waiting[e] = {}
    BY <1>6, <2>1 DEF OSSemSet, NoTokenWhileWaiting, Waiting
  <2>3. Sem!Set(e, n)
    BY <1>6, <2>2, CountView DEF OSSemSet, Sem!Set
  <2> QED
    BY <2>1, <2>3 DEF Sem!Next
<1> QED
  BY <1>1, <1>2, <1>3, <1>4, <1>5, <1>6 DEF SemTask

LEMMA NextImplements ==
  TypeInv /\ FixedPrio /\ KernelInv /\ ListInv /\ NoTokenWhileWaiting /\ [Next]_semVars
    => Sem!Next \/ Stays
<1> SUFFICES ASSUME TypeInv, FixedPrio, KernelInv, ListInv, NoTokenWhileWaiting, [Next]_semVars
             PROVE  Sem!Next \/ Stays
  OBVIOUS
<1>1. CASE SysTick_Handler
  <2>1. /\ OSTCBPrio' = OSTCBPrio /\ pevent' = pevent
        /\ \A t \in Task : InPendCall(t)' <=> InPendCall(t)
    BY <1>1 DEF SysTick_Handler, callVars, InPendCall
  <2>2. CASE Post(OSTmrSemSignal)
    BY <2>1, <2>2, PostImplements, SemAssumption
  <2>3. CASE UNCHANGED <<OSRdyTbl, tcbVars, OSEventTbl, OSEventCnt>>
    BY <2>1, <2>3, SameView DEF tcbVars, Stays, SemVars
  <2> QED
    BY <1>1, <2>2, <2>3 DEF SysTick_Handler
<1>2. CASE Kernel /\ UNCHANGED <<OSEventCnt, OSTmrCtr>>
  BY <1>2, KernelStays
<1>3. ASSUME NEW t \in Task, CoreTask(t) /\ UNCHANGED <<OSEventCnt, OSTmrCtr>>
      PROVE  Stays
  BY <1>3, CoreTaskStays
<1>4. ASSUME NEW t \in Task, SemTask(t)
      PROVE  Sem!Next \/ Stays
  BY <1>4, SemTaskImplements
<1>5. CASE UNCHANGED semVars
  BY <1>5, CountView DEF semVars, Stays, SemVars
<1> QED
  BY <1>1, <1>2, <1>3, <1>4, <1>5 DEF Next

\* The semaphores of os_sem.c are the abstract ones: every post reaches one
\* pend or the count, the most urgent waiter first, and every pend that
\* returns OS_ERR_NONE has had one token, for any tasks and semaphores and
\* whatever timeouts, aborts, suspensions and ticks come between.
THEOREM SemaphoreImplemented == Spec => SemImplements
<1>1. Init => Sem!Init
  BY SemInit
<1>2. TypeInv /\ FixedPrio /\ KernelInv /\ ListInv /\ NoTokenWhileWaiting /\ [Next]_semVars
        => [Sem!Next]_(Sem!vars)
  BY NextImplements DEF Stays, SemVars, Sem!vars
<1> QED
  BY AlwaysLists, AlwaysFixed, NoLostToken, <1>1, <1>2, PTL DEF Spec, SemImplements, Sem!Spec

-----------------------------------------------------------------------------
(* OSTCBPrioTbl keeps one entry per priority through every interleaving of *)
(* creations, deletions and changes of priority (OSTask), whatever the     *)
(* application calls: the theorem does not use Careful.                    *)

\* The idle task keeps its priority; a creation holds one of Prio.
PrioTypeOK ==
  /\ OSTCBPrio \in [AllTask -> Nat]
  /\ OSTCBPrio[IdleTask] = IdlePrio
  /\ \A t \in Task : OSTCBPrio[t] \in Prio \cup {NoPrio}
  /\ reserved \in [Task -> Prio \cup {NoPrio}]
  /\ newborn \in [Task -> SUBSET Task]

PrioTblInv == PrioTypeOK /\ OnePrioEach

\* The priorities of tasks, that of the idle task and the mark of a free
\* control block are three kinds of number.
LEMMA PrioKinds ==
  /\ IdlePrio \in Nat /\ NoPrio \in Nat /\ NoPrio # IdlePrio
  /\ \A p \in Prio : p \in Nat /\ p # IdlePrio /\ p # NoPrio
  /\ IdleTask \notin Task
BY CoreAssumption DEF NoPrio

LEMMA TaskInitOK == TaskInit => PrioTblInv
<1> SUFFICES ASSUME TaskInit PROVE PrioTblInv
  OBVIOUS
<1>1. /\ OSTCBPrio \in [AllTask -> Nat]
      /\ OSTCBPrio[IdleTask] = IdlePrio
      /\ \A t \in Task : OSTCBPrio[t] = InitPrio[t] /\ OSTCBPrio[t] \in Prio
  BY PrioKinds, CoreAssumption DEF TaskInit, Init, CoreInit, InitOSTCBPrio, AllTask
<1>2. PrioTypeOK
  BY <1>1 DEF PrioTypeOK, TaskInit
<1>3. OnePrioEach
  BY <1>1, PrioKinds, CoreAssumption DEF OnePrioEach, TaskInit, AllTask, Creating
<1> QED
  BY <1>2, <1>3 DEF PrioTblInv

(* The services that do.                                                   *)

\* The new number belongs to nobody, neither a task nor a creation.
LEMMA ChangeKeeps ==
  ASSUME PrioTblInv, NEW t \in Task, NEW u \in Task, NEW p \in Prio,
         OSTaskChangePrio(t, u, p)
  PROVE  PrioTblInv'
<1> USE DEF PrioTblInv, PrioTypeOK
<1>1. /\ OSTCBPrio' = [OSTCBPrio EXCEPT ![u] = p]
      /\ FreePrio(p)
      /\ reserved' = reserved /\ newborn' = newborn
  BY DEF OSTaskChangePrio, createVars
<1>2. PrioTypeOK'
  BY <1>1, PrioKinds DEF AllTask
<1>3. \A w \in AllTask : OSTCBPrio'[w] = IF w = u THEN p ELSE OSTCBPrio[w]
  BY <1>1
<1>4. /\ \A w \in AllTask : OSTCBPrio[w] # p
      /\ \A w \in Task : reserved[w] # p
  BY <1>1 DEF FreePrio
<1>5. OnePrioEach'
  <2>1. \A v, w \in AllTask : v # w /\ OSTCBPrio'[v] # NoPrio
                                => OSTCBPrio'[v] # OSTCBPrio'[w]
    BY <1>3, <1>4 DEF OnePrioEach, Dead
  <2>2. \A v, w \in Task :
          /\ v # w /\ reserved'[v] # NoPrio => reserved'[v] # reserved'[w]
          /\ reserved'[v] # NoPrio /\ w \notin newborn'[v]
               => reserved'[v] # OSTCBPrio'[w]
    BY <1>1, <1>3, <1>4 DEF OnePrioEach, Creating, AllTask
  <2> QED
    BY <2>1, <2>2 DEF OnePrioEach, Dead, Creating
<1> QED
  BY <1>2, <1>5

\* OS_TCB_RESERVED keeps the number for the creation.
LEMMA CreateKeeps ==
  ASSUME PrioTblInv, NEW t \in Task, NEW p \in Prio, OSTaskCreate(t, p)
  PROVE  PrioTblInv'
<1> USE DEF PrioTblInv, PrioTypeOK
<1>1. /\ OSTCBPrio' = OSTCBPrio
      /\ FreePrio(p)
      /\ reserved' = [reserved EXCEPT ![t] = p] /\ newborn' = newborn
  BY DEF OSTaskCreate, semVars, coreVars
<1>2. PrioTypeOK'
  BY <1>1
<1>3. /\ \A w \in AllTask : OSTCBPrio[w] # p
      /\ \A w \in Task : reserved[w] # p
  BY <1>1 DEF FreePrio
<1>4. OnePrioEach'
  <2>1. \A v \in Task : reserved'[v] = IF v = t THEN p ELSE reserved[v]
    BY <1>1
  <2>2. \A v, w \in Task :
          /\ v # w /\ reserved'[v] # NoPrio => reserved'[v] # reserved'[w]
          /\ reserved'[v] # NoPrio /\ w \notin newborn'[v]
               => reserved'[v] # OSTCBPrio'[w]
    BY <1>1, <2>1, <1>3 DEF OnePrioEach, Creating, AllTask
  <2> QED
    BY <1>1, <2>2 DEF OnePrioEach, Dead, Creating
<1> QED
  BY <1>2, <1>4

\* The new task takes over the number its creator holds; without a control
\* block the creator gives it back.
LEMMA TCBInitKeeps ==
  ASSUME PrioTblInv, NEW t \in Task, OS_TCBInit(t)
  PROVE  PrioTblInv'
<1> USE DEF PrioTblInv, PrioTypeOK
<1> DEFINE r == reserved[t]
<1>1. r \in Prio /\ r # NoPrio /\ newborn[t] = {}
  BY DEF OS_TCBInit, Creating
<1>2. \A w \in AllTask : OSTCBPrio[w] # r
  BY <1>1, PrioKinds DEF OnePrioEach, Creating, AllTask
<1>3. ASSUME NEW u \in Task, Dead(u),
             OSTCBPrio' = [OSTCBPrio EXCEPT ![u] = r],
             newborn' = [newborn EXCEPT ![t] = {u}], reserved' = reserved
      PROVE  PrioTblInv'
  <2>1. PrioTypeOK'
    BY <1>1, <1>3, PrioKinds DEF AllTask
  <2>2. \A w \in AllTask : OSTCBPrio'[w] = IF w = u THEN r ELSE OSTCBPrio[w]
    BY <1>3
  <2>3. \A v, w \in AllTask : v # w /\ OSTCBPrio'[v] # NoPrio
                                => OSTCBPrio'[v] # OSTCBPrio'[w]
    BY <2>2, <1>2 DEF OnePrioEach, Dead
  <2>4. \A v, w \in Task : reserved'[v] # NoPrio /\ w \notin newborn'[v]
                             => reserved'[v] # OSTCBPrio'[w]
    <3> SUFFICES ASSUME NEW v \in Task, NEW w \in Task,
                        reserved[v] # NoPrio, w \notin newborn'[v]
                 PROVE  reserved[v] # OSTCBPrio'[w]
      BY <1>3
    <3>1. CASE v = t
      BY <3>1, <1>2, <1>3, <2>2 DEF AllTask
    <3>2. CASE v # t
      <4>1. reserved[v] # r /\ w \notin newborn[v]
        BY <3>2, <1>3 DEF OnePrioEach, Creating
      <4> QED
        BY <4>1, <2>2 DEF OnePrioEach, Creating, AllTask
    <3> QED
      BY <3>1, <3>2
  <2> QED
    BY <1>3, <2>1, <2>3, <2>4 DEF OnePrioEach, Dead, Creating
<1>4. ASSUME reserved' = [reserved EXCEPT ![t] = NoPrio],
             OSTCBPrio' = OSTCBPrio, newborn' = newborn
      PROVE  PrioTblInv'
  BY <1>4 DEF OnePrioEach, Dead, Creating
<1> QED
  BY <1>3, <1>4 DEF OS_TCBInit

\* The new task holds the number alone: the creation ends.
LEMMA TCBReadyKeeps ==
  ASSUME PrioTblInv, NEW t \in Task, OS_TCBReady(t)
  PROVE  PrioTblInv'
<1>1. /\ OSTCBPrio' = OSTCBPrio
      /\ reserved' = [reserved EXCEPT ![t] = NoPrio]
      /\ newborn' = [newborn EXCEPT ![t] = {}]
  BY DEF OS_TCBReady
<1> QED
  BY <1>1 DEF PrioTblInv, PrioTypeOK, OnePrioEach, Dead, Creating

LEMMA DelKeeps ==
  ASSUME PrioTblInv, NEW t \in Task, NEW u \in Task, OSTaskDel(t, u)
  PROVE  PrioTblInv'
<1> USE DEF PrioTblInv, PrioTypeOK
<1>1. /\ OSTCBPrio' = [OSTCBPrio EXCEPT ![u] = NoPrio]
      /\ reserved' = reserved /\ newborn' = newborn
  BY DEF OSTaskDel, createVars
<1>2. PrioTypeOK'
  BY <1>1, PrioKinds DEF AllTask
<1>3. \A w \in AllTask : OSTCBPrio'[w] = IF w = u THEN NoPrio ELSE OSTCBPrio[w]
  BY <1>1
<1>4. OnePrioEach'
  BY <1>1, <1>3 DEF OnePrioEach, Dead, Creating, AllTask
<1> QED
  BY <1>2, <1>4

-----------------------------------------------------------------------------
LEMMA SamePrioTbl ==
  ASSUME PrioTblInv, OSTCBPrio' = OSTCBPrio, UNCHANGED createVars
  PROVE  PrioTblInv'
BY DEF PrioTblInv, PrioTypeOK, OnePrioEach, Dead, Creating, createVars

LEMMA TaskNextKeeps == PrioTblInv /\ [TaskNext]_taskVars => PrioTblInv'
<1> SUFFICES ASSUME PrioTblInv, [TaskNext]_taskVars PROVE PrioTblInv'
  OBVIOUS
<1>1. CASE UNCHANGED taskVars
  BY <1>1, SamePrioTbl DEF taskVars, semVars, coreVars
<1>2. ASSUME UNCHANGED createVars,
             \/ SysTick_Handler \/ Kernel
             \/ \E t \in Task : CoreTask(t) \/ SemTask(t)
      PROVE  PrioTblInv'
  BY <1>2, HandlersKeepPrio, CoreTaskKeepsPrio, SemTaskKeepsPrio, SamePrioTbl
<1>3. ASSUME NEW t \in Task, NEW u \in Task,
             (\E p \in Prio : OSTaskChangePrio(t, u, p)) \/ OSTaskDel(t, u)
      PROVE  PrioTblInv'
  BY <1>3, ChangeKeeps, DelKeeps
<1>4. ASSUME NEW t \in Task, NEW p \in Prio, OSTaskCreate(t, p)
      PROVE  PrioTblInv'
  BY <1>4, CreateKeeps
<1>5. ASSUME NEW t \in Task, OS_TCBInit(t) \/ OS_TCBReady(t)
      PROVE  PrioTblInv'
  BY <1>5, TCBInitKeeps, TCBReadyKeeps
<1> QED
  BY <1>1, <1>2, <1>3, <1>4, <1>5 DEF TaskNext

\* OSTCBPrioTbl never has two claims to one entry: no two tasks and no task
\* and a creation under way share a priority (os_task.c, os_core.c).
THEOREM OnePrioAlways == TaskSpec => []OnePrioEach
<1>1. PrioTblInv => OnePrioEach
  BY DEF PrioTblInv
<1> QED
  BY <1>1, TaskInitOK, TaskNextKeeps, PTL DEF TaskSpec

-----------------------------------------------------------------------------
(***************************************************************************)
(* The lists and the scheduler under tasks that come and go, where the     *)
(* application is Careful.  LiveInv is inductive: LiveLists says who is in *)
(* which list, from the TCBs and from where each task is; LiveRun says     *)
(* what the scheduler found last.                                          *)
(***************************************************************************)
Free(t) == OSTCBStat[t] = {} /\ OSTCBDly[t] = 0

ReadyTasks == {t \in AllTask : ~Dead(t) /\ Free(t) /\ t \notin Newborn}
Waiters(e) == {t \in Task : Waits(t, e)}

MembersOK ==
  /\ OSRdyTbl = {OSTCBPrio[t] : t \in ReadyTasks}
  /\ \A e \in Event : OSEventTbl[e] = {OSTCBPrio[t] : t \in Waiters(e)}

FieldTypeOK ==
  /\ OSTCBStat \in [AllTask -> SUBSET Flag]
  /\ OSTCBStatPend \in [AllTask -> PendResult]
  /\ OSTCBDly \in [AllTask -> Nat]
  /\ OSTCBEventPtr \in [AllTask -> Event \cup {NoEvent}]
  /\ DOMAIN OSEventTbl = Event /\ OSEventTbl = [e \in Event |-> OSEventTbl[e]]
  /\ pc \in [AllTask -> Pc]
  /\ pevent \in [AllTask -> Event \cup {NoEvent}]

\* A free control block, a task that is being created and one that creates.
PlaceOK(t) ==
  /\ Dead(t) => ~InPendCall(t) /\ Free(t) /\ ~Creating(t) /\ t \notin Newborn
  /\ t \in Newborn => pc[t] = "task" /\ Free(t) /\ ~Creating(t)
  /\ Creating(t) => pc[t] = "task"
  /\ newborn[t] # {} => Creating(t)

\* A task in a pend and one that is not.
CallOK(t) ==
  /\ ~InPendCall(t) => /\ "PEND" \notin OSTCBStat[t]
                       /\ ~Dead(t) => OSTCBEventPtr[t] = NoEvent
  /\ InPendCall(t) => /\ OSTCBEventPtr[t] = pevent[t] /\ pevent[t] \in Event
                      /\ "PEND" \in OSTCBStat[t] => OSTCBStatPend[t] = "OK"
                      /\ "PEND" \notin OSTCBStat[t] => OSTCBDly[t] = 0

\* Nobody is created twice.
BirthOK == \A t, u \in Task : t # u => newborn[t] \cap newborn[u] = {}

LiveLists ==
  /\ FieldTypeOK /\ BirthOK
  /\ \A t \in Task : PlaceOK(t) /\ CallOK(t)
  /\ Free(IdleTask)
  /\ MembersOK

\* The running task has changed its own number, or deleted itself, and has
\* OS_Sched still to call; nobody has the old number.
Renamed == /\ pc[OSTCBCur] = "sched" /\ OSLockNesting = 0
           /\ OSPrioCur \notin {OSTCBPrio[t] : t \in AllTask}

CurrentInv == ~pendSV => OSPrioCur = OSTCBPrio[OSTCBCur] \/ Renamed

HolderInv == OSLockNesting > 0 =>
  /\ ~pendSV /\ pc[OSTCBCur] \in {"task", "sched"}
  /\ ~Dead(OSTCBCur) /\ OSTCBCur \notin Newborn

IsHighest(t) == OSTCBPrio[t] \in OSRdyTbl /\ \A p \in OSRdyTbl : OSTCBPrio[t] <= p

DueInv == isr = "none" /\ OSLockNesting = 0 =>
  /\ pendSV => IsHighest(OSTCBHighRdy) /\ OSPrioHighRdy = OSTCBPrio[OSTCBHighRdy]
  /\ ~pendSV /\ pc[OSTCBCur] \in {"task", "wake"} => IsHighest(OSTCBCur)

SwTypes == /\ OSTCBCur \in AllTask /\ OSTCBHighRdy \in AllTask /\ pendSV \in BOOLEAN
           /\ OSLockNesting \in Nat

LiveRun == SwTypes /\ NestInv /\ CurrentInv /\ HolderInv /\ DueInv

LiveInv == PrioTblInv /\ LiveLists /\ LiveRun

\* Who exists has a number of its own.
LEMMA OwnNumber ==
  ASSUME PrioTblInv
  PROVE  /\ \A t, u \in AllTask : ~Dead(t) /\ OSTCBPrio[t] = OSTCBPrio[u] => t = u
         /\ ~Dead(IdleTask) /\ IdleTask \in AllTask /\ Task \subseteq AllTask
         /\ IdleTask \notin Task /\ IdleTask \notin Newborn
         /\ \A t \in AllTask : OSTCBPrio[t] \in Nat
<1>1. IdleTask \notin Newborn
  BY PrioKinds DEF PrioTblInv, PrioTypeOK, Newborn
<1> QED
  BY <1>1, PrioKinds DEF PrioTblInv, PrioTypeOK, OnePrioEach, AllTask, Dead

\* Newborn tasks are tasks.
LEMMA NewbornTasks ==
  ASSUME PrioTblInv
  PROVE  Newborn \subseteq Task
BY DEF PrioTblInv, PrioTypeOK, Newborn

\* Taking some out of a list that holds tasks which exist.
LEMMA NumbersLess ==
  ASSUME PrioTblInv, NEW S, S \subseteq AllTask, NEW T, T \subseteq AllTask,
         \A t \in T : ~Dead(t)
  PROVE  {OSTCBPrio[t] : t \in S \ T} = {OSTCBPrio[t] : t \in S} \ {OSTCBPrio[t] : t \in T}
<1>1. \A t \in T, u \in AllTask : OSTCBPrio[t] = OSTCBPrio[u] => t = u
  BY OwnNumber
<1> QED
  BY <1>1

LEMMA NumbersOne ==
  ASSUME PrioTblInv, NEW S, S \subseteq AllTask, NEW x \in AllTask, ~Dead(x)
  PROVE  /\ {OSTCBPrio[t] : t \in S \ {x}} = {OSTCBPrio[t] : t \in S} \ {OSTCBPrio[x]}
         /\ {OSTCBPrio[t] : t \in S \cup {x}} = {OSTCBPrio[t] : t \in S} \cup {OSTCBPrio[x]}
<1>1. \A u \in AllTask : OSTCBPrio[x] = OSTCBPrio[u] => x = u
  BY OwnNumber
<1>2. {OSTCBPrio[t] : t \in S \ {x}} = {OSTCBPrio[t] : t \in S} \ {OSTCBPrio[x]}
  BY <1>1
<1> QED
  BY <1>2

\* Who waits exists.
LEMMA WaitersLive ==
  ASSUME PrioTblInv, LiveLists, NEW e \in Event
  PROVE  Waiters(e) \subseteq Task /\ \A t \in Waiters(e) : ~Dead(t)
BY DEF LiveLists, PlaceOK, Waiters, Waits

\* The ready list is never empty.
LEMMA ReadyFacts ==
  ASSUME PrioTblInv, LiveLists
  PROVE  /\ OSRdyTbl \subseteq Nat /\ IdlePrio \in OSRdyTbl
         /\ \A p \in OSRdyTbl : \E t \in AllTask : ~Dead(t) /\ OSTCBPrio[t] = p
         /\ \A t \in AllTask : ~Dead(t) => (OSTCBPrio[t] \in OSRdyTbl <=> t \in ReadyTasks)
         /\ \A t \in AllTask : OSTCBPrio[t] \in OSRdyTbl => ~Dead(t) /\ t \in ReadyTasks
<1>1. IdleTask \in ReadyTasks /\ OSTCBPrio[IdleTask] = IdlePrio
  BY OwnNumber DEF LiveLists, ReadyTasks, PrioTblInv, PrioTypeOK
<1>2. OSRdyTbl = {OSTCBPrio[t] : t \in ReadyTasks} /\ ReadyTasks \subseteq AllTask
  BY DEF LiveLists, MembersOK, ReadyTasks
<1>3. \A t \in ReadyTasks : t \in AllTask /\ ~Dead(t) /\ OSTCBPrio[t] \in Nat
  BY OwnNumber DEF ReadyTasks
<1> QED
  BY <1>1, <1>2, <1>3, OwnNumber

\* A task that executes a service exists, is nobody's creation, and is the
\* highest ready unless it holds the lock.
LEMMA RunnerLives ==
  ASSUME LiveInv, NEW t \in Task, Running(t), pc[t] \in {"task", "wake"}
  PROVE  /\ ~Dead(t) /\ t \notin Newborn
         /\ OSPrioCur = OSTCBPrio[t]
         /\ OSLockNesting = 0 => IsHighest(t) /\ t \in ReadyTasks
         /\ pc[t] = "wake" => OSLockNesting = 0
         /\ OSIntNesting = 0
<1>1. OSTCBCur = t /\ isr = "none" /\ ~pendSV
  BY DEF Running
<1>2. OSPrioCur = OSTCBPrio[t] /\ OSIntNesting = 0
  BY <1>1 DEF LiveInv, LiveRun, CurrentInv, Renamed, NestInv
<1>3. OSLockNesting = 0 \/ OSLockNesting > 0
  BY DEF LiveInv, LiveRun, SwTypes
<1>4. CASE OSLockNesting = 0
  <2>1. IsHighest(t)
    BY <1>1, <1>4 DEF LiveInv, LiveRun, DueInv
  <2>2. ~Dead(t) /\ t \in ReadyTasks
    BY <2>1, ReadyFacts, OwnNumber DEF IsHighest, LiveInv
  <2> QED
    BY <1>2, <1>4, <2>1, <2>2 DEF ReadyTasks
<1>5. CASE OSLockNesting > 0
  BY <1>1, <1>2, <1>5 DEF LiveInv, LiveRun, HolderInv
<1> QED
  BY <1>3, <1>4, <1>5

-----------------------------------------------------------------------------
(* The scheduler *)

\* After a reschedule a switch is due exactly when it is needed.
LEMMA SwitchLive ==
  ASSUME PrioTblInv, LiveLists, CurrentInv, OSTCBPrio' = OSTCBPrio, OSRdyTbl' = OSRdyTbl,
         SwitchToHighest
  PROVE  /\ OSTCBHighRdy' \in AllTask /\ IsHighest(OSTCBHighRdy)'
         /\ OSPrioHighRdy' = OSTCBPrio'[OSTCBHighRdy']
         /\ OSTCBCur' = OSTCBCur /\ pendSV' \in BOOLEAN
         /\ ~pendSV' => /\ IsHighest(OSTCBCur)' /\ ~pendSV
                        /\ OSPrioCur' = OSTCBPrio'[OSTCBCur']
<1>1. PICK hp : hp = Highest(OSRdyTbl)
  OBVIOUS
<1>2. hp \in OSRdyTbl /\ \A p \in OSRdyTbl : hp <= p
  BY <1>1, ReadyFacts, HighestIsLeast
<1>3. PICK h : h = OSTCBPrioTbl(hp)
  OBVIOUS
<1>4. h \in AllTask /\ OSTCBPrio[h] = hp
  BY <1>2, <1>3, ReadyFacts DEF OSTCBPrioTbl
<1>5. /\ OSPrioHighRdy' = hp /\ OSTCBHighRdy' = h
      /\ pendSV' = (pendSV \/ hp # OSPrioCur)
      /\ OSPrioCur' = OSPrioCur /\ OSTCBCur' = OSTCBCur
  BY <1>1, <1>3 DEF SwitchToHighest, OSTCBPrioTbl
<1>6. ~pendSV' => ~pendSV /\ hp = OSPrioCur
  BY <1>5
<1>7. ~pendSV' => OSTCBPrio[OSTCBCur] = hp
  BY <1>4, <1>6 DEF CurrentInv, Renamed
<1>8. IsHighest(OSTCBHighRdy)'
  BY <1>2, <1>4, <1>5 DEF IsHighest
<1>9. ~pendSV' => IsHighest(OSTCBCur)'
  BY <1>2, <1>5, <1>7 DEF IsHighest
<1> QED
  BY <1>4, <1>5, <1>6, <1>7, <1>8, <1>9

\* The end of a handler.
LEMMA ExitLive ==
  ASSUME LiveInv, OSIntExit, OSLockNesting' = OSLockNesting, isr \in {"none", "exit"},
         isr' = "none",
         UNCHANGED <<OSRdyTbl, OSTCBPrio, tcbVars, OSEventTbl, callVars, createVars>>
  PROVE  LiveRun'
<1>1. OSIntNesting' = 0
  BY DEF OSIntExit, LiveInv, LiveRun, NestInv
<1>2. CASE OSLockNesting = 0
  <2>1. SwitchToHighest
    BY <1>1, <1>2 DEF OSIntExit
  <2> QED
    BY <1>1, <1>2, <2>1, SwitchLive DEF LiveInv, LiveRun, SwTypes, NestInv, CurrentInv,
       HolderInv, DueInv
<1>3. CASE OSLockNesting # 0
  <2>1. UNCHANGED swVars
    BY <1>3 DEF OSIntExit
  <2> QED
    BY <1>1, <1>3, <2>1 DEF LiveInv, LiveRun, SwTypes, NestInv, CurrentInv, Renamed, HolderInv,
       DueInv, swVars, callVars, createVars, Dead, Newborn
<1> QED
  BY <1>2, <1>3

\* A service of the running task, which either has OS_Sched to call or leaves
\* the task the highest.
LEMMA ServiceLive ==
  ASSUME LiveInv, NEW t \in Task, Running(t), pc[t] \in {"task", "wake"},
         UNCHANGED <<swVars, nestVars>>,
         \/ OSTCBPrio'[t] = OSTCBPrio[t]
         \/ /\ OSLockNesting = 0 /\ pc'[t] = "sched"
            /\ OSTCBPrio[t] \notin {OSTCBPrio'[u] : u \in AllTask},
         OSLockNesting > 0 => pc'[t] \in {"task", "sched"} /\ ~Dead(t)' /\ (t \notin Newborn)',
         OSLockNesting = 0 /\ pc'[t] \in {"task", "wake"} => IsHighest(t)'
  PROVE  LiveRun'
<1>1. OSTCBCur = t /\ isr = "none" /\ ~pendSV /\ OSPrioCur = OSTCBPrio[t]
  BY RunnerLives DEF Running
<1>2. /\ OSTCBCur' = t /\ isr' = "none" /\ ~pendSV' /\ OSPrioCur' = OSTCBPrio[t]
      /\ OSLockNesting' = OSLockNesting /\ SwTypes' /\ NestInv'
  BY <1>1 DEF swVars, nestVars, LiveInv, LiveRun, SwTypes, NestInv
<1>3. CurrentInv'
  BY <1>2 DEF CurrentInv, Renamed
<1>4. HolderInv'
  BY <1>2 DEF HolderInv, Dead, Newborn
<1>5. DueInv'
  BY <1>2 DEF DueInv, IsHighest
<1> QED
  BY <1>2, <1>3, <1>4, <1>5 DEF LiveRun

-----------------------------------------------------------------------------
(* The lists *)

\* Nobody enters or leaves a pend, and creators and created stay where they are.
SameCalls ==
  /\ pc' \in [AllTask -> Pc]
  /\ \A u \in Task : /\ InPendCall(u)' <=> InPendCall(u)
                     /\ Creating(u) \/ u \in Newborn => pc'[u] = pc[u]

LEMMA SameLive ==
  ASSUME LiveLists, SameCalls,
         UNCHANGED <<OSRdyTbl, OSTCBPrio, tcbVars, OSEventTbl, pevent, createVars>>
  PROVE  LiveLists'
<1> USE DEF tcbVars, createVars
<1>1. FieldTypeOK' /\ BirthOK' /\ Free(IdleTask)'
  BY DEF LiveLists, FieldTypeOK, BirthOK, SameCalls, Free
<1>2. ASSUME NEW t \in Task
      PROVE  PlaceOK(t)' /\ CallOK(t)' /\ \A e \in Event : Waits(t, e)' <=> Waits(t, e)
  <2>1. PlaceOK(t) /\ CallOK(t)
    BY DEF LiveLists
  <2>2. InPendCall(t)' <=> InPendCall(t)
    BY DEF SameCalls
  <2>3. CallOK(t)' /\ \A e \in Event : Waits(t, e)' <=> Waits(t, e)
    BY <2>1, <2>2 DEF CallOK, Waits, Dead
  <2>4. PlaceOK(t)'
    BY <2>1, <2>2 DEF PlaceOK, SameCalls, Dead, Creating, Newborn, Free
  <2> QED
    BY <2>3, <2>4
<1>3. ReadyTasks' = ReadyTasks
  BY DEF ReadyTasks, Free, Dead, Newborn
<1>4. \A e \in Event : Waiters(e)' = Waiters(e)
  BY <1>2 DEF Waiters
<1>5. MembersOK'
  BY <1>3, <1>4 DEF MembersOK, LiveLists
<1> QED
  BY <1>1, <1>2, <1>5 DEF LiveLists

\* A post or abort: some of those who wait for an event are made ready.
LEMMA WakeLive ==
  ASSUME PrioTblInv, LiveLists, SameCalls, NEW e \in Event, NEW ps, ps \subseteq OSEventTbl[e],
         NEW result \in {"OK", "ABORT"}, OS_EventTaskRdy(e, ps, result),
         UNCHANGED <<OSTCBPrio, pevent, createVars>>
  PROVE  LiveLists'
<1> DEFINE W == {t \in Waiters(e) : OSTCBPrio[t] \in ps}
           R == {t \in W : "SUSPEND" \notin OSTCBStat[t]}
<1>1. W \subseteq Task /\ Task \subseteq AllTask /\ \A t \in W : ~Dead(t)
  BY WaitersLive, OwnNumber
<1>2. {t \in AllTask : OSTCBPrio[t] \in ps} = W
  <2>1. OSEventTbl[e] = {OSTCBPrio[t] : t \in Waiters(e)}
    BY DEF LiveLists, MembersOK
  <2>2. ASSUME NEW t \in AllTask, OSTCBPrio[t] \in ps
        PROVE  t \in W
    <3>1. PICK u \in Waiters(e) : OSTCBPrio[u] = OSTCBPrio[t]
      BY <2>1, <2>2
    <3>2. u = t
      BY <1>1, <3>1, WaitersLive, OwnNumber
    <3> QED
      BY <2>2, <3>1, <3>2
  <2> QED
    BY <1>1, <2>2
<1>3. ps = {OSTCBPrio[t] : t \in W}
  <2>1. OSEventTbl[e] = {OSTCBPrio[t] : t \in Waiters(e)}
    BY DEF LiveLists, MembersOK
  <2> QED
    BY <2>1
<1>4. \A t \in W : Waits(t, e) /\ t \notin Newborn /\ InPendCall(t)
  BY <1>1 DEF LiveLists, PlaceOK, Waiters, Waits, InPendCall
<1>5. /\ \A t \in AllTask : OSTCBStat'[t] = IF t \in W THEN OSTCBStat[t] \ {"PEND"}
                                                        ELSE OSTCBStat[t]
      /\ \A t \in AllTask : OSTCBStatPend'[t] = IF t \in W THEN result ELSE OSTCBStatPend[t]
      /\ \A t \in AllTask : OSTCBDly'[t] = IF t \in W THEN 0 ELSE OSTCBDly[t]
      /\ OSEventTbl' = [OSEventTbl EXCEPT ![e] = @ \ ps]
      /\ OSTCBEventPtr' = OSTCBEventPtr
  BY <1>2 DEF OS_EventTaskRdy
<1>6. OSRdyTbl' = OSRdyTbl \cup {OSTCBPrio[t] : t \in R}
  <2>1. OSRdyTbl' = OSRdyTbl \cup {OSTCBPrio[t] : t \in
                      {u \in W : "SUSPEND" \notin OSTCBStat[u] \ {"PEND"}}}
    BY <1>2 DEF OS_EventTaskRdy
  <2>2. {u \in W : "SUSPEND" \notin OSTCBStat[u] \ {"PEND"}} = R
    OBVIOUS
  <2> QED
    BY <2>1, <2>2
<1>7. FieldTypeOK'
  <2>1. OSTCBStat' \in [AllTask -> SUBSET Flag]
    <3>1. \A t \in AllTask : OSTCBStat'[t] \in SUBSET Flag
      BY <1>5 DEF LiveLists, FieldTypeOK
    <3>2. OSTCBStat' = [t \in AllTask |-> OSTCBStat'[t]]
      BY DEF OS_EventTaskRdy
    <3> QED
      BY <3>1, <3>2
  <2>2. OSTCBStatPend' \in [AllTask -> PendResult] /\ OSTCBDly' \in [AllTask -> Nat]
    BY DEF OS_EventTaskRdy, LiveLists, FieldTypeOK, PendResult
  <2>3. DOMAIN OSEventTbl' = Event /\ OSEventTbl' = [f \in Event |-> OSEventTbl'[f]]
    BY <1>5 DEF LiveLists, FieldTypeOK
  <2> QED
    BY <1>5, <2>1, <2>2, <2>3 DEF LiveLists, FieldTypeOK, SameCalls
<1>8. ASSUME NEW t \in Task
      PROVE  PlaceOK(t)' /\ CallOK(t)'
             /\ \A f \in Event : Waits(t, f)' <=> Waits(t, f) /\ ~(f = e /\ t \in W)
  <2>1. PlaceOK(t) /\ CallOK(t) /\ t \in AllTask
    BY <1>1 DEF LiveLists
  <2>2. InPendCall(t)' <=> InPendCall(t)
    BY DEF SameCalls
  <2>3. CASE t \in W
    <3>1. InPendCall(t) /\ t \notin Newborn /\ ~Dead(t) /\ Waits(t, e)
      BY <1>1, <1>4, <2>3
    <3>2. "PEND" \notin OSTCBStat'[t] /\ OSTCBDly'[t] = 0 /\ OSTCBStatPend'[t] = result
      BY <1>5, <2>1, <2>3
    <3>3. PlaceOK(t)'
      BY <2>1, <2>2, <3>1 DEF PlaceOK, SameCalls, Dead, Creating, Newborn, createVars
    <3>4. CallOK(t)'
      BY <1>5, <2>1, <2>2, <3>1, <3>2 DEF CallOK
    <3>5. \A f \in Event : Waits(t, f)' <=> Waits(t, f) /\ f # e
      BY <3>1, <3>2 DEF Waits
    <3> QED
      BY <2>3, <3>3, <3>4, <3>5
  <2>4. CASE t \notin W
    <3>1. UNCHANGED <<OSTCBStat[t], OSTCBStatPend[t], OSTCBDly[t]>>
      BY <1>5, <2>1, <2>4
    <3>2. CallOK(t)' /\ \A f \in Event : Waits(t, f)' <=> Waits(t, f)
      BY <1>5, <2>1, <2>2, <3>1 DEF CallOK, Waits, Dead
    <3>3. PlaceOK(t)'
      BY <2>1, <2>2, <3>1 DEF PlaceOK, SameCalls, Dead, Creating, Newborn, Free, createVars
    <3> QED
      BY <2>4, <3>2, <3>3
  <2> QED
    BY <2>3, <2>4
<1>9. ReadyTasks' = ReadyTasks \cup R
  <2>1. \A t \in AllTask : (~Dead(t))' = ~Dead(t) /\ (t \notin Newborn)' = (t \notin Newborn)
    BY DEF Dead, Newborn, createVars
  <2>2. \A t \in AllTask \ W : Free(t)' <=> Free(t)
    BY <1>5 DEF Free
  <2>3. \A t \in W : Free(t)' <=> t \in R
    <3> SUFFICES ASSUME NEW t \in W PROVE Free(t)' <=> t \in R
      OBVIOUS
    <3>1. OSTCBStat[t] \subseteq {"PEND", "SUSPEND"}
      BY <1>1 DEF LiveLists, FieldTypeOK, Flag
    <3> QED
      BY <1>1, <1>5, <3>1 DEF Free
  <2>4. \A t \in W : t \in ReadyTasks => t \in R
    BY DEF ReadyTasks, Free
  <2> HIDE DEF W, R
  <2>5. \A t \in W : t \in ReadyTasks' <=> t \in R
    BY <1>1, <1>4, <2>1, <2>3 DEF ReadyTasks
  <2>6. \A t \in AllTask \ W : t \in ReadyTasks' <=> t \in ReadyTasks
    BY <2>1, <2>2 DEF ReadyTasks
  <2>7. R \subseteq W /\ ReadyTasks \subseteq AllTask /\ ReadyTasks' \subseteq AllTask
    BY DEF R, ReadyTasks
  <2> QED
    BY <1>1, <2>4, <2>5, <2>6, <2>7
<1>10. Waiters(e)' = Waiters(e) \ W /\ \A f \in Event : f # e => Waiters(f)' = Waiters(f)
  BY <1>8 DEF Waiters
<1> HIDE DEF W, R
<1>11. MembersOK'
  <2>1. OSRdyTbl' = {OSTCBPrio'[t] : t \in ReadyTasks'}
    BY <1>6, <1>9 DEF LiveLists, MembersOK
  <2>2. OSEventTbl'[e] = {OSTCBPrio'[t] : t \in Waiters(e)'}
    <3>1. OSEventTbl'[e] = {OSTCBPrio[t] : t \in Waiters(e)} \ {OSTCBPrio[t] : t \in W}
      BY <1>3, <1>5 DEF LiveLists, MembersOK, FieldTypeOK
    <3>2. Waiters(e) \subseteq AllTask
      BY <1>1, WaitersLive
    <3>3. PICK S : S = Waiters(e)
      OBVIOUS
    <3>4. {OSTCBPrio[t] : t \in S \ W} = {OSTCBPrio[t] : t \in S} \ {OSTCBPrio[t] : t \in W}
      BY <1>1, <3>2, <3>3, NumbersLess
    <3>5. {OSTCBPrio'[t] : t \in Waiters(e)'} = {OSTCBPrio[t] : t \in S \ W}
      BY <1>10, <3>3
    <3> QED
      BY <3>1, <3>3, <3>4, <3>5
  <2>3. \A f \in Event : f # e => OSEventTbl'[f] = {OSTCBPrio'[t] : t \in Waiters(f)'}
    BY <1>5, <1>10 DEF LiveLists, MembersOK, FieldTypeOK
  <2> QED
    BY <2>1, <2>2, <2>3 DEF MembersOK
<1>12. Free(IdleTask)' /\ BirthOK'
  BY <1>1, <1>5, OwnNumber DEF LiveLists, Free, BirthOK, createVars
<1> QED
  BY <1>7, <1>8, <1>11, <1>12 DEF LiveLists

\* Delays end, and with them the pends they were the timeouts of.
LEMMA DlyEndsLive ==
  ASSUME PrioTblInv, LiveLists, SameCalls, NEW T, T \subseteq {t \in Task : OSTCBDly[t] # 0},
         DlyEnds(T), OSTCBDly' \in [AllTask -> Nat],
         \A t \in AllTask : OSTCBDly'[t] = 0 <=> OSTCBDly[t] = 0 \/ t \in T,
         UNCHANGED <<OSTCBPrio, OSTCBEventPtr, OSEventTbl, pevent, createVars>>
  PROVE  LiveLists'
<1> DEFINE R == {t \in T : "SUSPEND" \notin OSTCBStat[t]}
<1>1. T \subseteq Task /\ Task \subseteq AllTask /\ \A t \in T : ~Dead(t) /\ t \notin Newborn
  BY OwnNumber DEF LiveLists, PlaceOK, Free
<1>2. /\ \A t \in AllTask : OSTCBStat'[t] = IF t \in T THEN OSTCBStat[t] \ {"PEND"}
                                                        ELSE OSTCBStat[t]
      /\ \A t \in AllTask : OSTCBStatPend'[t] =
           IF t \in T THEN (IF "PEND" \in OSTCBStat[t] THEN "TO" ELSE "OK")
                      ELSE OSTCBStatPend[t]
      /\ OSRdyTbl' = OSRdyTbl \cup {OSTCBPrio[t] : t \in R}
  BY DEF DlyEnds
<1>3. FieldTypeOK'
  <2>1. OSTCBStat' \in [AllTask -> SUBSET Flag]
    <3>1. \A t \in AllTask : OSTCBStat'[t] \in SUBSET Flag
      BY <1>2 DEF LiveLists, FieldTypeOK
    <3>2. OSTCBStat' = [t \in AllTask |-> OSTCBStat'[t]]
      BY DEF DlyEnds
    <3> QED
      BY <3>1, <3>2
  <2>2. OSTCBStatPend' \in [AllTask -> PendResult]
    BY DEF DlyEnds, LiveLists, FieldTypeOK, PendResult
  <2> QED
    BY <2>1, <2>2 DEF LiveLists, FieldTypeOK, SameCalls
<1>4. ASSUME NEW t \in Task
      PROVE  PlaceOK(t)' /\ CallOK(t)' /\ \A f \in Event : Waits(t, f)' <=> Waits(t, f)
  <2>1. PlaceOK(t) /\ CallOK(t) /\ t \in AllTask
    BY <1>1 DEF LiveLists
  <2>2. InPendCall(t)' <=> InPendCall(t)
    BY DEF SameCalls
  <2>3. CASE t \in T
    <3>1. /\ "PEND" \notin OSTCBStat'[t] /\ OSTCBDly'[t] = 0
          /\ InPendCall(t) => "PEND" \in OSTCBStat[t] /\ OSTCBStatPend'[t] = "TO"
      BY <1>2, <2>1, <2>3 DEF CallOK
    <3>2. PlaceOK(t)'
      BY <1>1, <2>1, <2>2, <2>3 DEF PlaceOK, SameCalls, Dead, Creating, Newborn, createVars
    <3>3. CallOK(t)' /\ \A f \in Event : Waits(t, f)' <=> Waits(t, f)
      BY <2>1, <2>2, <3>1 DEF CallOK, Waits, Dead
    <3> QED
      BY <3>2, <3>3
  <2>4. CASE t \notin T
    <3>1. UNCHANGED <<OSTCBStat[t], OSTCBStatPend[t]>> /\ (OSTCBDly'[t] = 0 <=> OSTCBDly[t] = 0)
      BY <1>2, <2>1, <2>4
    <3>2. CallOK(t)' /\ \A f \in Event : Waits(t, f)' <=> Waits(t, f)
      BY <2>1, <2>2, <3>1 DEF CallOK, Waits, Dead
    <3>3. PlaceOK(t)'
      BY <2>1, <2>2, <3>1 DEF PlaceOK, SameCalls, Dead, Creating, Newborn, Free, createVars
    <3> QED
      BY <3>2, <3>3
  <2> QED
    BY <2>3, <2>4
<1>5. ReadyTasks' = ReadyTasks \cup R
  <2>1. \A t \in AllTask : (~Dead(t))' = ~Dead(t) /\ (t \notin Newborn)' = (t \notin Newborn)
    BY DEF Dead, Newborn, createVars
  <2>2. \A t \in AllTask \ T : Free(t)' <=> Free(t)
    BY <1>2 DEF Free
  <2>3. \A t \in T : (Free(t)' <=> t \in R) /\ ~Free(t)
    <3> SUFFICES ASSUME NEW t \in T PROVE (Free(t)' <=> t \in R) /\ ~Free(t)
      OBVIOUS
    <3>1. OSTCBStat[t] \subseteq {"PEND", "SUSPEND"} /\ OSTCBDly[t] # 0 /\ OSTCBDly'[t] = 0
      BY <1>1 DEF LiveLists, FieldTypeOK, Flag
    <3>2. OSTCBStat'[t] = OSTCBStat[t] \ {"PEND"}
      BY <1>1, <1>2
    <3> QED
      BY <3>1, <3>2 DEF Free
  <2> HIDE DEF R
  <2>4. \A t \in T : t \in ReadyTasks' <=> t \in R
    BY <1>1, <2>1, <2>3 DEF ReadyTasks
  <2>5. \A t \in AllTask \ T : t \in ReadyTasks' <=> t \in ReadyTasks
    BY <2>1, <2>2 DEF ReadyTasks
  <2>6. R \subseteq T /\ ReadyTasks \subseteq AllTask /\ ReadyTasks' \subseteq AllTask
    BY DEF R, ReadyTasks
  <2>7. \A t \in T : t \notin ReadyTasks
    BY <2>3 DEF ReadyTasks
  <2> QED
    BY <1>1, <2>4, <2>5, <2>6, <2>7
<1>6. \A f \in Event : Waiters(f)' = Waiters(f)
  BY <1>4 DEF Waiters
<1> HIDE DEF R
<1>7. MembersOK'
  <2>1. OSRdyTbl' = {OSTCBPrio'[t] : t \in ReadyTasks'}
    BY <1>2, <1>5 DEF LiveLists, MembersOK
  <2> QED
    BY <1>6, <2>1 DEF LiveLists, MembersOK
<1>8. Free(IdleTask)' /\ BirthOK'
  BY <1>1, <1>2, OwnNumber DEF LiveLists, Free, BirthOK, createVars
<1> QED
  BY <1>3, <1>4, <1>7, <1>8 DEF LiveLists

LEMMA ListedWaits ==
  ASSUME PrioTblInv, LiveLists, NEW e \in Event, NEW t \in Task, ~Dead(t)
  PROVE  OSTCBPrio[t] \in OSEventTbl[e] <=> Waits(t, e)
<1>1. OSEventTbl[e] = {OSTCBPrio[u] : u \in Waiters(e)}
  BY DEF LiveLists, MembersOK
<1>2. \A u \in Waiters(e) : OSTCBPrio[u] = OSTCBPrio[t] => u = t
  BY WaitersLive, OwnNumber
<1> QED
  BY <1>1, <1>2 DEF Waiters

\* A service that changes the state of one task puts it in the lists or takes it
\* out, as it is to be.
LEMMA OneLive ==
  ASSUME PrioTblInv, LiveLists, NEW x \in Task, ~Dead(x), x \notin Newborn,
         UNCHANGED <<OSTCBPrio, createVars>>, FieldTypeOK', CallOK(x)',
         Creating(x) => pc'[x] = "task",
         \A u \in AllTask : u # x => UNCHANGED <<OSTCBStat[u], OSTCBStatPend[u], OSTCBDly[u],
                                                 OSTCBEventPtr[u], pevent[u]>>,
         \A u \in Task : u # x => /\ InPendCall(u)' <=> InPendCall(u)
                                  /\ Creating(u) \/ u \in Newborn => pc'[u] = pc[u],
         OSRdyTbl' = IF Free(x)' THEN OSRdyTbl \cup {OSTCBPrio[x]}
                                 ELSE OSRdyTbl \ {OSTCBPrio[x]},
         \A e \in Event : OSEventTbl'[e] = IF Waits(x, e)' THEN OSEventTbl[e] \cup {OSTCBPrio[x]}
                                                           ELSE OSEventTbl[e] \ {OSTCBPrio[x]}
  PROVE  LiveLists'
<1>1. x \in AllTask /\ Task \subseteq AllTask
  BY OwnNumber
<1>2. \A u \in AllTask : /\ (Dead(u)' <=> Dead(u)) /\ ((u \in Newborn)' <=> u \in Newborn)
  BY DEF Dead, Newborn, createVars
<1>3. ASSUME NEW u \in Task
      PROVE  PlaceOK(u)' /\ CallOK(u)' /\ (u # x => \A e \in Event : Waits(u, e)' <=> Waits(u, e))
  <2>1. PlaceOK(u) /\ CallOK(u)
    BY DEF LiveLists
  <2>2. CASE u = x
    <3>1. PlaceOK(x)'
      BY <2>1, <2>2 DEF PlaceOK, Dead, Creating, Newborn, createVars
    <3> QED
      BY <2>2, <3>1
  <2>3. CASE u # x
    <3>1. UNCHANGED <<OSTCBStat[u], OSTCBStatPend[u], OSTCBDly[u], OSTCBEventPtr[u], pevent[u]>>
      BY <1>1, <2>3
    <3>2. InPendCall(u)' <=> InPendCall(u)
      BY <2>3
    <3>3. CallOK(u)' /\ \A e \in Event : Waits(u, e)' <=> Waits(u, e)
      BY <2>1, <3>1, <3>2 DEF CallOK, Waits, Dead
    <3>4. PlaceOK(u)'
      BY <2>1, <2>3, <3>1, <3>2 DEF PlaceOK, Dead, Creating, Newborn, Free, createVars
    <3> QED
      BY <3>3, <3>4
  <2> QED
    BY <2>2, <2>3
<1>4. ReadyTasks' = IF Free(x)' THEN ReadyTasks \cup {x} ELSE ReadyTasks \ {x}
  <2>1. \A u \in AllTask : u # x => (Free(u)' <=> Free(u))
    BY DEF Free
  <2>2. \A u \in AllTask : u # x => (u \in ReadyTasks' <=> u \in ReadyTasks)
    BY <1>2, <2>1 DEF ReadyTasks
  <2>3. x \in ReadyTasks' <=> Free(x)'
    BY <1>1, <1>2 DEF ReadyTasks
  <2>4. ReadyTasks \subseteq AllTask /\ ReadyTasks' \subseteq AllTask
    BY DEF ReadyTasks
  <2> QED
    BY <1>1, <2>2, <2>3, <2>4
<1>5. \A e \in Event : Waiters(e)' = IF Waits(x, e)' THEN Waiters(e) \cup {x} ELSE Waiters(e) \ {x}
  BY <1>3 DEF Waiters
<1>7. OSRdyTbl' = {OSTCBPrio'[t] : t \in ReadyTasks'}
  <2>1. PICK S : S = ReadyTasks /\ S \subseteq AllTask
    BY DEF ReadyTasks
  <2>2. OSRdyTbl = {OSTCBPrio[t] : t \in S}
    BY <2>1 DEF LiveLists, MembersOK
  <2>3. OSRdyTbl' = {OSTCBPrio[t] : t \in IF Free(x)' THEN S \cup {x} ELSE S \ {x}}
    BY <1>1, <2>1, <2>2, NumbersOne
  <2> QED
    BY <1>4, <2>1, <2>3
<1>8. ASSUME NEW e \in Event
      PROVE  OSEventTbl'[e] = {OSTCBPrio'[t] : t \in Waiters(e)'}
  <2>1. PICK S : S = Waiters(e) /\ S \subseteq AllTask
    BY <1>1, WaitersLive
  <2>2. OSEventTbl[e] = {OSTCBPrio[t] : t \in S}
    BY <2>1 DEF LiveLists, MembersOK
  <2>3. /\ {OSTCBPrio[t] : t \in S \ {x}} = OSEventTbl[e] \ {OSTCBPrio[x]}
        /\ {OSTCBPrio[t] : t \in S \cup {x}} = OSEventTbl[e] \cup {OSTCBPrio[x]}
    BY <1>1, <2>1, <2>2, NumbersOne
  <2>4. CASE Waits(x, e)'
    <3>1. OSEventTbl'[e] = OSEventTbl[e] \cup {OSTCBPrio[x]} /\ Waiters(e)' = S \cup {x}
      BY <1>5, <2>1, <2>4 DEF Waits
    <3> QED
      BY <2>3, <3>1
  <2>5. CASE ~Waits(x, e)'
    <3>1. OSEventTbl'[e] = OSEventTbl[e] \ {OSTCBPrio[x]} /\ Waiters(e)' = S \ {x}
      BY <1>5, <2>1, <2>5 DEF Waits
    <3> QED
      BY <2>3, <3>1
  <2> QED
    BY <2>4, <2>5
<1>9. Free(IdleTask)' /\ BirthOK'
  BY OwnNumber DEF LiveLists, Free, BirthOK, createVars
<1> QED
  BY <1>3, <1>7, <1>8, <1>9 DEF LiveLists, MembersOK

\* A number is changed where it is listed.
LEMMA NumbersRenamed ==
  ASSUME NEW P, NEW Q, NEW S, NEW u, NEW n,
         \A t \in S : Q[t] = IF t = u THEN n ELSE P[t],
         \A t \in S : P[t] = P[u] => t = u
  PROVE  {Q[t] : t \in S} = IF u \in S THEN ({P[t] : t \in S} \ {P[u]}) \cup {n}
                                       ELSE {P[t] : t \in S}
<1>1. CASE u \notin S
  BY <1>1
<1>2. CASE u \in S
  <2>1. \A t \in S : t # u => Q[t] = P[t] /\ P[t] # P[u]
    OBVIOUS
  <2>2. Q[u] = n
    BY <1>2
  <2>3. {Q[t] : t \in S} \subseteq ({P[t] : t \in S} \ {P[u]}) \cup {n}
    BY <2>1, <2>2
  <2>4. ({P[t] : t \in S} \ {P[u]}) \cup {n} \subseteq {Q[t] : t \in S}
    BY <1>2, <2>1, <2>2
  <2> QED
    BY <1>2, <2>3, <2>4
<1> QED
  BY <1>1, <1>2

-----------------------------------------------------------------------------
(* The services of the kernel and of the semaphores *)

LEMMA ListStays ==
  ASSUME PrioTblInv, LiveLists, OSEventTbl' = OSEventTbl, NEW x \in Task, ~Dead(x),
         \A e \in Event : Waits(x, e)' <=> Waits(x, e)
  PROVE  \A e \in Event : OSEventTbl'[e] = IF Waits(x, e)' THEN OSEventTbl[e] \cup {OSTCBPrio[x]}
                                                           ELSE OSEventTbl[e] \ {OSTCBPrio[x]}
<1> SUFFICES ASSUME NEW e \in Event
             PROVE  OSEventTbl'[e] = IF Waits(x, e)' THEN OSEventTbl[e] \cup {OSTCBPrio[x]}
                                                     ELSE OSEventTbl[e] \ {OSTCBPrio[x]}
  OBVIOUS
<1>1. OSTCBPrio[x] \in OSEventTbl[e] <=> Waits(x, e)
  BY ListedWaits
<1>2. Waits(x, e)' <=> Waits(x, e)
  OBVIOUS
<1>3. CASE Waits(x, e)
  BY <1>1, <1>2, <1>3
<1>4. CASE ~Waits(x, e)
  BY <1>1, <1>2, <1>4
<1> QED
  BY <1>3, <1>4

\* OS_Sched, the last thing a service does.
LEMMA SchedLive ==
  ASSUME LiveInv, NEW t \in Task, ~Creating(t), OS_Sched(t), UNCHANGED createVars
  PROVE  LiveLists' /\ LiveRun'
<1>1. /\ OSTCBCur = t /\ isr = "none" /\ ~pendSV /\ pc[t] \in {"sched", "pendsched"}
      /\ pc' = [pc EXCEPT ![t] = IF pc[t] = "pendsched" THEN "wake" ELSE "task"]
      /\ UNCHANGED <<OSRdyTbl, nestVars, OSTCBPrio, tcbVars, OSEventTbl, pevent>>
  BY DEF OS_Sched, Running
<1>2. t \in AllTask /\ pc \in [AllTask -> Pc]
  BY OwnNumber DEF LiveInv, LiveLists, FieldTypeOK
<1>3. SameCalls
  <2>1. t \notin Newborn
    BY <1>1 DEF LiveInv, LiveLists, PlaceOK
  <2> QED
    BY <1>1, <1>2, <2>1 DEF SameCalls, InPendCall, Pc
<1>4. LiveLists'
  BY <1>1, <1>3, SameLive DEF LiveInv
<1>5. CASE OSLockNesting = 0
  <2>1. SwitchToHighest
    BY <1>1, <1>5 DEF OS_Sched, LiveInv, LiveRun, NestInv
  <2>2. /\ OSTCBHighRdy' \in AllTask /\ IsHighest(OSTCBHighRdy)'
        /\ OSPrioHighRdy' = OSTCBPrio'[OSTCBHighRdy']
        /\ OSTCBCur' = OSTCBCur /\ pendSV' \in BOOLEAN
        /\ ~pendSV' => IsHighest(OSTCBCur)' /\ OSPrioCur' = OSTCBPrio'[OSTCBCur']
    BY <1>1, <2>1, SwitchLive DEF LiveInv, LiveRun
  <2> QED
    BY <1>1, <1>4, <1>5, <2>2 DEF LiveInv, LiveRun, SwTypes, NestInv, CurrentInv, HolderInv,
       DueInv, nestVars
<1>6. CASE OSLockNesting # 0
  <2>1. UNCHANGED swVars /\ OSLockNesting' = OSLockNesting /\ OSLockNesting > 0
    BY <1>1, <1>6 DEF OS_Sched, nestVars, LiveInv, LiveRun, SwTypes
  <2>2. OSPrioCur = OSTCBPrio[t] /\ ~Dead(t) /\ t \notin Newborn /\ pc'[t] = "task"
    BY <1>1, <1>2, <2>1 DEF LiveInv, LiveRun, CurrentInv, Renamed, HolderInv
  <2>3. SwTypes' /\ NestInv' /\ CurrentInv' /\ HolderInv' /\ DueInv'
    BY <1>1, <1>6, <2>1, <2>2 DEF LiveInv, LiveRun, SwTypes, NestInv, CurrentInv, HolderInv,
       DueInv, swVars, nestVars, Dead, Newborn, createVars
  <2> QED
    BY <1>4, <2>3 DEF LiveRun
<1> QED
  BY <1>5, <1>6

LEMMA LockLive ==
  ASSUME LiveInv, NEW t \in Task, ~Creating(t), OSSchedLock(t) \/ OSSchedUnlock(t),
         UNCHANGED createVars
  PROVE  LiveLists' /\ LiveRun'
<1>1. /\ Running(t) /\ OSTCBCur = t /\ isr = "none" /\ ~pendSV /\ pc[t] = "task"
      /\ UNCHANGED <<OSRdyTbl, swVars, OSIntNesting, isr, OSTCBPrio, tcbVars, OSEventTbl, pevent>>
      /\ \/ OSLockNesting' = OSLockNesting + 1 /\ pc' = pc
         \/ /\ OSLockNesting > 0 /\ OSLockNesting' = OSLockNesting - 1
            /\ pc' = IF OSLockNesting' = 0 THEN [pc EXCEPT ![t] = "sched"] ELSE pc
  BY DEF OSSchedLock, OSSchedUnlock, Running, callVars
<1>2. t \in AllTask /\ pc \in [AllTask -> Pc] /\ OSLockNesting \in Nat
  BY OwnNumber DEF LiveInv, LiveLists, FieldTypeOK, LiveRun, SwTypes
<1>3. ~Dead(t) /\ t \notin Newborn /\ OSPrioCur = OSTCBPrio[t]
  BY <1>1, RunnerLives
<1>4. SameCalls
  <2>1. CASE pc' = pc
    BY <1>2, <2>1 DEF SameCalls, InPendCall
  <2>2. CASE pc' = [pc EXCEPT ![t] = "sched"]
    BY <1>1, <1>2, <1>3, <2>2 DEF SameCalls, InPendCall, Pc
  <2> QED
    BY <1>1, <2>1, <2>2
<1>5. LiveLists'
  BY <1>1, <1>4, SameLive DEF LiveInv
<1>6. OSLockNesting' \in Nat /\ (OSLockNesting' = 0 => pc'[t] = "sched")
      /\ pc'[t] \in {"task", "sched"}
  BY <1>1, <1>2
<1>7. SwTypes' /\ NestInv' /\ CurrentInv' /\ HolderInv' /\ DueInv'
  BY <1>1, <1>3, <1>6 DEF LiveInv, LiveRun, SwTypes, NestInv, CurrentInv, HolderInv,
     DueInv, swVars, Dead, Newborn, createVars
<1> QED
  BY <1>5, <1>7 DEF LiveRun

LEMMA DelayLive ==
  ASSUME LiveInv, NEW t \in Task, ~Creating(t), NEW n \in 1..MaxTicks, OSTimeDly(t, n),
         UNCHANGED createVars
  PROVE  LiveLists' /\ LiveRun'
<1>1. /\ Running(t) /\ pc[t] = "task" /\ OSLockNesting = 0 /\ n \in Nat \ {0}
      /\ OSRdyTbl' = OSRdyTbl \ {OSTCBPrio[t]}
      /\ OSTCBDly' = [OSTCBDly EXCEPT ![t] = n] /\ pc' = [pc EXCEPT ![t] = "sched"]
      /\ UNCHANGED <<swVars, nestVars, OSTCBPrio, OSTCBStat, OSTCBStatPend, OSTCBEventPtr,
                     OSEventTbl, pevent>>
  BY CoreAssumption DEF OSTimeDly
<1>2. t \in AllTask /\ FieldTypeOK /\ CallOK(t)
  BY OwnNumber DEF LiveInv, LiveLists
<1>3. ~Dead(t) /\ t \notin Newborn
  BY <1>1, RunnerLives
<1>4. FieldTypeOK'
  BY <1>1, <1>2 DEF FieldTypeOK, Pc
<1>5. CallOK(t)' /\ ~Free(t)' /\ \A e \in Event : Waits(t, e)' <=> Waits(t, e)
  BY <1>1, <1>2 DEF CallOK, InPendCall, Dead, Free, Waits, FieldTypeOK
<1>6. \A u \in AllTask : u # t => pc'[u] = pc[u] /\ OSTCBDly'[u] = OSTCBDly[u]
  BY <1>1, <1>2 DEF FieldTypeOK
<1>7. \A e \in Event : OSEventTbl'[e] = IF Waits(t, e)' THEN OSEventTbl[e] \cup {OSTCBPrio[t]}
                                                        ELSE OSEventTbl[e] \ {OSTCBPrio[t]}
  BY <1>1, <1>3, <1>5, ListStays DEF LiveInv
<1>8. \A u \in Task : u # t => /\ InPendCall(u)' <=> InPendCall(u)
                               /\ Creating(u) \/ u \in Newborn => pc'[u] = pc[u]
  BY <1>6, OwnNumber DEF InPendCall, LiveInv
<1>9. LiveLists'
  BY <1>1, <1>3, <1>4, <1>5, <1>6, <1>7, <1>8, OneLive DEF LiveInv
<1>10. pc'[t] = "sched"
  BY <1>1, <1>2 DEF FieldTypeOK
<1> QED
  BY <1>1, <1>9, <1>10, ServiceLive

LEMMA DlyResumeLive ==
  ASSUME LiveInv, NEW t \in Task, ~Creating(t), NEW u \in Task, OSTimeDlyResume(t, u),
         UNCHANGED createVars
  PROVE  LiveLists' /\ LiveRun'
<1>1. /\ Running(t) /\ pc[t] = "task" /\ OSTCBDly[u] # 0
      /\ OSTCBDly' = [OSTCBDly EXCEPT ![u] = 0] /\ DlyEnds({u})
      /\ pc' = IF "SUSPEND" \in OSTCBStat[u] THEN pc ELSE [pc EXCEPT ![t] = "sched"]
      /\ UNCHANGED <<swVars, nestVars, OSTCBPrio, OSTCBEventPtr, OSEventTbl, pevent>>
  BY DEF OSTimeDlyResume
<1>2. t \in AllTask /\ u \in AllTask /\ FieldTypeOK
  BY OwnNumber DEF LiveInv, LiveLists
<1>3. ~Dead(t) /\ t \notin Newborn /\ (OSLockNesting = 0 => IsHighest(t))
  BY <1>1, RunnerLives
<1>4. SameCalls /\ pc'[t] \in {"task", "sched"}
  BY <1>1, <1>2, <1>3 DEF SameCalls, InPendCall, FieldTypeOK, Pc
<1>5. LiveLists'
  <2>1. OSTCBDly' \in [AllTask -> Nat]
        /\ \A v \in AllTask : OSTCBDly'[v] = 0 <=> OSTCBDly[v] = 0 \/ v \in {u}
    BY <1>1, <1>2 DEF FieldTypeOK
  <2>2. {u} \subseteq {v \in Task : OSTCBDly[v] # 0}
    BY <1>1
  <2> QED
    BY <1>1, <1>4, <2>1, <2>2, DlyEndsLive DEF LiveInv
<1>6. pc'[t] \in {"task", "wake"} => OSRdyTbl' = OSRdyTbl
  <2>1. pc'[t] \in {"task", "wake"} => "SUSPEND" \in OSTCBStat[u]
    BY <1>1, <1>2 DEF FieldTypeOK
  <2> QED
    BY <1>1, <2>1 DEF DlyEnds
<1>7. ~Dead(t)' /\ (t \notin Newborn)'
  BY <1>1, <1>3 DEF Dead, Newborn, createVars
<1> QED
  BY <1>1, <1>3, <1>4, <1>5, <1>6, <1>7, ServiceLive DEF IsHighest

LEMMA SuspendLive ==
  ASSUME LiveInv, NEW t \in Task, ~Creating(t), NEW u \in Task, u \notin Newborn,
         OSTaskSuspend(t, u), UNCHANGED createVars
  PROVE  LiveLists' /\ LiveRun'
<1>1. /\ Running(t) /\ pc[t] = "task" /\ OSTCBPrio[u] \in AllPrio
      /\ OSRdyTbl' = OSRdyTbl \ {OSTCBPrio[u]}
      /\ OSTCBStat' = [OSTCBStat EXCEPT ![u] = @ \cup {"SUSPEND"}]
      /\ pc' = IF u = t THEN [pc EXCEPT ![t] = "sched"] ELSE pc
      /\ UNCHANGED <<swVars, nestVars, OSTCBPrio, OSTCBStatPend, OSTCBDly, OSTCBEventPtr,
                     OSEventTbl, pevent>>
  BY DEF OSTaskSuspend
<1>2. t \in AllTask /\ u \in AllTask /\ FieldTypeOK /\ CallOK(u) /\ PlaceOK(u)
  BY OwnNumber DEF LiveInv, LiveLists
<1>3. ~Dead(t) /\ t \notin Newborn /\ (OSLockNesting = 0 => IsHighest(t))
  BY <1>1, RunnerLives
<1>4. ~Dead(u)
  BY <1>1, PrioKinds DEF Dead, AllPrio
<1>5. \A v \in Task : /\ InPendCall(v)' <=> InPendCall(v)
                      /\ Creating(v) \/ v \in Newborn => pc'[v] = pc[v]
  BY <1>1, <1>2, <1>3 DEF InPendCall, FieldTypeOK, Pc
<1>6. FieldTypeOK'
  BY <1>1, <1>2 DEF FieldTypeOK, Pc, Flag
<1>7. OSTCBStat'[u] = OSTCBStat[u] \cup {"SUSPEND"}
      /\ \A v \in AllTask : v # u => OSTCBStat'[v] = OSTCBStat[v]
  BY <1>1, <1>2 DEF FieldTypeOK
<1>8. ~Free(u)' /\ ("PEND" \in OSTCBStat'[u] <=> "PEND" \in OSTCBStat[u])
      /\ (InPendCall(u)' <=> InPendCall(u))
  BY <1>5, <1>7 DEF Free
<1>9. CallOK(u)' /\ \A e \in Event : Waits(u, e)' <=> Waits(u, e)
  BY <1>1, <1>2, <1>8 DEF CallOK, Dead, Waits
<1>10. \A e \in Event : OSEventTbl'[e] = IF Waits(u, e)' THEN OSEventTbl[e] \cup {OSTCBPrio[u]}
                                                         ELSE OSEventTbl[e] \ {OSTCBPrio[u]}
  BY <1>1, <1>4, <1>9, ListStays DEF LiveInv
<1>11. Creating(u) => pc'[u] = "task"
  BY <1>1, <1>2 DEF PlaceOK
<1>12. LiveLists'
  BY <1>1, <1>4, <1>5, <1>6, <1>7, <1>8, <1>9, <1>10, <1>11, OneLive DEF LiveInv
<1>13. OSLockNesting = 0 /\ pc'[t] \in {"task", "wake"} => IsHighest(t)'
  <2>1. pc'[t] \in {"task", "wake"} => u # t
    BY <1>1, <1>2 DEF FieldTypeOK
  <2>2. u # t => OSTCBPrio[u] # OSTCBPrio[t]
    BY <1>2, <1>4, OwnNumber DEF LiveInv
  <2> QED
    BY <1>1, <1>3, <2>1, <2>2 DEF IsHighest
<1>14. ~Dead(t)' /\ (t \notin Newborn)' /\ pc'[t] \in {"task", "sched"}
  BY <1>1, <1>2, <1>3 DEF Dead, Newborn, createVars, FieldTypeOK
<1> QED
  BY <1>1, <1>12, <1>13, <1>14, ServiceLive

LEMMA ResumeLive ==
  ASSUME LiveInv, NEW t \in Task, ~Creating(t), NEW u \in Task, OSTaskResume(t, u),
         UNCHANGED createVars
  PROVE  LiveLists' /\ LiveRun'
<1> DEFINE ready == OSTCBStat[u] = {"SUSPEND"} /\ OSTCBDly[u] = 0
<1>1. /\ Running(t) /\ pc[t] = "task" /\ "SUSPEND" \in OSTCBStat[u]
      /\ OSTCBStat' = [OSTCBStat EXCEPT ![u] = @ \ {"SUSPEND"}]
      /\ OSRdyTbl' = IF ready THEN OSRdyTbl \cup {OSTCBPrio[u]} ELSE OSRdyTbl
      /\ pc' = IF ready THEN [pc EXCEPT ![t] = "sched"] ELSE pc
      /\ UNCHANGED <<swVars, nestVars, OSTCBPrio, OSTCBStatPend, OSTCBDly, OSTCBEventPtr,
                     OSEventTbl, pevent>>
  BY DEF OSTaskResume
<1>2. t \in AllTask /\ u \in AllTask /\ FieldTypeOK /\ CallOK(u) /\ PlaceOK(u)
  BY OwnNumber DEF LiveInv, LiveLists
<1>3. ~Dead(t) /\ t \notin Newborn /\ (OSLockNesting = 0 => IsHighest(t))
  BY <1>1, RunnerLives
<1>4. ~Dead(u) /\ u \notin Newborn /\ ~Free(u)
  BY <1>1, <1>2 DEF PlaceOK, Free
<1>5. \A v \in Task : /\ InPendCall(v)' <=> InPendCall(v)
                      /\ Creating(v) \/ v \in Newborn => pc'[v] = pc[v]
  BY <1>1, <1>2, <1>3 DEF InPendCall, FieldTypeOK, Pc
<1>6. FieldTypeOK'
  BY <1>1, <1>2 DEF FieldTypeOK, Pc, Flag
<1>7. OSTCBStat'[u] = OSTCBStat[u] \ {"SUSPEND"}
      /\ \A v \in AllTask : v # u => OSTCBStat'[v] = OSTCBStat[v]
  BY <1>1, <1>2 DEF FieldTypeOK
<1>8. (Free(u)' <=> ready) /\ ("PEND" \in OSTCBStat'[u] <=> "PEND" \in OSTCBStat[u])
      /\ (InPendCall(u)' <=> InPendCall(u))
  BY <1>1, <1>5, <1>7 DEF Free
<1>9. CallOK(u)' /\ \A e \in Event : Waits(u, e)' <=> Waits(u, e)
  BY <1>1, <1>2, <1>8 DEF CallOK, Dead, Waits
<1>10. \A e \in Event : OSEventTbl'[e] = IF Waits(u, e)' THEN OSEventTbl[e] \cup {OSTCBPrio[u]}
                                                         ELSE OSEventTbl[e] \ {OSTCBPrio[u]}
  BY <1>1, <1>4, <1>9, ListStays DEF LiveInv
<1>11. Creating(u) => pc'[u] = "task"
  BY <1>1, <1>2 DEF PlaceOK
<1>12. OSRdyTbl' = IF Free(u)' THEN OSRdyTbl \cup {OSTCBPrio[u]} ELSE OSRdyTbl \ {OSTCBPrio[u]}
  <2>1. OSTCBPrio[u] \notin OSRdyTbl
    BY <1>2, <1>4, ReadyFacts DEF LiveInv, ReadyTasks
  <2> QED
    BY <1>1, <1>8, <2>1
<1> HIDE DEF ready
<1>13. LiveLists'
  BY <1>1, <1>4, <1>5, <1>6, <1>7, <1>9, <1>10, <1>11, <1>12, OneLive DEF LiveInv
<1>14. ~Dead(t)' /\ (t \notin Newborn)' /\ pc'[t] \in {"task", "sched"}
      /\ (pc'[t] \in {"task", "wake"} => OSRdyTbl' = OSRdyTbl)
  BY <1>1, <1>2, <1>3 DEF Dead, Newborn, createVars, FieldTypeOK
<1> QED
  BY <1>1, <1>3, <1>13, <1>14, ServiceLive DEF IsHighest

LEMMA CoreTaskLive ==
  ASSUME LiveInv, NEW t \in Task, ~Creating(t), CoreTask(t), UNCHANGED createVars,
         \A u \in Newborn : OSTCBStat'[u] = OSTCBStat[u]
  PROVE  LiveLists' /\ LiveRun'
<1>1. ASSUME NEW u \in Task, OSTaskSuspend(t, u)
      PROVE  LiveLists' /\ LiveRun'
  <2>1. u \notin Newborn
    <3>1. OSTCBStat'[u] = OSTCBStat[u] \cup {"SUSPEND"}
      BY <1>1, OwnNumber DEF OSTaskSuspend, LiveInv, LiveLists, FieldTypeOK
    <3>2. u \in Newborn => OSTCBStat[u] = {}
      BY DEF LiveInv, LiveLists, PlaceOK, Free
    <3> QED
      BY <3>1, <3>2
  <2> QED
    BY <1>1, <2>1, SuspendLive
<1> QED
  BY <1>1, SchedLive, LockLive, DelayLive, DlyResumeLive, ResumeLive DEF CoreTask

\* A service that changes counts only.
LEMMA CountLive ==
  ASSUME LiveInv, NEW t \in Task, InTask(t), UNCHANGED <<coreVars, createVars>>
  PROVE  LiveLists' /\ LiveRun'
<1>1. /\ Running(t) /\ pc[t] = "task"
      /\ UNCHANGED <<OSRdyTbl, swVars, nestVars, OSTCBPrio, tcbVars, OSEventTbl, pc, pevent>>
  BY DEF InTask, coreVars, callVars
<1>2. SameCalls
  BY <1>1 DEF SameCalls, InPendCall, LiveInv, LiveLists, FieldTypeOK
<1>3. LiveLists'
  BY <1>1, <1>2, SameLive DEF LiveInv
<1>4. ~Dead(t) /\ t \notin Newborn /\ (OSLockNesting = 0 => IsHighest(t))
  BY <1>1, RunnerLives
<1>5. ~Dead(t)' /\ (t \notin Newborn)' /\ (OSLockNesting = 0 => IsHighest(t)')
  BY <1>1, <1>4 DEF Dead, Newborn, IsHighest, createVars
<1> QED
  BY <1>1, <1>3, <1>5, ServiceLive

LEMMA PostWakes ==
  ASSUME PrioTblInv, LiveLists, SameCalls, NEW e \in Event, Post(e),
         UNCHANGED <<OSTCBPrio, pevent, createVars>>
  PROVE  LiveLists'
<1>1. CASE OSEventTbl[e] # {} /\ OS_EventTaskRdy(e, {Highest(OSEventTbl[e])}, "OK")
  <2>1. OSEventTbl[e] = {OSTCBPrio[t] : t \in Waiters(e)}
    BY DEF LiveLists, MembersOK
  <2>2. OSEventTbl[e] \subseteq Nat
    BY <2>1, WaitersLive, OwnNumber
  <2>3. {Highest(OSEventTbl[e])} \subseteq OSEventTbl[e]
    BY <1>1, <2>2, HighestIsLeast
  <2> QED
    BY <1>1, <2>3, WakeLive
<1>2. CASE UNCHANGED <<OSRdyTbl, tcbVars, OSEventTbl>>
  BY <1>2, SameLive
<1> QED
  BY <1>1, <1>2 DEF Post

LEMMA PostLive ==
  ASSUME LiveInv, NEW t \in Task, ~Creating(t), NEW e \in Event,
         OSSemPost(t, e) \/ \E opt \in {"NONE", "BROADCAST"} : OSSemPendAbort(t, e, opt),
         UNCHANGED createVars
  PROVE  LiveLists' /\ LiveRun'
<1>1. /\ Running(t) /\ pc[t] = "task" /\ UNCHANGED <<swVars, nestVars, OSTCBPrio, pevent>>
      /\ pc' = pc \/ pc' = [pc EXCEPT ![t] = "sched"]
      /\ pc' # [pc EXCEPT ![t] = "sched"] => OSRdyTbl' = OSRdyTbl
  BY DEF OSSemPost, Post, OSSemPendAbort, InTask
<1>2. t \in AllTask /\ pc \in [AllTask -> Pc]
  BY OwnNumber DEF LiveInv, LiveLists, FieldTypeOK
<1>3. ~Dead(t) /\ t \notin Newborn /\ (OSLockNesting = 0 => IsHighest(t))
  BY <1>1, RunnerLives
<1>4. SameCalls
  <2>1. CASE pc' = pc
    BY <1>2, <2>1 DEF SameCalls, InPendCall
  <2>2. CASE pc' = [pc EXCEPT ![t] = "sched"]
    BY <1>1, <1>2, <1>3, <2>2 DEF SameCalls, InPendCall, Pc
  <2> QED
    BY <1>1, <2>1, <2>2
<1>5. LiveLists'
  <2>1. CASE OSSemPost(t, e)
    BY <1>1, <1>4, <2>1, PostWakes DEF OSSemPost, LiveInv
  <2>2. ASSUME NEW opt \in {"NONE", "BROADCAST"}, OSSemPendAbort(t, e, opt)
        PROVE  LiveLists'
    <3>1. PICK ps : /\ ps = IF opt = "BROADCAST" THEN OSEventTbl[e] ELSE {Highest(OSEventTbl[e])}
                    /\ OS_EventTaskRdy(e, ps, "ABORT") /\ OSEventTbl[e] # {}
      BY <2>2 DEF OSSemPendAbort
    <3>2. OSEventTbl[e] = {OSTCBPrio[u] : u \in Waiters(e)}
      BY DEF LiveInv, LiveLists, MembersOK
    <3>3. OSEventTbl[e] \subseteq Nat
      BY <3>2, WaitersLive, OwnNumber DEF LiveInv
    <3>4. ps \subseteq OSEventTbl[e]
      BY <3>1, <3>3, HighestIsLeast
    <3> QED
      BY <1>1, <1>4, <3>1, <3>4, WakeLive DEF LiveInv
  <2> QED
    BY <2>1, <2>2
<1>6. pc'[t] \in {"task", "sched"} /\ (pc'[t] \in {"task", "wake"} => OSRdyTbl' = OSRdyTbl)
  BY <1>1, <1>2
<1>7. ~Dead(t)' /\ (t \notin Newborn)'
  BY <1>1, <1>3 DEF Dead, Newborn, createVars
<1> QED
  BY <1>1, <1>3, <1>5, <1>6, <1>7, ServiceLive DEF IsHighest

LEMMA PendLive ==
  ASSUME LiveInv, NEW t \in Task, ~Creating(t), NEW e \in Event, NEW n \in 0..MaxTicks,
         OSSemPend(t, e, n), UNCHANGED createVars
  PROVE  LiveLists' /\ LiveRun'
<1>1. CASE UNCHANGED <<OSRdyTbl, tcbVars, OSEventTbl, callVars>>
  BY <1>1, CountLive DEF OSSemPend, coreVars
<1>2. CASE /\ OS_EventTaskWait(t, e, n) /\ pc' = [pc EXCEPT ![t] = "pendsched"]
           /\ pevent' = [pevent EXCEPT ![t] = e]
  <2>1. /\ Running(t) /\ pc[t] = "task" /\ OSLockNesting = 0 /\ n \in Nat
        /\ UNCHANGED <<swVars, nestVars, OSTCBPrio>>
    BY CoreAssumption DEF OSSemPend, InTask
  <2>2. /\ OSTCBStat' = [OSTCBStat EXCEPT ![t] = @ \cup {"PEND"}]
        /\ OSTCBStatPend' = [OSTCBStatPend EXCEPT ![t] = "OK"]
        /\ OSTCBDly' = [OSTCBDly EXCEPT ![t] = n]
        /\ OSTCBEventPtr' = [OSTCBEventPtr EXCEPT ![t] = e]
        /\ OSEventTbl' = [OSEventTbl EXCEPT ![e] = @ \cup {OSTCBPrio[t]}]
        /\ OSRdyTbl' = OSRdyTbl \ {OSTCBPrio[t]}
    BY <1>2 DEF OS_EventTaskWait
  <2>3. t \in AllTask /\ FieldTypeOK
    BY OwnNumber DEF LiveInv, LiveLists
  <2>4. ~Dead(t) /\ t \notin Newborn
    BY <2>1, RunnerLives
  <2>5. /\ OSTCBStat'[t] = OSTCBStat[t] \cup {"PEND"} /\ OSTCBStatPend'[t] = "OK"
        /\ OSTCBEventPtr'[t] = e /\ pevent'[t] = e /\ pc'[t] = "pendsched"
    BY <1>2, <2>2, <2>3 DEF FieldTypeOK
  <2>6. \A u \in AllTask : u # t => UNCHANGED <<OSTCBStat[u], OSTCBStatPend[u], OSTCBDly[u],
                                                OSTCBEventPtr[u], pevent[u], pc[u]>>
    BY <1>2, <2>2, <2>3 DEF FieldTypeOK
  <2>7. FieldTypeOK'
    <3>1. /\ OSTCBStat' \in [AllTask -> SUBSET Flag]
          /\ OSTCBStatPend' \in [AllTask -> PendResult]
          /\ OSTCBDly' \in [AllTask -> Nat] /\ pc' \in [AllTask -> Pc]
      BY <1>2, <2>1, <2>2, <2>3 DEF FieldTypeOK, Flag, PendResult, Pc
    <3>2. /\ OSTCBEventPtr' \in [AllTask -> Event \cup {NoEvent}]
          /\ pevent' \in [AllTask -> Event \cup {NoEvent}]
      BY <1>2, <2>2, <2>3 DEF FieldTypeOK
    <3>3. DOMAIN OSEventTbl' = Event /\ OSEventTbl' = [f \in Event |-> OSEventTbl'[f]]
      BY <2>2, <2>3 DEF FieldTypeOK
    <3> QED
      BY <3>1, <3>2, <3>3 DEF FieldTypeOK
  <2>8. CallOK(t)' /\ ~Free(t)' /\ \A f \in Event : Waits(t, f)' <=> f = e
    BY <2>5 DEF CallOK, InPendCall, Free, Waits
  <2>9. ASSUME NEW f \in Event
        PROVE  OSEventTbl'[f] = IF Waits(t, f)' THEN OSEventTbl[f] \cup {OSTCBPrio[t]}
                                                ELSE OSEventTbl[f] \ {OSTCBPrio[t]}
    <3>1. OSTCBPrio[t] \notin OSEventTbl[f]
      <4>1. ~Waits(t, f)
        BY <2>1 DEF Waits, InPendCall
      <4> QED
        BY <2>4, <4>1, ListedWaits DEF LiveInv
    <3>2. OSEventTbl'[f] = IF f = e THEN OSEventTbl[f] \cup {OSTCBPrio[t]} ELSE OSEventTbl[f]
      BY <2>2, <2>3 DEF FieldTypeOK
    <3>3. Waits(t, f)' <=> f = e
      BY <2>8 DEF Waits
    <3> QED
      BY <3>1, <3>2, <3>3
  <2>10. \A u \in Task : u # t => /\ InPendCall(u)' <=> InPendCall(u)
                                  /\ Creating(u) \/ u \in Newborn => pc'[u] = pc[u]
    BY <2>6, OwnNumber DEF InPendCall, LiveInv
  <2>11. LiveLists'
    BY <2>1, <2>2, <2>4, <2>6, <2>7, <2>8, <2>9, <2>10, OneLive DEF LiveInv
  <2> QED
    BY <2>1, <2>5, <2>11, ServiceLive
<1> QED
  BY <1>1, <1>2 DEF OSSemPend

LEMMA PendEndLive ==
  ASSUME LiveInv, NEW t \in Task, ~Creating(t), OSSemPendEnd(t), UNCHANGED createVars
  PROVE  LiveLists' /\ LiveRun'
<1>1. /\ Running(t) /\ pc[t] = "wake"
      /\ IF OSTCBStatPend[t] = "TO" THEN OS_EventTaskRemove(t, pevent[t]) ELSE UNCHANGED OSEventTbl
      /\ OSTCBStat' = [OSTCBStat EXCEPT ![t] = {}]
      /\ OSTCBStatPend' = [OSTCBStatPend EXCEPT ![t] = "OK"]
      /\ OSTCBEventPtr' = [OSTCBEventPtr EXCEPT ![t] = NoEvent]
      /\ pc' = [pc EXCEPT ![t] = "task"] /\ pevent' = [pevent EXCEPT ![t] = NoEvent]
      /\ UNCHANGED <<OSRdyTbl, swVars, nestVars, OSTCBPrio, OSTCBDly>>
  BY DEF OSSemPendEnd
<1>2. t \in AllTask /\ FieldTypeOK /\ CallOK(t)
  BY OwnNumber DEF LiveInv, LiveLists
<1>3. ~Dead(t) /\ t \notin Newborn /\ OSLockNesting = 0 /\ IsHighest(t) /\ t \in ReadyTasks
  BY <1>1, RunnerLives
<1>4. Free(t) /\ InPendCall(t) /\ pevent[t] \in Event
  BY <1>1, <1>2, <1>3 DEF ReadyTasks, CallOK, InPendCall
<1>5. /\ OSTCBStat'[t] = {} /\ OSTCBDly'[t] = 0 /\ OSTCBEventPtr'[t] = NoEvent
      /\ pc'[t] = "task"
  BY <1>1, <1>2, <1>4 DEF FieldTypeOK, Free
<1>6. \A u \in AllTask : u # t => UNCHANGED <<OSTCBStat[u], OSTCBStatPend[u], OSTCBDly[u],
                                              OSTCBEventPtr[u], pevent[u], pc[u]>>
  BY <1>1, <1>2 DEF FieldTypeOK
<1>7. FieldTypeOK'
  <2>1. /\ OSTCBStat' \in [AllTask -> SUBSET Flag]
        /\ OSTCBStatPend' \in [AllTask -> PendResult]
        /\ OSTCBDly' \in [AllTask -> Nat] /\ pc' \in [AllTask -> Pc]
    BY <1>1, <1>2 DEF FieldTypeOK, Flag, PendResult, Pc
  <2>2. /\ OSTCBEventPtr' \in [AllTask -> Event \cup {NoEvent}]
        /\ pevent' \in [AllTask -> Event \cup {NoEvent}]
    BY <1>1, <1>2 DEF FieldTypeOK
  <2>3. DOMAIN OSEventTbl' = Event /\ OSEventTbl' = [f \in Event |-> OSEventTbl'[f]]
    BY <1>1, <1>2 DEF FieldTypeOK, OS_EventTaskRemove
  <2> QED
    BY <2>1, <2>2, <2>3 DEF FieldTypeOK
<1>8. CallOK(t)' /\ Free(t)' /\ \A f \in Event : ~Waits(t, f)'
  BY <1>5 DEF CallOK, InPendCall, Free, Waits
<1>9. ASSUME NEW f \in Event
      PROVE  OSEventTbl'[f] = IF Waits(t, f)' THEN OSEventTbl[f] \cup {OSTCBPrio[t]}
                                              ELSE OSEventTbl[f] \ {OSTCBPrio[t]}
  <2>1. OSTCBPrio[t] \in OSEventTbl[f] <=> Waits(t, f)
    BY <1>3, ListedWaits DEF LiveInv
  <2>2. Waits(t, f) <=> f = pevent[t] /\ OSTCBStatPend[t] = "TO"
    BY <1>4 DEF Waits, Free
  <2>3. OSEventTbl'[f] = IF f = pevent[t] /\ OSTCBStatPend[t] = "TO"
                         THEN OSEventTbl[f] \ {OSTCBPrio[t]} ELSE OSEventTbl[f]
    BY <1>1, <1>2, <1>4 DEF OS_EventTaskRemove, FieldTypeOK
  <2>4. ~Waits(t, f)'
    BY <1>8 DEF Waits
  <2> QED
    BY <2>1, <2>2, <2>3, <2>4
<1>10. OSRdyTbl' = OSRdyTbl \cup {OSTCBPrio[t]}
  BY <1>1, <1>3 DEF IsHighest
<1>11. \A u \in Task : u # t => /\ InPendCall(u)' <=> InPendCall(u)
                                /\ Creating(u) \/ u \in Newborn => pc'[u] = pc[u]
  BY <1>6, OwnNumber DEF InPendCall, LiveInv
<1>12. LiveLists'
  BY <1>1, <1>3, <1>5, <1>6, <1>7, <1>8, <1>9, <1>10, <1>11, OneLive DEF LiveInv
<1>13. IsHighest(t)'
  BY <1>1, <1>3 DEF IsHighest
<1> QED
  BY <1>1, <1>3, <1>5, <1>12, <1>13, ServiceLive

LEMMA SemTaskLive ==
  ASSUME LiveInv, NEW t \in Task, ~Creating(t), SemTask(t), UNCHANGED createVars
  PROVE  LiveLists' /\ LiveRun'
<1>1. ASSUME NEW e \in Event, OSSemAccept(t, e) \/ \E n \in 0..MaxCnt : OSSemSet(t, e, n)
      PROVE  LiveLists' /\ LiveRun'
  BY <1>1, CountLive DEF OSSemAccept, OSSemSet
<1> QED
  BY <1>1, PendEndLive, PendLive, PostLive DEF SemTask

LEMMA HandlersLive ==
  ASSUME LiveInv, SysTick_Handler \/ Kernel, UNCHANGED createVars
  PROVE  LiveLists' /\ LiveRun'
<1>1. pc' = pc => SameCalls
  BY DEF SameCalls, InPendCall, LiveInv, LiveLists, FieldTypeOK
<1>2. CASE SysTick_Handler
  <2>1. /\ isr = "none" /\ isr' = "tick" /\ OSIntNesting' = (OSIntNesting + 1) % 256
        /\ UNCHANGED <<OSLockNesting, swVars, OSTCBPrio, pc, pevent>>
    BY <1>2 DEF SysTick_Handler, SysTickEnter, callVars
  <2>2. LiveLists'
    <3>1. CASE Post(OSTmrSemSignal)
      BY <1>1, <2>1, <3>1, PostWakes, SemAssumption DEF LiveInv
    <3>2. CASE UNCHANGED <<OSRdyTbl, tcbVars, OSEventTbl>>
      BY <1>1, <2>1, <3>2, SameLive DEF LiveInv
    <3> QED
      BY <1>2, <3>1, <3>2 DEF SysTick_Handler
  <2>3. OSIntNesting' = 1
    BY <2>1 DEF LiveInv, LiveRun, NestInv
  <2> QED
    BY <2>1, <2>2, <2>3 DEF LiveInv, LiveRun, SwTypes, NestInv, CurrentInv, Renamed, HolderInv,
       DueInv, swVars, Dead, Newborn, createVars
<1>3. CASE PendSV_Handler
  <2>1. /\ pendSV /\ isr = "none" /\ pendSV' = FALSE
        /\ OSPrioCur' = OSPrioHighRdy /\ OSTCBCur' = OSTCBHighRdy /\ OSTCBHighRdy' = OSTCBHighRdy
        /\ UNCHANGED <<OSRdyTbl, nestVars, OSTCBPrio, tcbVars, OSEventTbl, pc, pevent>>
    BY <1>3 DEF PendSV_Handler, callVars
  <2>2. LiveLists'
    BY <1>1, <2>1, SameLive DEF LiveInv
  <2>3. OSLockNesting = 0
    BY <2>1 DEF LiveInv, LiveRun, SwTypes, HolderInv
  <2>4. IsHighest(OSTCBHighRdy) /\ OSPrioHighRdy = OSTCBPrio[OSTCBHighRdy]
    BY <2>1, <2>3 DEF LiveInv, LiveRun, DueInv
  <2>5. IsHighest(OSTCBCur)'
    BY <2>1, <2>4 DEF IsHighest
  <2> QED
    BY <2>1, <2>2, <2>3, <2>4, <2>5 DEF LiveInv, LiveRun, SwTypes, NestInv, CurrentInv,
       HolderInv, DueInv, nestVars
<1>4. CASE OSTimeTick
  <2> DEFINE counting == {t \in Task : OSTCBDly[t] # 0}
             T == {t \in counting : OSTCBDly[t] = 1}
  <2>1. /\ isr = "tick" /\ isr' = "exit"
        /\ OSTCBDly' = [t \in AllTask |-> IF t \in counting THEN OSTCBDly[t] - 1 ELSE OSTCBDly[t]]
        /\ DlyEnds(T)
        /\ UNCHANGED <<swVars, OSIntNesting, OSLockNesting, OSTCBPrio, OSTCBEventPtr,
                       OSEventTbl, pc, pevent>>
    BY <1>4 DEF OSTimeTick, callVars
  <2>2. OSTCBDly \in [AllTask -> Nat] /\ OSTCBDly[IdleTask] = 0
    BY DEF LiveInv, LiveLists, FieldTypeOK, Free
  <2>3. ASSUME NEW t \in AllTask
        PROVE  /\ OSTCBDly'[t] \in Nat
               /\ OSTCBDly'[t] = 0 <=> OSTCBDly[t] = 0 \/ t \in T
    <3>1. OSTCBDly[t] \in Nat /\ (OSTCBDly[t] # 0 => t \in counting)
      BY <2>2 DEF AllTask
    <3>2. OSTCBDly'[t] = IF t \in counting THEN OSTCBDly[t] - 1 ELSE OSTCBDly[t]
      BY <2>1
    <3> QED
      BY <3>1, <3>2
  <2>4. OSTCBDly' \in [AllTask -> Nat]
    <3>1. OSTCBDly' = [t \in AllTask |-> OSTCBDly'[t]]
      BY <2>1
    <3> QED
      BY <2>3, <3>1
  <2>5. T \subseteq {t \in Task : OSTCBDly[t] # 0}
    OBVIOUS
  <2> HIDE DEF counting, T
  <2>6. LiveLists'
    BY <1>1, <2>1, <2>3, <2>4, <2>5, DlyEndsLive DEF LiveInv
  <2> QED
    BY <2>1, <2>6 DEF LiveInv, LiveRun, SwTypes, NestInv, CurrentInv, Renamed, HolderInv,
       DueInv, swVars, Dead, Newborn, createVars
<1>5. CASE SysTickExit \/ DeviceIRQ
  <2>1. /\ isr \in {"none", "exit"} /\ isr' = "none" /\ OSIntExit
        /\ UNCHANGED <<OSRdyTbl, OSLockNesting, OSTCBPrio, tcbVars, OSEventTbl, callVars>>
    BY <1>5 DEF SysTickExit, DeviceIRQ
  <2>2. LiveLists'
    BY <1>1, <2>1, SameLive DEF LiveInv, callVars
  <2> QED
    BY <2>1, <2>2, ExitLive
<1> QED
  BY <1>2, <1>3, <1>4, <1>5 DEF Kernel

-----------------------------------------------------------------------------
(* The services of os_task.c *)

LEMMA ChangeLive ==
  ASSUME Careful, LiveInv, NEW t \in Task, ~Creating(t), NEW u \in Task, NEW p \in Prio,
         OSTaskChangePrio(t, u, p)
  PROVE  LiveLists' /\ LiveRun'
<1>1. /\ Running(t) /\ pc[t] = "task" /\ ~Dead(u) /\ FreePrio(p)
      /\ ~PendEnded(u) /\ u \notin Newborn /\ (u = t => OSLockNesting = 0)
      /\ OSTCBPrio' = [OSTCBPrio EXCEPT ![u] = p]
      /\ OSRdyTbl' = IF OSTCBPrio[u] \in OSRdyTbl THEN (OSRdyTbl \ {OSTCBPrio[u]}) \cup {p}
                                                  ELSE OSRdyTbl
      /\ OSEventTbl' = Relisted(u, p)
      /\ pc' = [pc EXCEPT ![t] = "sched"]
      /\ UNCHANGED <<swVars, nestVars, tcbVars, pevent, createVars>>
  BY DEF OSTaskChangePrio, InTask
<1>2. /\ t \in AllTask /\ u \in AllTask /\ FieldTypeOK /\ PlaceOK(u) /\ CallOK(u)
      /\ OSTCBPrio \in [AllTask -> Nat] /\ Task \subseteq AllTask
  BY OwnNumber DEF LiveInv, LiveLists, PrioTblInv, PrioTypeOK
<1>3. \A w \in AllTask : OSTCBPrio'[w] = IF w = u THEN p ELSE OSTCBPrio[w]
  BY <1>1, <1>2
<1>4. /\ \A w \in AllTask : Dead(w)' <=> Dead(w)
      /\ Newborn' = Newborn /\ \A w \in AllTask : Free(w)' <=> Free(w)
  BY <1>1, <1>3, PrioKinds DEF Dead, Newborn, Free, tcbVars, createVars
<1>5. t \notin Newborn /\ ~Dead(t) /\ SameCalls
  <2>1. t \notin Newborn /\ ~Dead(t)
    BY <1>1, RunnerLives
  <2> QED
    BY <1>1, <1>2, <2>1 DEF SameCalls, InPendCall, Pc, FieldTypeOK
<1>6. ASSUME NEW w \in Task
      PROVE  PlaceOK(w)' /\ CallOK(w)' /\ \A e \in Event : Waits(w, e)' <=> Waits(w, e)
  <2>1. PlaceOK(w) /\ CallOK(w) /\ w \in AllTask
    BY <1>2 DEF LiveInv, LiveLists
  <2>2. InPendCall(w)' <=> InPendCall(w)
    BY <1>5 DEF SameCalls
  <2>3. CallOK(w)' /\ \A e \in Event : Waits(w, e)' <=> Waits(w, e)
    BY <1>1, <1>4, <2>1, <2>2 DEF CallOK, Waits, tcbVars
  <2>4. PlaceOK(w)'
    BY <1>1, <1>4, <1>5, <2>1, <2>2 DEF PlaceOK, SameCalls, Creating, createVars
  <2> QED
    BY <2>3, <2>4
<1>7. ReadyTasks' = ReadyTasks /\ \A e \in Event : Waiters(e)' = Waiters(e)
  BY <1>4, <1>6 DEF ReadyTasks, Waiters
<1>8. \A w \in AllTask : OSTCBPrio[w] = OSTCBPrio[u] => w = u
  BY <1>1, <1>2, OwnNumber DEF LiveInv
<1>9. OSRdyTbl' = {OSTCBPrio'[w] : w \in ReadyTasks'}
  <2>1. OSRdyTbl = {OSTCBPrio[w] : w \in ReadyTasks} /\ ReadyTasks \subseteq AllTask
    BY DEF LiveInv, LiveLists, MembersOK, ReadyTasks
  <2>2. OSTCBPrio[u] \in OSRdyTbl <=> u \in ReadyTasks
    BY <1>1, <1>2, ReadyFacts DEF LiveInv
  <2>3. PICK S : S = ReadyTasks
    OBVIOUS
  <2>4. {OSTCBPrio'[w] : w \in S} = IF u \in S THEN ({OSTCBPrio[w] : w \in S} \ {OSTCBPrio[u]}) \cup {p}
                                               ELSE {OSTCBPrio[w] : w \in S}
    BY <1>3, <1>8, <2>1, <2>3, NumbersRenamed
  <2> QED
    BY <1>1, <1>7, <2>1, <2>2, <2>3, <2>4
<1>10. ASSUME NEW e \in Event
       PROVE  OSEventTbl'[e] = {OSTCBPrio'[w] : w \in Waiters(e)'}
  <2>1. PICK S : S = Waiters(e) /\ S \subseteq AllTask
    BY <1>2, WaitersLive DEF LiveInv
  <2>2. OSEventTbl[e] = {OSTCBPrio[w] : w \in S}
    BY <2>1 DEF LiveInv, LiveLists, MembersOK
  <2>3. {OSTCBPrio'[w] : w \in S} = IF u \in S THEN (OSEventTbl[e] \ {OSTCBPrio[u]}) \cup {p}
                                               ELSE OSEventTbl[e]
    BY <1>3, <1>8, <2>1, <2>2, NumbersRenamed
  <2>4. u \in S <=> Waits(u, e)
    BY <2>1 DEF Waiters
  <2>5. CASE OSTCBEventPtr[u] = NoEvent
    <3>1. ~InPendCall(u)
      BY <1>2, <2>5, CoreAssumption DEF CallOK
    <3>2. ~Waits(u, e)
      BY <3>1 DEF Waits
    <3>3. OSEventTbl' = OSEventTbl
      BY <1>1, <2>5 DEF Relisted
    <3> QED
      BY <1>7, <2>1, <2>3, <2>4, <3>2, <3>3
  <2>6. CASE OSTCBEventPtr[u] # NoEvent
    <3>1. InPendCall(u) /\ OSTCBEventPtr[u] = pevent[u]
          /\ ("PEND" \in OSTCBStat[u] \/ OSTCBStatPend[u] = "TO")
      BY <1>1, <1>2, <2>6 DEF CallOK, PendEnded, InPendCall
    <3>2. Waits(u, e) <=> e = OSTCBEventPtr[u]
      BY <3>1 DEF Waits
    <3>3. OSEventTbl'[e] = IF e = OSTCBEventPtr[u] THEN (OSEventTbl[e] \ {OSTCBPrio[u]}) \cup {p}
                                                   ELSE OSEventTbl[e]
      BY <1>1, <1>2, <2>6 DEF Relisted, FieldTypeOK
    <3> QED
      BY <1>7, <2>1, <2>3, <2>4, <3>2, <3>3
  <2> QED
    BY <2>5, <2>6
<1>11. FieldTypeOK' /\ BirthOK' /\ Free(IdleTask)'
  <2>1. OSEventTbl' = [e \in Event |-> OSEventTbl'[e]] /\ DOMAIN OSEventTbl' = Event
    BY <1>1, <1>2 DEF Relisted, FieldTypeOK
  <2> QED
    BY <1>1, <1>2, <1>4, <1>5, <2>1, OwnNumber DEF LiveInv, LiveLists, FieldTypeOK, BirthOK,
       SameCalls, tcbVars, createVars
<1>12. LiveLists'
  BY <1>6, <1>9, <1>10, <1>11 DEF LiveLists, MembersOK
<1>13. pc'[t] = "sched" /\ ~Dead(t)' /\ (t \notin Newborn)'
  BY <1>1, <1>2, <1>4, <1>5 DEF FieldTypeOK
<1>14. \/ OSTCBPrio'[t] = OSTCBPrio[t]
       \/ OSLockNesting = 0 /\ OSTCBPrio[t] \notin {OSTCBPrio'[w] : w \in AllTask}
  <2>1. CASE u # t
    BY <1>2, <1>3, <2>1
  <2>2. CASE u = t
    <3>1. OSTCBPrio[t] # p
      BY <1>1, <1>2 DEF FreePrio
    <3> QED
      BY <1>1, <1>3, <1>8, <2>2, <3>1
  <2> QED
    BY <2>1, <2>2
<1>15. LiveRun'
  BY <1>1, <1>13, <1>14, ServiceLive
<1> QED
  BY <1>12, <1>15

\* OS_TCB_RESERVED is not in any list.
LEMMA CreateLive ==
  ASSUME LiveInv, NEW t \in Task, ~Creating(t), NEW p \in Prio, OSTaskCreate(t, p)
  PROVE  LiveLists' /\ LiveRun'
<1>1. /\ Running(t) /\ pc[t] = "task" /\ reserved' = [reserved EXCEPT ![t] = p]
      /\ UNCHANGED <<OSRdyTbl, swVars, nestVars, OSTCBPrio, tcbVars, OSEventTbl, pc, pevent,
                     newborn>>
  BY DEF OSTaskCreate, InTask, semVars, coreVars, callVars
<1>2. ~Dead(t) /\ t \notin Newborn /\ (OSLockNesting = 0 => IsHighest(t))
  BY <1>1, RunnerLives
<1>3. ASSUME NEW w \in Task
      PROVE  PlaceOK(w)' /\ CallOK(w)' /\ \A e \in Event : Waits(w, e)' <=> Waits(w, e)
  <2>1. PlaceOK(w) /\ CallOK(w)
    BY DEF LiveInv, LiveLists
  <2>2. CallOK(w)' /\ \A e \in Event : Waits(w, e)' <=> Waits(w, e)
    BY <1>1, <2>1 DEF CallOK, InPendCall, Dead, Waits, tcbVars
  <2>3. Creating(w)' <=> w = t \/ Creating(w)
    BY <1>1, PrioKinds DEF Creating, LiveInv, PrioTblInv, PrioTypeOK
  <2>4. PlaceOK(w)'
    BY <1>1, <1>2, <2>1, <2>3 DEF PlaceOK, InPendCall, Dead, Free, Newborn, tcbVars
  <2> QED
    BY <2>2, <2>4
<1>4. ReadyTasks' = ReadyTasks /\ \A e \in Event : Waiters(e)' = Waiters(e)
  BY <1>1, <1>3 DEF ReadyTasks, Waiters, Dead, Free, Newborn, tcbVars
<1>5. MembersOK' /\ FieldTypeOK' /\ BirthOK' /\ Free(IdleTask)'
  BY <1>1, <1>4 DEF LiveInv, LiveLists, MembersOK, FieldTypeOK, BirthOK, Free, tcbVars
<1>6. LiveLists'
  BY <1>3, <1>5 DEF LiveLists
<1>7. ~Dead(t)' /\ (t \notin Newborn)' /\ (OSLockNesting = 0 => IsHighest(t)')
  BY <1>1, <1>2 DEF Dead, Newborn, IsHighest
<1> QED
  BY <1>1, <1>6, <1>7, ServiceLive

\* OS_TCBInit takes a free control block, which leaves no list and enters none.
LEMMA TCBInitLive ==
  ASSUME LiveInv, NEW t \in Task, OS_TCBInit(t)
  PROVE  LiveLists' /\ LiveRun'
<1>1. /\ Running(t) /\ Creating(t) /\ newborn[t] = {}
      /\ UNCHANGED <<OSRdyTbl, swVars, nestVars, OSEventTbl>>
  BY DEF OS_TCBInit
<1>2. /\ t \in AllTask /\ FieldTypeOK /\ PlaceOK(t) /\ Task \subseteq AllTask /\ BirthOK
      /\ IdleTask \notin Task /\ MembersOK /\ Free(IdleTask)
      /\ OSTCBPrio \in [AllTask -> Nat] /\ reserved \in [Task -> Prio \cup {NoPrio}]
      /\ newborn \in [Task -> SUBSET Task] /\ IdleTask \in AllTask
  BY OwnNumber DEF LiveInv, LiveLists, PrioTblInv, PrioTypeOK
<1>3. pc[t] = "task"
  BY <1>1, <1>2 DEF PlaceOK
<1>4. ~Dead(t) /\ t \notin Newborn /\ (OSLockNesting = 0 => IsHighest(t))
  BY <1>1, <1>3, RunnerLives
<1>5. ASSUME NEW u \in Task, Dead(u),
             OSTCBPrio' = [OSTCBPrio EXCEPT ![u] = reserved[t]],
             OSTCBStat' = [OSTCBStat EXCEPT ![u] = {}],
             OSTCBStatPend' = [OSTCBStatPend EXCEPT ![u] = "OK"],
             OSTCBDly' = [OSTCBDly EXCEPT ![u] = 0],
             OSTCBEventPtr' = [OSTCBEventPtr EXCEPT ![u] = NoEvent],
             pc' = [pc EXCEPT ![u] = "task"],
             pevent' = [pevent EXCEPT ![u] = NoEvent],
             newborn' = [newborn EXCEPT ![t] = {u}], reserved' = reserved
      PROVE  LiveLists' /\ LiveRun'
  <2>1. /\ u \in AllTask /\ u # t /\ u # IdleTask /\ ~InPendCall(u) /\ ~Creating(u)
        /\ u \notin Newborn /\ newborn[u] = {}
    BY <1>2, <1>4, <1>5 DEF LiveInv, LiveLists, PlaceOK
  <2>2. /\ OSTCBPrio'[u] = reserved[t] /\ OSTCBStat'[u] = {} /\ OSTCBDly'[u] = 0
        /\ OSTCBEventPtr'[u] = NoEvent /\ pc'[u] = "task"
    BY <1>2, <1>5, <2>1 DEF FieldTypeOK
  <2>3. \A w \in AllTask : w # u =>
          UNCHANGED <<OSTCBPrio[w], OSTCBStat[w], OSTCBStatPend[w], OSTCBDly[w],
                      OSTCBEventPtr[w], pc[w], pevent[w]>>
    BY <1>2, <1>5 DEF FieldTypeOK
  <2>4. Newborn' = Newborn \cup {u} /\ \A w \in Task : newborn'[w] = IF w = t THEN {u} ELSE newborn[w]
    BY <1>1, <1>2, <1>5 DEF Newborn
  <2>5. ~Dead(u)' /\ \A w \in Task : Creating(w)' <=> Creating(w)
    BY <1>1, <1>2, <1>5, <2>2, PrioKinds DEF Dead, Creating
  <2>6. ASSUME NEW w \in Task
        PROVE  PlaceOK(w)' /\ CallOK(w)' /\ \A e \in Event : Waits(w, e)' <=> Waits(w, e)
    <3>1. PlaceOK(w) /\ CallOK(w) /\ w \in AllTask
      BY <1>2 DEF LiveInv, LiveLists
    <3>2. CASE w = u
      <4>1. ~InPendCall(u)'
        BY <2>2 DEF InPendCall
      <4>2. PlaceOK(u)'
        BY <2>1, <2>2, <2>4, <2>5, <4>1 DEF PlaceOK, Free
      <4>3. CallOK(u)' /\ \A e \in Event : Waits(u, e)' <=> Waits(u, e)
        BY <2>1, <2>2, <4>1 DEF CallOK, Waits
      <4> QED
        BY <3>2, <4>2, <4>3
    <3>3. CASE w # u
      <4>1. UNCHANGED <<OSTCBPrio[w], OSTCBStat[w], OSTCBStatPend[w], OSTCBDly[w],
                        OSTCBEventPtr[w], pc[w], pevent[w]>>
        BY <2>3, <3>1, <3>3
      <4>2. CallOK(w)' /\ \A e \in Event : Waits(w, e)' <=> Waits(w, e)
        BY <3>1, <4>1 DEF CallOK, InPendCall, Dead, Waits
      <4>3. PlaceOK(w)'
        BY <1>1, <2>4, <2>5, <3>1, <3>3, <4>1 DEF PlaceOK, InPendCall, Dead, Free
      <4> QED
        BY <4>2, <4>3
    <3> QED
      BY <3>2, <3>3
  <2>7. ReadyTasks' = ReadyTasks /\ u \notin ReadyTasks
    <3>1. \A w \in AllTask : w # u => (w \in ReadyTasks' <=> w \in ReadyTasks)
      BY <2>3, <2>4 DEF ReadyTasks, Dead, Free
    <3>2. u \notin ReadyTasks' /\ u \notin ReadyTasks
      BY <1>5, <2>4 DEF ReadyTasks
    <3>3. ReadyTasks \subseteq AllTask /\ ReadyTasks' \subseteq AllTask
      BY DEF ReadyTasks
    <3> QED
      BY <3>1, <3>2, <3>3
  <2>8. \A e \in Event : Waiters(e)' = Waiters(e) /\ u \notin Waiters(e)
    BY <2>1, <2>6 DEF Waiters, Waits
  <2>9. MembersOK'
    <3>1. OSRdyTbl' = {OSTCBPrio'[w] : w \in ReadyTasks'}
      BY <1>1, <1>2, <2>3, <2>7 DEF MembersOK, ReadyTasks
    <3>2. \A e \in Event : \A w \in Waiters(e) : OSTCBPrio'[w] = OSTCBPrio[w]
      BY <1>2, <2>3, <2>8 DEF Waiters
    <3>3. \A e \in Event : OSEventTbl'[e] = {OSTCBPrio'[w] : w \in Waiters(e)'}
      BY <1>1, <1>2, <2>8, <3>2 DEF MembersOK
    <3> QED
      BY <3>1, <3>3 DEF MembersOK
  <2>10. FieldTypeOK' /\ Free(IdleTask)'
    <3>1. /\ OSTCBStat' \in [AllTask -> SUBSET Flag]
          /\ OSTCBStatPend' \in [AllTask -> PendResult]
          /\ OSTCBDly' \in [AllTask -> Nat] /\ pc' \in [AllTask -> Pc]
      BY <1>2, <1>5 DEF FieldTypeOK, PendResult, Pc
    <3>2. /\ OSTCBEventPtr' \in [AllTask -> Event \cup {NoEvent}]
          /\ pevent' \in [AllTask -> Event \cup {NoEvent}]
      BY <1>2, <1>5 DEF FieldTypeOK
    <3>3. Free(IdleTask)'
      BY <1>2, <2>1, <2>3 DEF Free
    <3> QED
      BY <1>1, <1>2, <3>1, <3>2, <3>3 DEF FieldTypeOK
  <2>11. BirthOK'
    <3>1. \A w \in Task : u \notin newborn[w]
      BY <2>1 DEF Newborn
    <3> QED
      BY <1>2, <2>4, <3>1 DEF BirthOK
  <2>12. LiveLists'
    BY <2>6, <2>9, <2>10, <2>11 DEF LiveLists
  <2>13. /\ OSTCBPrio'[t] = OSTCBPrio[t] /\ pc'[t] = "task"
         /\ ~Dead(t)' /\ (t \notin Newborn)' /\ (OSLockNesting = 0 => IsHighest(t)')
    BY <1>1, <1>2, <1>3, <1>4, <2>1, <2>3, <2>4 DEF Dead, IsHighest
  <2> QED
    BY <1>1, <1>3, <2>12, <2>13, ServiceLive
<1>6. ASSUME reserved' = [reserved EXCEPT ![t] = NoPrio],
             UNCHANGED <<OSTCBPrio, tcbVars, callVars, newborn>>
      PROVE  LiveLists' /\ LiveRun'
  <2> USE <1>6
  <2>1. ASSUME NEW w \in Task
        PROVE  PlaceOK(w)' /\ CallOK(w)' /\ \A e \in Event : Waits(w, e)' <=> Waits(w, e)
    <3>1. PlaceOK(w) /\ CallOK(w)
      BY DEF LiveInv, LiveLists
    <3>2. CallOK(w)' /\ \A e \in Event : Waits(w, e)' <=> Waits(w, e)
      BY <3>1 DEF CallOK, InPendCall, Dead, Waits, tcbVars, callVars
    <3>3. Creating(w)' <=> w # t /\ Creating(w)
      BY <1>2 DEF Creating
    <3>4. PlaceOK(w)'
      BY <1>1, <3>1, <3>3 DEF PlaceOK, InPendCall, Dead, Free, Newborn, tcbVars, callVars
    <3> QED
      BY <3>2, <3>4
  <2>2. ReadyTasks' = ReadyTasks /\ \A e \in Event : Waiters(e)' = Waiters(e)
    BY <2>1 DEF ReadyTasks, Waiters, Dead, Free, Newborn, tcbVars
  <2>3. MembersOK' /\ FieldTypeOK' /\ BirthOK' /\ Free(IdleTask)'
    BY <1>1, <1>2, <2>2 DEF MembersOK, FieldTypeOK, BirthOK, Free, tcbVars, callVars
  <2>4. LiveLists'
    BY <2>1, <2>3 DEF LiveLists
  <2>5. /\ OSTCBPrio'[t] = OSTCBPrio[t] /\ pc'[t] = "task"
        /\ ~Dead(t)' /\ (t \notin Newborn)' /\ (OSLockNesting = 0 => IsHighest(t)')
    BY <1>1, <1>3, <1>4 DEF Dead, IsHighest, Newborn, callVars
  <2> QED
    BY <1>1, <1>3, <2>4, <2>5, ServiceLive
<1> QED
  BY <1>5, <1>6 DEF OS_TCBInit

\* The end of a creation makes the new task ready.
LEMMA TCBReadyLive ==
  ASSUME LiveInv, NEW t \in Task, OS_TCBReady(t)
  PROVE  LiveLists' /\ LiveRun'
<1> DEFINE B == newborn[t]
<1>1. /\ Running(t) /\ B # {}
      /\ OSRdyTbl' = OSRdyTbl \cup {OSTCBPrio[u] : u \in B}
      /\ reserved' = [reserved EXCEPT ![t] = NoPrio]
      /\ newborn' = [newborn EXCEPT ![t] = {}]
      /\ pc' = [pc EXCEPT ![t] = "sched"]
      /\ UNCHANGED <<swVars, nestVars, OSTCBPrio, tcbVars, OSEventTbl, pevent>>
  BY DEF OS_TCBReady
<1>2. /\ t \in AllTask /\ FieldTypeOK /\ PlaceOK(t) /\ Task \subseteq AllTask /\ BirthOK
      /\ MembersOK /\ Free(IdleTask)
      /\ reserved \in [Task -> Prio \cup {NoPrio}] /\ newborn \in [Task -> SUBSET Task]
  BY OwnNumber DEF LiveInv, LiveLists, PrioTblInv, PrioTypeOK
<1>3. pc[t] = "task"
  BY <1>1, <1>2 DEF PlaceOK
<1>4. ~Dead(t) /\ t \notin Newborn
  BY <1>1, <1>3, RunnerLives
<1>5. /\ Newborn' = Newborn \ B
      /\ \A w \in Task : newborn'[w] = IF w = t THEN {} ELSE newborn[w]
  BY <1>1, <1>2 DEF Newborn, BirthOK
<1>6. B \subseteq Task /\ B \subseteq Newborn /\ \A u \in B : ~Dead(u) /\ Free(u)
  <2>1. B \subseteq Task /\ B \subseteq Newborn
    BY <1>2 DEF Newborn
  <2> QED
    BY <2>1 DEF LiveInv, LiveLists, PlaceOK
<1>7. \A w \in Task : /\ Creating(w)' <=> w # t /\ Creating(w)
                      /\ InPendCall(w)' <=> InPendCall(w)
                      /\ w # t => pc'[w] = pc[w]
  BY <1>1, <1>2, <1>3 DEF Creating, InPendCall, FieldTypeOK
<1> HIDE DEF B
<1>8. ASSUME NEW w \in Task
      PROVE  PlaceOK(w)' /\ CallOK(w)' /\ \A e \in Event : Waits(w, e)' <=> Waits(w, e)
  <2>1. PlaceOK(w) /\ CallOK(w)
    BY DEF LiveInv, LiveLists
  <2>2. CallOK(w)' /\ \A e \in Event : Waits(w, e)' <=> Waits(w, e)
    BY <1>1, <1>7, <2>1 DEF CallOK, Dead, Waits, tcbVars
  <2>3. PlaceOK(w)'
    BY <1>1, <1>4, <1>5, <1>7, <2>1 DEF PlaceOK, Dead, Free, tcbVars
  <2> QED
    BY <2>2, <2>3
<1>9. ReadyTasks' = ReadyTasks \cup B /\ \A e \in Event : Waiters(e)' = Waiters(e)
  <2>1. \A w \in AllTask : w \in ReadyTasks' <=> ~Dead(w) /\ Free(w) /\ w \notin Newborn \ B
    BY <1>1, <1>5 DEF ReadyTasks, Dead, Free, tcbVars
  <2>2. ReadyTasks \subseteq AllTask /\ ReadyTasks' \subseteq AllTask
    BY DEF ReadyTasks
  <2>3. ReadyTasks' = ReadyTasks \cup B
    BY <1>2, <1>6, <2>1, <2>2 DEF ReadyTasks
  <2> QED
    BY <1>8, <2>3 DEF Waiters
<1>10. MembersOK'
  BY <1>1, <1>2, <1>9 DEF MembersOK
<1>11. FieldTypeOK' /\ BirthOK' /\ Free(IdleTask)'
  BY <1>1, <1>2, <1>5 DEF FieldTypeOK, BirthOK, Free, tcbVars, Pc
<1>12. LiveLists'
  BY <1>8, <1>10, <1>11 DEF LiveLists
<1>13. /\ OSTCBPrio'[t] = OSTCBPrio[t] /\ pc'[t] = "sched"
       /\ ~Dead(t)' /\ (t \notin Newborn)'
  BY <1>1, <1>2, <1>4, <1>5 DEF Dead, FieldTypeOK
<1> QED
  BY <1>1, <1>3, <1>12, <1>13, ServiceLive

\* Who is deleted leaves every list.
LEMMA DelLive ==
  ASSUME Careful, LiveInv, NEW t \in Task, ~Creating(t), NEW u \in Task, OSTaskDel(t, u)
  PROVE  LiveLists' /\ LiveRun'
<1>1. /\ Running(t) /\ pc[t] = "task" /\ ~Dead(u) /\ u \notin Newborn /\ ~Creating(u)
      /\ u = t => OSLockNesting = 0
      /\ OSRdyTbl' = OSRdyTbl \ {OSTCBPrio[u]}
      /\ OSEventTbl' = Unlisted(u)
      /\ OSTCBDly' = [OSTCBDly EXCEPT ![u] = 0]
      /\ OSTCBStat' = [OSTCBStat EXCEPT ![u] = {}]
      /\ OSTCBStatPend' = [OSTCBStatPend EXCEPT ![u] = "OK"]
      /\ OSTCBPrio' = [OSTCBPrio EXCEPT ![u] = NoPrio]
      /\ pc' = [pc EXCEPT ![u] = "task", ![t] = "sched"]
      /\ pevent' = [pevent EXCEPT ![u] = NoEvent]
      /\ UNCHANGED <<swVars, nestVars, OSTCBEventPtr, createVars>>
  BY DEF OSTaskDel, InTask
<1>2. /\ t \in AllTask /\ u \in AllTask /\ FieldTypeOK /\ CallOK(u) /\ PlaceOK(u)
      /\ OSTCBPrio \in [AllTask -> Nat] /\ Task \subseteq AllTask /\ u # IdleTask
      /\ MembersOK /\ Free(IdleTask) /\ IdleTask \in AllTask
  BY OwnNumber DEF LiveInv, LiveLists, PrioTblInv, PrioTypeOK
<1>3. ~Dead(t) /\ t \notin Newborn
  BY <1>1, RunnerLives
<1>4. /\ OSTCBPrio'[u] = NoPrio /\ OSTCBStat'[u] = {} /\ OSTCBDly'[u] = 0
      /\ pc'[u] \in {"task", "sched"} /\ pc'[t] = "sched"
  BY <1>1, <1>2 DEF FieldTypeOK
<1>5. \A w \in AllTask : w # u =>
        UNCHANGED <<OSTCBPrio[w], OSTCBStat[w], OSTCBStatPend[w], OSTCBDly[w],
                    OSTCBEventPtr[w], pevent[w]>>
  BY <1>1, <1>2 DEF FieldTypeOK
<1>6. \A w \in AllTask : w # u /\ w # t => pc'[w] = pc[w]
  BY <1>1, <1>2 DEF FieldTypeOK
<1>7. Newborn' = Newborn /\ \A w \in Task : Creating(w)' <=> Creating(w)
  BY <1>1 DEF Newborn, Creating, createVars
<1>8. ASSUME NEW w \in Task
      PROVE  /\ PlaceOK(w)' /\ CallOK(w)'
             /\ \A e \in Event : Waits(w, e)' <=> Waits(w, e) /\ w # u
  <2>1. PlaceOK(w) /\ CallOK(w) /\ w \in AllTask
    BY <1>2 DEF LiveInv, LiveLists
  <2>2. CASE w = u
    <3>1. ~InPendCall(u)' /\ Dead(u)' /\ newborn' = newborn
      BY <1>1, <1>4 DEF InPendCall, Dead, createVars
    <3>2. newborn[u] = {}
      BY <1>1, <1>2 DEF PlaceOK
    <3>3. PlaceOK(u)' /\ CallOK(u)' /\ \A e \in Event : ~Waits(u, e)'
      BY <1>1, <1>4, <1>7, <3>1, <3>2 DEF PlaceOK, CallOK, Free, Waits
    <3> QED
      BY <2>2, <3>3
  <2>3. CASE w # u
    <3>1. UNCHANGED <<OSTCBPrio[w], OSTCBStat[w], OSTCBStatPend[w], OSTCBDly[w],
                      OSTCBEventPtr[w], pevent[w]>>
      BY <1>5, <2>1, <2>3
    <3>2. (InPendCall(w)' <=> InPendCall(w)) /\ (w # t => pc'[w] = pc[w])
      BY <1>1, <1>4, <1>6, <2>1, <2>3 DEF InPendCall
    <3>3. CallOK(w)' /\ \A e \in Event : Waits(w, e)' <=> Waits(w, e)
      BY <2>1, <3>1, <3>2 DEF CallOK, Dead, Waits
    <3>4. PlaceOK(w)'
      BY <1>1, <1>3, <1>7, <2>1, <3>1, <3>2 DEF PlaceOK, Dead, Free, createVars
    <3> QED
      BY <2>3, <3>3, <3>4
  <2> QED
    BY <2>2, <2>3
<1>9. ReadyTasks' = ReadyTasks \ {u}
  <2>1. \A w \in AllTask : w # u => (w \in ReadyTasks' <=> w \in ReadyTasks)
    BY <1>5, <1>7 DEF ReadyTasks, Dead, Free
  <2>2. u \notin ReadyTasks'
    BY <1>4 DEF ReadyTasks, Dead
  <2>3. ReadyTasks \subseteq AllTask /\ ReadyTasks' \subseteq AllTask
    BY DEF ReadyTasks
  <2> QED
    BY <2>1, <2>2, <2>3
<1>10. \A e \in Event : Waiters(e)' = Waiters(e) \ {u}
  BY <1>8 DEF Waiters
<1>11. OSRdyTbl' = {OSTCBPrio'[w] : w \in ReadyTasks'}
  <2>1. PICK S : S = ReadyTasks /\ S \subseteq AllTask
    BY DEF ReadyTasks
  <2>2. OSRdyTbl = {OSTCBPrio[w] : w \in S}
    BY <1>2, <2>1 DEF MembersOK
  <2>3. {OSTCBPrio[w] : w \in S \ {u}} = OSRdyTbl \ {OSTCBPrio[u]}
    BY <1>1, <1>2, <2>1, <2>2, NumbersOne DEF LiveInv
  <2>4. {OSTCBPrio'[w] : w \in S \ {u}} = {OSTCBPrio[w] : w \in S \ {u}}
    BY <1>5, <2>1
  <2> QED
    BY <1>1, <1>9, <2>1, <2>3, <2>4
<1>12. ASSUME NEW e \in Event
       PROVE  OSEventTbl'[e] = {OSTCBPrio'[w] : w \in Waiters(e)'}
  <2>1. PICK S : S = Waiters(e) /\ S \subseteq AllTask
    BY <1>2, WaitersLive DEF LiveInv
  <2>2. {OSTCBPrio[w] : w \in S \ {u}} = OSEventTbl[e] \ {OSTCBPrio[u]}
    <3>1. OSEventTbl[e] = {OSTCBPrio[w] : w \in S}
      BY <1>2, <2>1 DEF MembersOK
    <3>2. {OSTCBPrio[w] : w \in S \ {u}} = {OSTCBPrio[w] : w \in S} \ {OSTCBPrio[u]}
      BY <1>1, <1>2, <2>1, NumbersOne DEF LiveInv
    <3> QED
      BY <3>1, <3>2
  <2>3. {OSTCBPrio'[w] : w \in S \ {u}} = {OSTCBPrio[w] : w \in S \ {u}}
    BY <1>5, <2>1
  <2>4. OSEventTbl'[e] = OSEventTbl[e] \ {OSTCBPrio[u]}
    <3>1. OSTCBPrio[u] \in OSEventTbl[e] <=> Waits(u, e)
      BY <1>1, ListedWaits DEF LiveInv
    <3>2. Waits(u, e) => e = OSTCBEventPtr[u]
      BY <1>2 DEF Waits, CallOK
    <3>3. CASE OSTCBEventPtr[u] = NoEvent
      BY <1>1, <3>1, <3>2, <3>3, CoreAssumption DEF Unlisted
    <3>4. CASE OSTCBEventPtr[u] # NoEvent
      <4>1. OSEventTbl'[e] = IF e = OSTCBEventPtr[u] THEN OSEventTbl[e] \ {OSTCBPrio[u]}
                                                     ELSE OSEventTbl[e]
        BY <1>1, <1>2, <3>4 DEF Unlisted, FieldTypeOK
      <4> QED
        BY <3>1, <3>2, <4>1
    <3> QED
      BY <3>3, <3>4
  <2>5. Waiters(e)' = S \ {u}
    BY <1>10, <2>1
  <2> QED
    BY <2>2, <2>3, <2>4, <2>5
<1>13. FieldTypeOK' /\ BirthOK' /\ Free(IdleTask)'
  <2>1. OSEventTbl' = [e \in Event |-> OSEventTbl'[e]] /\ DOMAIN OSEventTbl' = Event
    BY <1>1, <1>2 DEF Unlisted, FieldTypeOK
  <2>2. /\ OSTCBStat' \in [AllTask -> SUBSET Flag]
        /\ OSTCBStatPend' \in [AllTask -> PendResult]
        /\ OSTCBDly' \in [AllTask -> Nat] /\ pc' \in [AllTask -> Pc]
    BY <1>1, <1>2 DEF FieldTypeOK, PendResult, Pc
  <2>3. /\ OSTCBEventPtr' \in [AllTask -> Event \cup {NoEvent}]
        /\ pevent' \in [AllTask -> Event \cup {NoEvent}]
    BY <1>1, <1>2 DEF FieldTypeOK
  <2>4. BirthOK' /\ Free(IdleTask)'
    BY <1>1, <1>2, <1>5 DEF LiveInv, LiveLists, BirthOK, Free, createVars
  <2> QED
    BY <2>1, <2>2, <2>3, <2>4 DEF FieldTypeOK
<1>14. LiveLists'
  BY <1>8, <1>11, <1>12, <1>13 DEF LiveLists, MembersOK
<1>15. u # t => ~Dead(t)' /\ (t \notin Newborn)' /\ OSTCBPrio'[t] = OSTCBPrio[t]
  BY <1>2, <1>3, <1>5, <1>7 DEF Dead
<1>16. u = t => OSTCBPrio[t] \notin {OSTCBPrio'[w] : w \in AllTask}
  <2>1. \A w \in AllTask : OSTCBPrio[w] = OSTCBPrio[u] => w = u
    BY <1>1, <1>2, OwnNumber DEF LiveInv
  <2>2. OSTCBPrio[u] # NoPrio
    BY <1>1 DEF Dead
  <2> QED
    BY <1>4, <1>5, <2>1, <2>2
<1>17. CASE u = t
  <2>1. OSLockNesting = 0 /\ ~(OSLockNesting > 0)
    BY <1>1, <1>17
  <2>2. OSTCBPrio[t] \notin {OSTCBPrio'[w] : w \in AllTask}
    BY <1>16, <1>17
  <2>3. LiveRun'
    BY <1>1, <1>4, <2>1, <2>2, ServiceLive
  <2> QED
    BY <1>14, <2>3
<1>18. CASE u # t
  BY <1>1, <1>4, <1>14, <1>15, <1>18, ServiceLive
<1> QED
  BY <1>17, <1>18

-----------------------------------------------------------------------------
LEMMA LiveInit == TaskInit => LiveInv
<1> SUFFICES ASSUME TaskInit PROVE LiveInv
  OBVIOUS
<1>1. PrioTblInv /\ CoreInit
  BY TaskInitOK DEF TaskInit, Init
<1>2. /\ reserved = [t \in Task |-> NoPrio] /\ newborn = [t \in Task |-> {}]
      /\ Newborn = {} /\ \A t \in Task : ~Creating(t)
  BY DEF TaskInit, Newborn, Creating
<1>3. \A t \in AllTask : Free(t) /\ ~Dead(t)
  <2>1. \A t \in Task : OSTCBPrio[t] \in Prio
    BY <1>1, PrioFacts DEF CoreInit
  <2> QED
    BY <1>1, <2>1, PrioKinds, OwnNumber DEF CoreInit, Free, Dead, AllTask
<1>4. FieldTypeOK /\ BirthOK /\ Free(IdleTask)
  BY <1>1, <1>2, <1>3 DEF CoreInit, FieldTypeOK, BirthOK, Flag, PendResult, Pc, AllTask
<1>5. \A t \in Task : ~InPendCall(t) /\ PlaceOK(t) /\ CallOK(t)
  BY <1>1, <1>2, <1>3 DEF CoreInit, PlaceOK, CallOK, InPendCall, AllTask
<1>6. MembersOK
  <2>1. ReadyTasks = AllTask
    BY <1>2, <1>3 DEF ReadyTasks
  <2>2. \A e \in Event : Waiters(e) = {}
    BY <1>5 DEF Waiters, Waits
  <2> QED
    BY <1>1, <2>1, <2>2 DEF MembersOK, CoreInit
<1>7. LiveLists
  BY <1>4, <1>5, <1>6 DEF LiveLists
<1>8. LiveRun
  <2>1. PICK hp : hp = Highest(OSRdyTbl)
    OBVIOUS
  <2>2. hp \in OSRdyTbl /\ \A p \in OSRdyTbl : hp <= p
    BY <1>1, <1>7, <2>1, ReadyFacts, HighestIsLeast
  <2>3. \E t \in AllTask : OSTCBPrio[t] = hp
    BY <1>1, <1>7, <2>2, ReadyFacts
  <2>4. /\ OSTCBHighRdy \in AllTask /\ OSTCBPrio[OSTCBHighRdy] = hp
        /\ OSTCBCur = OSTCBHighRdy /\ OSPrioCur = hp
    BY <1>1, <2>1, <2>3 DEF CoreInit, OSTCBPrioTbl
  <2>5. IsHighest(OSTCBCur)
    BY <2>2, <2>4 DEF IsHighest
  <2>6. SwTypes /\ NestInv /\ CurrentInv /\ HolderInv
    <3>1. OSLockNesting = 0 /\ OSIntNesting = 0 /\ isr = "none" /\ pendSV = FALSE
      BY <1>1 DEF CoreInit
    <3>2. ~(OSLockNesting > 0)
      BY <3>1
    <3>3. SwTypes /\ NestInv
      BY <2>4, <3>1 DEF SwTypes, NestInv
    <3> QED
      BY <2>4, <3>2, <3>3 DEF CurrentInv, HolderInv
  <2>7. DueInv
    BY <1>1, <2>5 DEF CoreInit, DueInv
  <2> QED
    BY <2>6, <2>7 DEF LiveRun
<1> QED
  BY <1>1, <1>7, <1>8 DEF LiveInv

LEMMA LiveNext ==
  ASSUME Careful
  PROVE  LiveInv /\ [TaskNext]_taskVars => LiveInv'
<1> SUFFICES ASSUME LiveInv, [TaskNext]_taskVars PROVE LiveInv'
  OBVIOUS
<1>1. PrioTblInv'
  BY TaskNextKeeps DEF LiveInv
<1>2. CASE UNCHANGED taskVars
  <2>1. /\ UNCHANGED <<OSRdyTbl, swVars, nestVars, OSTCBPrio, tcbVars, OSEventTbl, pc, pevent>>
        /\ UNCHANGED createVars
    BY <1>2 DEF taskVars, semVars, coreVars, callVars
  <2>2. SameCalls
    BY <2>1 DEF SameCalls, InPendCall, LiveInv, LiveLists, FieldTypeOK
  <2>3. LiveLists'
    BY <2>1, <2>2, SameLive DEF LiveInv
  <2>4. LiveRun'
    BY <2>1 DEF LiveInv, LiveRun, SwTypes, NestInv, CurrentInv, Renamed, HolderInv, DueInv,
       IsHighest, Dead, Newborn, swVars, nestVars, createVars
  <2> QED
    BY <1>1, <2>3, <2>4 DEF LiveInv
<1>3. CASE TaskNext
  <2>1. ASSUME SysTick_Handler \/ Kernel, UNCHANGED createVars
        PROVE  LiveLists' /\ LiveRun'
    BY <2>1, HandlersLive
  <2>2. ASSUME NEW t \in Task, ~Creating(t), CoreTask(t) \/ SemTask(t), UNCHANGED createVars,
               \A u \in Newborn : OSTCBStat'[u] = OSTCBStat[u]
        PROVE  LiveLists' /\ LiveRun'
    BY <2>2, CoreTaskLive, SemTaskLive
  <2>3. ASSUME NEW t \in Task, ~Creating(t), NEW u \in Task,
               (\E p \in Prio : OSTaskChangePrio(t, u, p)) \/ OSTaskDel(t, u)
        PROVE  LiveLists' /\ LiveRun'
    BY <2>3, ChangeLive, DelLive
  <2>4. ASSUME NEW t \in Task, ~Creating(t), NEW p \in Prio, OSTaskCreate(t, p)
        PROVE  LiveLists' /\ LiveRun'
    BY <2>4, CreateLive
  <2>5. ASSUME NEW t \in Task, OS_TCBInit(t) \/ OS_TCBReady(t)
        PROVE  LiveLists' /\ LiveRun'
    BY <2>5, TCBInitLive, TCBReadyLive
  <2>6. LiveLists' /\ LiveRun'
    BY <1>3, <2>1, <2>2, <2>3, <2>4, <2>5 DEF TaskNext
  <2> QED
    BY <1>1, <2>6 DEF LiveInv
<1> QED
  BY <1>2, <1>3

LEMMA LiveAlways ==
  ASSUME Careful
  PROVE  TaskSpec => []LiveInv
<1>1. LiveInv /\ [TaskNext]_taskVars => LiveInv'
  BY LiveNext
<1> QED
  BY <1>1, LiveInit, PTL DEF TaskSpec

\* Tasks come and go, are renumbered, wait and are suspended, and still a task
\* is in the ready list exactly when it exists, is fully created and nothing
\* holds it back (OS_TCBInit, OSTaskDel and OSTaskChangePrio of os_task.c and
\* os_core.c, with the services the two others rest on).
THEOREM LiveReadyAlwaysOK ==
  ASSUME Careful
  PROVE  TaskSpec => []LiveReadyOK
<1>1. ASSUME LiveInv
      PROVE  LiveReadyOK
  <2>1. OSRdyTbl = {OSTCBPrio[t] : t \in ReadyTasks}
    BY <1>1 DEF LiveInv, LiveLists, MembersOK
  <2>2. \A t \in ReadyTasks : t \in AllTask /\ OSTCBPrio[t] # NoPrio
    BY DEF ReadyTasks, Dead
  <2>3. \A t \in AllTask : ~Dead(t) => (OSTCBPrio[t] \in OSRdyTbl <=> t \in ReadyTasks)
    BY <1>1, ReadyFacts DEF LiveInv
  <2> QED
    BY <2>1, <2>2, <2>3 DEF LiveReadyOK, ReadyTasks, Free
<1>2. LiveInv => LiveReadyOK
  BY <1>1
<1>3. TaskSpec => []LiveInv
  BY LiveAlways
<1> QED
  BY <1>2, <1>3, PTL

\* With tasks that come and go too, the wait list of an event holds the tasks
\* inside a pend of it, under the numbers they have now, and nobody else: a
\* deleted task is in none, a renumbered one is found under its new number.
THEOREM TaskWaitListsOK ==
  ASSUME Careful
  PROVE  TaskSpec => []WaitListOK
<1>1. ASSUME LiveInv
      PROVE  WaitListOK
  <2>1. \A e \in Event : OSEventTbl[e] = {OSTCBPrio[t] : t \in Waiters(e)}
    BY <1>1 DEF LiveInv, LiveLists, MembersOK
  <2> QED
    BY <2>1 DEF WaitListOK, Waiters, Waits, InPendCall
<1>2. LiveInv => WaitListOK
  BY <1>1
<1>3. TaskSpec => []LiveInv
  BY LiveAlways
<1> QED
  BY <1>2, <1>3, PTL

\* With tasks that come and go too, the running task is the most urgent one
\* ready: a task that is created, deleted or renumbered, the running one not
\* excepted, leaves no switch undone.
THEOREM TaskHighestRuns ==
  ASSUME Careful
  PROVE  TaskSpec => []HighestRuns
<1>1. ASSUME LiveInv
      PROVE  HighestRuns
  <2> SUFFICES ASSUME isr = "none", ~pendSV, OSLockNesting = 0, pc[OSTCBCur] \in {"task", "wake"}
               PROVE  OSTCBPrio[OSTCBCur] = Highest(OSRdyTbl)
    BY DEF HighestRuns
  <2>1. IsHighest(OSTCBCur)
    BY <1>1 DEF LiveInv, LiveRun, DueInv
  <2>2. PICK hp : hp = Highest(OSRdyTbl)
    OBVIOUS
  <2>3. OSRdyTbl \subseteq Nat /\ hp \in OSRdyTbl /\ \A p \in OSRdyTbl : hp <= p
    BY <1>1, <2>2, ReadyFacts, HighestIsLeast DEF LiveInv
  <2>4. PICK p : p = OSTCBPrio[OSTCBCur]
    OBVIOUS
  <2>5. p \in Nat /\ hp \in Nat /\ p <= hp /\ hp <= p
    BY <2>1, <2>3, <2>4 DEF IsHighest
  <2>6. p = hp
    BY <2>5
  <2> QED
    BY <2>2, <2>4, <2>6
<1>2. LiveInv => HighestRuns
  BY <1>1
<1>3. TaskSpec => []LiveInv
  BY LiveAlways
<1> QED
  BY <1>2, <1>3, PTL

===============================================================================
