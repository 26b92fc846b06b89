-------------------------------- MODULE OSSem -------------------------------
(***************************************************************************)
(* Semaphores (os_sem.c) on the kernel of OSCore: every task may call      *)
(* every service on every semaphore at any time, while ticks and device    *)
(* interrupts come between any two steps.  The tick's own post is that of  *)
(* the timer manager: OSTimeTickHook signals OSTmrSemSignal every TmrTicks *)
(* ticks.                                                                  *)
(***************************************************************************)
EXTENDS OSCore

CONSTANTS
  OSTmrSemSignal,  \* the semaphore the tick posts, one of Event
  TmrTicks,        \* OS_TICKS_PER_SEC / OS_TMR_CFG_TICKS_PER_SEC
  MaxCnt,          \* 65535 in OSSemPost, the largest count
  SetEvent         \* the semaphores the application resets with OSSemSet

ASSUME SemAssumption ==
  /\ OSTmrSemSignal \in Event
  /\ TmrTicks \in Nat \ {0}
  /\ MaxCnt \in Nat
  /\ SetEvent \subseteq Event

VARIABLES OSEventCnt, OSTmrCtr

semVars == <<coreVars, OSEventCnt, OSTmrCtr>>

SemTypeOK == /\ TypeOK
             /\ OSEventCnt \in [Event -> 0..MaxCnt]
             /\ OSTmrCtr \in 0..TmrTicks - 1

Init == /\ CoreInit
        /\ OSEventCnt \in [Event -> 0..MaxCnt]
        /\ OSTmrCtr = 0

InTask(t) == Running(t) /\ pc[t] = "task"

\* OSSemPend up to its call of OS_Sched.
OSSemPend(t, e, timeout) ==
  /\ InTask(t)
  /\ OSIntNesting = 0 /\ OSLockNesting = 0
  /\ \/ /\ OSEventCnt[e] > 0
        /\ OSEventCnt' = [OSEventCnt EXCEPT ![e] = @ - 1]
        /\ UNCHANGED <<OSRdyTbl, tcbVars, OSEventTbl, callVars>>
     \/ /\ OSEventCnt[e] = 0
        /\ OS_EventTaskWait(t, e, timeout)
        /\ pc' = [pc EXCEPT ![t] = "pendsched"]
        /\ pevent' = [pevent EXCEPT ![t] = e]
        /\ UNCHANGED OSEventCnt
  /\ UNCHANGED <<swVars, nestVars, OSTCBPrio, OSTmrCtr>>

\* Mutant: after a timeout the task stays in the wait list.
OSSemPendEnd_NoRemove(t) ==
  /\ Running(t) /\ pc[t] = "wake"
  /\ UNCHANGED OSEventTbl
  /\ OSTCBStat' = [OSTCBStat EXCEPT ![t] = {}]
  /\ OSTCBStatPend' = [OSTCBStatPend EXCEPT ![t] = "OK"]
  /\ OSTCBEventPtr' = [OSTCBEventPtr EXCEPT ![t] = NoEvent]
  /\ pc' = [pc EXCEPT ![t] = "task"]
  /\ pevent' = [pevent EXCEPT ![t] = NoEvent]
  /\ UNCHANGED <<OSRdyTbl, swVars, nestVars, OSTCBPrio, OSTCBDly, OSEventCnt,
                 OSTmrCtr>>

\* OSSemPend after OS_Sched, when the task runs again.
OSSemPendEnd(t) ==
  /\ Running(t) /\ pc[t] = "wake"
  /\ IF OSTCBStatPend[t] = "TO" THEN OS_EventTaskRemove(t, pevent[t])
                                ELSE UNCHANGED OSEventTbl
  /\ OSTCBStat' = [OSTCBStat EXCEPT ![t] = {}]
  /\ OSTCBStatPend' = [OSTCBStatPend EXCEPT ![t] = "OK"]
  /\ OSTCBEventPtr' = [OSTCBEventPtr EXCEPT ![t] = NoEvent]
  /\ pc' = [pc EXCEPT ![t] = "task"]
  /\ pevent' = [pevent EXCEPT ![t] = NoEvent]
  /\ UNCHANGED <<OSRdyTbl, swVars, nestVars, OSTCBPrio, OSTCBDly, OSEventCnt,
                 OSTmrCtr>>

\* Mutant: the least urgent of the waiting tasks is granted.
Post_Last(e) ==
  \/ /\ OSEventTbl[e] # {}
     /\ OS_EventTaskRdy(e, {CHOOSE p \in OSEventTbl[e] : \A q \in OSEventTbl[e] : p >= q}, "OK")
     /\ UNCHANGED OSEventCnt
  \/ /\ OSEventTbl[e] = {}
     /\ OSEventCnt' = [OSEventCnt EXCEPT ![e] = IF @ < MaxCnt THEN @ + 1 ELSE @]
     /\ UNCHANGED <<OSRdyTbl, tcbVars, OSEventTbl>>

\* The critical section of OSSemPost.  At the limit of the count it changes
\* nothing (OS_ERR_SEM_OVF).
Post(e) ==
  \/ /\ OSEventTbl[e] # {}
     /\ OS_EventTaskRdy(e, {Highest(OSEventTbl[e])}, "OK")
     /\ UNCHANGED OSEventCnt
  \/ /\ OSEventTbl[e] = {}
     /\ OSEventCnt' = [OSEventCnt EXCEPT ![e] = IF @ < MaxCnt THEN @ + 1 ELSE @]
     /\ UNCHANGED <<OSRdyTbl, tcbVars, OSEventTbl>>

OSSemPost(t, e) ==
  /\ InTask(t)
  /\ Post(e)
  /\ pc' = IF OSEventTbl[e] # {} THEN [pc EXCEPT ![t] = "sched"] ELSE pc
  /\ UNCHANGED <<swVars, nestVars, OSTCBPrio, pevent, OSTmrCtr>>

OSSemAccept(t, e) ==
  /\ InTask(t)
  /\ OSEventCnt[e] > 0
  /\ OSEventCnt' = [OSEventCnt EXCEPT ![e] = @ - 1]
  /\ UNCHANGED <<coreVars, OSTmrCtr>>

\* opt is OS_PEND_OPT_NONE or OS_PEND_OPT_BROADCAST.
OSSemPendAbort(t, e, opt) ==
  /\ InTask(t)
  /\ OSEventTbl[e] # {}
  /\ OS_EventTaskRdy(e, IF opt = "BROADCAST" THEN OSEventTbl[e]
                                             ELSE {Highest(OSEventTbl[e])}, "ABORT")
  /\ pc' = [pc EXCEPT ![t] = "sched"]
  /\ UNCHANGED <<swVars, nestVars, OSTCBPrio, pevent, OSEventCnt, OSTmrCtr>>

\* Mutant: the count is set although tasks wait.
OSSemSet_NoCheck(t, e, cnt) ==
  /\ InTask(t)
  /\ OSEventCnt' = [OSEventCnt EXCEPT ![e] = cnt]
  /\ UNCHANGED <<coreVars, OSTmrCtr>>

OSSemSet(t, e, cnt) ==
  /\ InTask(t)
  /\ OSEventCnt[e] > 0 \/ OSEventTbl[e] = {}
  /\ OSEventCnt' = [OSEventCnt EXCEPT ![e] = cnt]
  /\ UNCHANGED <<coreVars, OSTmrCtr>>

\* SysTick_Handler up to the task list, with OSTimeTickHook and OSTmrSignal.
\* OS_Sched, called by the post, does nothing: OSIntNesting is not 0.
SysTick_Handler ==
  /\ SysTickEnter
  /\ IF OSTmrCtr + 1 >= TmrTicks
       THEN OSTmrCtr' = 0 /\ Post(OSTmrSemSignal)
       ELSE /\ OSTmrCtr' = OSTmrCtr + 1
            /\ UNCHANGED <<OSRdyTbl, tcbVars, OSEventTbl, OSEventCnt>>
  /\ UNCHANGED <<swVars, OSTCBPrio, callVars>>

SemTask(t) ==
  \/ OSSemPendEnd(t)
  \/ \E e \in Event :
       \/ \E n \in 0..MaxTicks : OSSemPend(t, e, n)
       \/ OSSemPost(t, e)
       \/ OSSemAccept(t, e)
       \/ \E opt \in {"NONE", "BROADCAST"} : OSSemPendAbort(t, e, opt)
       \/ e \in SetEvent /\ \E n \in 0..MaxCnt : OSSemSet(t, e, n)

Kernel == \/ PendSV_Handler
          \/ OSTimeTick
          \/ SysTickExit
          \/ DeviceIRQ

Next == \/ SysTick_Handler
        \/ Kernel /\ UNCHANGED <<OSEventCnt, OSTmrCtr>>
        \/ \E t \in Task : \/ CoreTask(t) /\ UNCHANGED <<OSEventCnt, OSTmrCtr>>
                           \/ SemTask(t)

Spec == Init /\ [][Next]_semVars

(***************************************************************************)
(* Fairness.  Ticks keep coming (SysTick is free-running) and handlers     *)
(* end.  A handler takes far less than a tick period, so between two ticks *)
(* PendSV and the code of the running task do get on: they are strongly    *)
(* fair, since each tick disables them for a moment.  Nothing is assumed   *)
(* of what the application calls, nor of device interrupts.                *)
(***************************************************************************)
KernelStep(A) == A /\ UNCHANGED <<OSEventCnt, OSTmrCtr>>

Fairness ==
  /\ WF_semVars(SysTick_Handler)
  /\ WF_semVars(KernelStep(OSTimeTick))
  /\ WF_semVars(KernelStep(SysTickExit))
  /\ SF_semVars(KernelStep(PendSV_Handler))
  /\ \A t \in Task : /\ SF_semVars(KernelStep(OS_Sched(t)))
                     /\ SF_semVars(OSSemPendEnd(t))

FairSpec == Spec /\ Fairness

-----------------------------------------------------------------------------
(* Safety *)

\* No token is left in a semaphore while a task waits for one (lost wakeup).
NoTokenWhileWaiting ==
  \A e \in Event : OSEventCnt[e] > 0 => OSEventTbl[e] = {}

\* With the scheduler locked the task that locked it keeps the processor,
\* whatever ticks and posts make ready.
LockKeepsTask == [][OSLockNesting > 0 => OSTCBCur' = OSTCBCur]_semVars

-----------------------------------------------------------------------------
(* Liveness *)

Urgent(t) == \A u \in Task : OSTCBPrio[t] <= OSTCBPrio[u]

\* The pend of the most urgent task with a timeout comes back, granted,
\* aborted or timed out, unless the task is suspended or the scheduler locked
\* meanwhile: no order of post, abort, tick and switch loses the wakeup.
TimedPendReturns ==
  \A t \in Task : Urgent(t) =>
    (pc[t] = "pendsched" /\ OSTCBDly[t] > 0
       ~> pc[t] = "task" \/ "SUSPEND" \in OSTCBStat[t] \/ OSLockNesting > 0)

\* The most urgent task runs once it is ready, if nobody takes that back or
\* holds the scheduler locked.
UrgentRuns ==
  \A t \in Task : Urgent(t) =>
    (OSTCBPrio[t] \in OSRdyTbl
       ~> (OSTCBCur = t /\ ~pendSV) \/ OSTCBPrio[t] \notin OSRdyTbl \/ OSLockNesting > 0)

-----------------------------------------------------------------------------
(* The semaphores, as their callers see them, are those of Semaphore.      *)

InPend(e) == {t \in Task : pc[t] \in {"pendsched", "wake"} /\ pevent[t] = e}
Ended(e, result) == {t \in InPend(e) : /\ "PEND" \notin OSTCBStat[t]
                                       /\ OSTCBStatPend[t] = result}

Waiting == [e \in Event |-> {t \in Task : OSTCBPrio[t] \in OSEventTbl[e]}]
Granted == [e \in Event |-> Ended(e, "OK")]
Aborted == [e \in Event |-> Ended(e, "ABORT")]

Sem == INSTANCE Semaphore WITH
  Client <- Task, Sem <- Event, Settable <- SetEvent, Rank <- InitPrio,
  MaxCount <- MaxCnt, count <- OSEventCnt,
  waiting <- Waiting, granted <- Granted, aborted <- Aborted

\* Every post reaches exactly one pend, or the count, and every pend that
\* returns OS_ERR_NONE has had exactly one token, whatever timeouts, aborts,
\* suspensions and ticks come between.
SemImplements == Sem!Spec

=============================================================================
