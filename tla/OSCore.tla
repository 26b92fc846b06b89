------------------------------- MODULE OSCore -------------------------------
(***************************************************************************)
(* The part of uC/OS-II v2.91 every service is built on: the ready list,   *)
(* the scheduler, the Cortex-M3 context switch (PendSV), the tick          *)
(* interrupt, task delays, suspension, and the event wait lists.           *)
(*                                                                         *)
(* Grain of atomicity.  A kernel service runs its body between             *)
(* OS_ENTER_CRITICAL and OS_EXIT_CRITICAL, with interrupts off, so a body  *)
(* is one action.  OS_Sched() runs in a critical section of its own AFTER  *)
(* the body: between the two an interrupt may come, so a task that has     *)
(* still to call it is a separate state (pc "sched" or "pendsched").       *)
(* PendSV has the lowest priority of the machine: a switch that was asked  *)
(* for (pendSV) happens once no handler runs, before the next instruction  *)
(* of any task.                                                            *)
(*                                                                         *)
(* Data.  OSRdyGrp/OSRdyTbl and OSEventGrp/OSEventTbl are bitmaps of       *)
(* priorities: here sets of priorities, and OSUnMapTbl's lookup is the     *)
(* least element.  OSTCBStat is the set of its flags.                      *)
(***************************************************************************)
EXTENDS Integers, FiniteSets

CONSTANTS
  Task,       \* the application's tasks
  IdleTask,   \* the kernel's idle task
  Prio,       \* priorities the application may use; smaller is more urgent
  IdlePrio,   \* OS_TASK_IDLE_PRIO
  InitPrio,   \* the priority each task was created with
  Event,      \* the event control blocks
  NoEvent,    \* the null pointer of OSTCBEventPtr
  MaxTicks,   \* bound: longest delay or timeout a task asks for
  MaxLock     \* 255 in OSSchedLock, the limit of OSLockNesting

AllTask == Task \cup {IdleTask}
AllPrio == Prio \cup {IdlePrio}

ASSUME CoreAssumption ==
  /\ IdleTask \notin Task
  /\ NoEvent \notin Event
  /\ Prio \subseteq Nat
  /\ IdlePrio \in Nat
  /\ \A p \in Prio : p < IdlePrio
  /\ InitPrio \in [Task -> Prio]
  /\ \A t, u \in Task : InitPrio[t] = InitPrio[u] => t = u
  /\ MaxTicks \in Nat
  /\ MaxLock \in Nat

VARIABLES
  OSRdyTbl,        \* priorities of the tasks that are ready
  OSPrioCur,       \* priority of the running task
  OSTCBCur,        \* the running task
  OSPrioHighRdy,   \* what the last OS_SchedNew found
  OSTCBHighRdy,
  pendSV,          \* PendSV was triggered and has not run
  OSIntNesting,
  OSLockNesting,
  isr,             \* how far the tick handler is: "none", "tick", "exit"
  OSTCBPrio,       \* the TCBs, field by field
  OSTCBStat,
  OSTCBStatPend,
  OSTCBDly,
  OSTCBEventPtr,
  OSEventTbl,      \* per event, the priorities in its wait list
  pc,              \* where each task is
  pevent           \* argument of the pend a task is in

swVars   == <<OSPrioCur, OSTCBCur, OSPrioHighRdy, OSTCBHighRdy, pendSV>>
nestVars == <<OSIntNesting, OSLockNesting, isr>>
tcbVars  == <<OSTCBStat, OSTCBStatPend, OSTCBDly, OSTCBEventPtr>>
callVars == <<pc, pevent>>

coreVars == <<OSRdyTbl, swVars, nestVars, OSTCBPrio, tcbVars, OSEventTbl,
              callVars>>

(***************************************************************************)
(* Flags of OSTCBStat.  The kernel has one pend flag per kind of event; a  *)
(* task pends on one kind at a time, so "PEND" stands for the one that     *)
(* applies, and OS_STAT_PEND_ANY for all of them.                          *)
(***************************************************************************)
Flag == {"PEND", "SUSPEND"}
PendResult == {"OK", "TO", "ABORT"}
Pc == {"task", "sched", "pendsched", "wake"}

OSTCBPrioTbl(p) == CHOOSE t \in AllTask : OSTCBPrio[t] = p

\* OSUnMapTbl applied to the group byte and then to the row.
Highest(S) == CHOOSE p \in S : \A q \in S : p <= q

TypeOK ==
  /\ OSRdyTbl \subseteq AllPrio
  /\ OSPrioCur \in AllPrio /\ OSPrioHighRdy \in AllPrio
  /\ OSTCBCur \in AllTask /\ OSTCBHighRdy \in AllTask
  /\ pendSV \in BOOLEAN
  /\ OSIntNesting \in Nat
  /\ OSLockNesting \in 0..MaxLock
  /\ isr \in {"none", "tick", "exit"}
  /\ OSTCBPrio \in [AllTask -> AllPrio]
  /\ OSTCBStat \in [AllTask -> SUBSET Flag]
  /\ OSTCBStatPend \in [AllTask -> PendResult]
  /\ OSTCBDly \in [AllTask -> 0..MaxTicks]
  /\ OSTCBEventPtr \in [AllTask -> Event \cup {NoEvent}]
  /\ OSEventTbl \in [Event -> SUBSET AllPrio]
  /\ pc \in [AllTask -> Pc]
  /\ pevent \in [AllTask -> Event \cup {NoEvent}]

(***************************************************************************)
(* OSInit and OSTaskCreateExt have made every task ready, and OSStart has  *)
(* switched to the one of highest priority.                                *)
(***************************************************************************)
InitOSTCBPrio == [t \in AllTask |-> IF t = IdleTask THEN IdlePrio ELSE InitPrio[t]]

CoreInit ==
  /\ OSTCBPrio = InitOSTCBPrio
  /\ OSRdyTbl = {OSTCBPrio[t] : t \in AllTask}
  /\ OSPrioHighRdy = Highest(OSRdyTbl)
  /\ OSPrioCur = OSPrioHighRdy
  /\ OSTCBHighRdy = OSTCBPrioTbl(OSPrioHighRdy)
  /\ OSTCBCur = OSTCBHighRdy
  /\ pendSV = FALSE
  /\ OSIntNesting = 0 /\ OSLockNesting = 0
  /\ isr = "none"
  /\ OSTCBStat = [t \in AllTask |-> {}]
  /\ OSTCBStatPend = [t \in AllTask |-> "OK"]
  /\ OSTCBDly = [t \in AllTask |-> 0]
  /\ OSTCBEventPtr = [t \in AllTask |-> NoEvent]
  /\ OSEventTbl = [e \in Event |-> {}]
  /\ pc = [t \in AllTask |-> "task"]
  /\ pevent = [t \in AllTask |-> NoEvent]

-----------------------------------------------------------------------------
(* Scheduling *)

\* OS_SchedNew, then OSTCBHighRdy, then OS_TASK_SW / OSIntCtxSw if the
\* highest priority ready is not the current one.  Both only set PendSV.
SwitchToHighest ==
  LET hp == Highest(OSRdyTbl') IN
  /\ OSPrioHighRdy' = hp
  /\ OSTCBHighRdy' = OSTCBPrioTbl(hp)
  /\ pendSV' = (pendSV \/ hp # OSPrioCur)
  /\ UNCHANGED <<OSPrioCur, OSTCBCur>>

\* The task is the one executing: no handler runs and no switch is due.
Running(t) == /\ OSTCBCur = t
              /\ isr = "none"
              /\ ~pendSV

\* OS_Sched, called by a service once it has left its critical section.
OS_Sched(t) ==
  /\ Running(t)
  /\ pc[t] \in {"sched", "pendsched"}
  /\ pc' = [pc EXCEPT ![t] = IF pc[t] = "pendsched" THEN "wake" ELSE "task"]
  /\ UNCHANGED OSRdyTbl
  /\ IF OSIntNesting = 0 /\ OSLockNesting = 0
       THEN SwitchToHighest
       ELSE UNCHANGED swVars
  /\ UNCHANGED <<nestVars, OSTCBPrio, tcbVars, OSEventTbl, pevent>>

\* PendSV_Handler: it takes what OSPrioHighRdy and OSTCBHighRdy hold now,
\* which a tick may have renewed since the switch was asked for.
PendSV_Handler ==
  /\ pendSV /\ isr = "none"
  /\ pendSV' = FALSE
  /\ OSPrioCur' = OSPrioHighRdy
  /\ OSTCBCur' = OSTCBHighRdy
  /\ UNCHANGED <<OSRdyTbl, OSPrioHighRdy, OSTCBHighRdy, nestVars, OSTCBPrio,
                 tcbVars, OSEventTbl, callVars>>

\* Mutant: the handler reschedules although the scheduler is locked.
OSIntExit_IgnoresLock ==
  /\ OSIntNesting' = IF OSIntNesting > 0 THEN OSIntNesting - 1 ELSE 0
  /\ IF OSIntNesting' = 0 THEN SwitchToHighest ELSE UNCHANGED swVars

\* Mutant: the handler leaves without looking for a more urgent task.
OSIntExit_NoSched ==
  /\ OSIntNesting' = IF OSIntNesting > 0 THEN OSIntNesting - 1 ELSE 0
  /\ UNCHANGED swVars

\* OSIntExit, as the last call of an interrupt handler.
OSIntExit ==
  /\ OSIntNesting' = IF OSIntNesting > 0 THEN OSIntNesting - 1 ELSE 0
  /\ IF OSIntNesting' = 0 /\ OSLockNesting = 0
       THEN SwitchToHighest
       ELSE UNCHANGED swVars

OSSchedLock(t) ==
  /\ Running(t) /\ pc[t] = "task"
  /\ OSIntNesting = 0 /\ OSLockNesting < MaxLock
  /\ OSLockNesting' = OSLockNesting + 1
  /\ UNCHANGED <<OSRdyTbl, swVars, OSIntNesting, isr, OSTCBPrio, tcbVars,
                 OSEventTbl, callVars>>

\* Mutant: the nesting count goes below 0 when there was no lock.
OSSchedUnlock_NoFloor(t) ==
  /\ Running(t) /\ pc[t] = "task"
  /\ OSIntNesting = 0
  /\ OSLockNesting' = OSLockNesting - 1
  /\ pc' = IF OSLockNesting' = 0 THEN [pc EXCEPT ![t] = "sched"] ELSE pc
  /\ UNCHANGED <<OSRdyTbl, swVars, OSIntNesting, isr, OSTCBPrio, tcbVars,
                 OSEventTbl, pevent>>

\* Mutant: the last unlock does not look for what became ready meanwhile.
OSSchedUnlock_NoSched(t) ==
  /\ Running(t) /\ pc[t] = "task"
  /\ OSIntNesting = 0 /\ OSLockNesting > 0
  /\ OSLockNesting' = OSLockNesting - 1
  /\ UNCHANGED <<OSRdyTbl, swVars, OSIntNesting, isr, OSTCBPrio, tcbVars,
                 OSEventTbl, callVars>>

OSSchedUnlock(t) ==
  /\ Running(t) /\ pc[t] = "task"
  /\ OSIntNesting = 0 /\ OSLockNesting > 0
  /\ OSLockNesting' = OSLockNesting - 1
  /\ pc' = IF OSLockNesting' = 0 THEN [pc EXCEPT ![t] = "sched"] ELSE pc
  /\ UNCHANGED <<OSRdyTbl, swVars, OSIntNesting, isr, OSTCBPrio, tcbVars,
                 OSEventTbl, pevent>>

-----------------------------------------------------------------------------
(* Wait lists *)

\* OS_EventTaskRdy for each task whose priority is in ps: the loops of
\* OSxxxPendAbort and OSxxxDel call it until the list is empty, in one
\* critical section.
OS_EventTaskRdy(e, ps, result) ==
  LET woken == {t \in AllTask : OSTCBPrio[t] \in ps}
      stat(t) == OSTCBStat[t] \ {"PEND"}
  IN
  /\ OSTCBDly' = [t \in AllTask |-> IF t \in woken THEN 0 ELSE OSTCBDly[t]]
  /\ OSTCBStat' = [t \in AllTask |-> IF t \in woken THEN stat(t) ELSE OSTCBStat[t]]
  /\ OSTCBStatPend' = [t \in AllTask |-> IF t \in woken THEN result
                                                        ELSE OSTCBStatPend[t]]
  /\ OSRdyTbl' = OSRdyTbl \cup
       {OSTCBPrio[t] : t \in {u \in woken : "SUSPEND" \notin stat(u)}}
  /\ OSEventTbl' = [OSEventTbl EXCEPT ![e] = @ \ ps]
  /\ UNCHANGED OSTCBEventPtr

\* OS_EventTaskWait for the running task, with the lines of the pend
\* services that set the status, the timeout and the result before it.
OS_EventTaskWait(t, e, timeout) ==
  /\ OSTCBStat' = [OSTCBStat EXCEPT ![t] = @ \cup {"PEND"}]
  /\ OSTCBStatPend' = [OSTCBStatPend EXCEPT ![t] = "OK"]
  /\ OSTCBDly' = [OSTCBDly EXCEPT ![t] = timeout]
  /\ OSTCBEventPtr' = [OSTCBEventPtr EXCEPT ![t] = e]
  /\ OSEventTbl' = [OSEventTbl EXCEPT ![e] = @ \cup {OSTCBPrio[t]}]
  /\ OSRdyTbl' = OSRdyTbl \ {OSTCBPrio[t]}

\* OS_EventTaskRemove
OS_EventTaskRemove(t, e) ==
  OSEventTbl' = [OSEventTbl EXCEPT ![e] = @ \ {OSTCBPrio[t]}]

-----------------------------------------------------------------------------
(* Delays, suspension, priorities: the services of os_time.c and os_task.c *)

OSTimeDly(t, ticks) ==
  /\ Running(t) /\ pc[t] = "task"
  /\ OSIntNesting = 0 /\ OSLockNesting = 0 /\ ticks > 0
  /\ OSRdyTbl' = OSRdyTbl \ {OSTCBPrio[t]}
  /\ OSTCBDly' = [OSTCBDly EXCEPT ![t] = ticks]
  /\ pc' = [pc EXCEPT ![t] = "sched"]
  /\ UNCHANGED <<swVars, nestVars, OSTCBPrio, OSTCBStat, OSTCBStatPend,
                 OSTCBEventPtr, OSEventTbl, pevent>>

\* Mutant: only a delayed task is made ready, not one that pends.
DlyEnds_PendNotReady(T) ==
  LET pending(t) == "PEND" \in OSTCBStat[t] IN
  /\ OSTCBStat' = [t \in AllTask |-> IF t \in T THEN OSTCBStat[t] \ {"PEND"}
                                                ELSE OSTCBStat[t]]
  /\ OSTCBStatPend' = [t \in AllTask |->
       IF t \in T THEN (IF pending(t) THEN "TO" ELSE "OK") ELSE OSTCBStatPend[t]]
  /\ OSRdyTbl' = OSRdyTbl \cup {OSTCBPrio[t] : t \in {u \in T : OSTCBStat[u] = {}}}

\* What the tick and OSTimeDlyResume do to a task whose delay ends.
DlyEnds(T) ==
  LET pending(t) == "PEND" \in OSTCBStat[t] IN
  /\ OSTCBStat' = [t \in AllTask |-> IF t \in T THEN OSTCBStat[t] \ {"PEND"}
                                                ELSE OSTCBStat[t]]
  /\ OSTCBStatPend' = [t \in AllTask |->
       IF t \in T THEN (IF pending(t) THEN "TO" ELSE "OK") ELSE OSTCBStatPend[t]]
  /\ OSRdyTbl' = OSRdyTbl \cup
       {OSTCBPrio[t] : t \in {u \in T : "SUSPEND" \notin OSTCBStat[u]}}

OSTimeDlyResume(t, u) ==
  /\ Running(t) /\ pc[t] = "task"
  /\ OSTCBDly[u] # 0
  /\ OSTCBDly' = [OSTCBDly EXCEPT ![u] = 0]
  /\ DlyEnds({u})
  /\ pc' = IF "SUSPEND" \in OSTCBStat[u] THEN pc ELSE [pc EXCEPT ![t] = "sched"]
  /\ UNCHANGED <<swVars, nestVars, OSTCBPrio, OSTCBEventPtr, OSEventTbl, pevent>>

\* Only a task with an entry in OSTCBPrioTbl can be suspended.
OSTaskSuspend(t, u) ==
  /\ Running(t) /\ pc[t] = "task"
  /\ OSTCBPrio[u] \in AllPrio
  /\ OSRdyTbl' = OSRdyTbl \ {OSTCBPrio[u]}
  /\ OSTCBStat' = [OSTCBStat EXCEPT ![u] = @ \cup {"SUSPEND"}]
  /\ pc' = IF u = t THEN [pc EXCEPT ![t] = "sched"] ELSE pc
  /\ UNCHANGED <<swVars, nestVars, OSTCBPrio, OSTCBStatPend, OSTCBDly,
                 OSTCBEventPtr, OSEventTbl, pevent>>

\* Mutant: a task whose delay still runs is made ready.
OSTaskResume_IgnoresDly(t, u) ==
  LET ready == OSTCBStat[u] = {"SUSPEND"} IN
  /\ Running(t) /\ pc[t] = "task"
  /\ "SUSPEND" \in OSTCBStat[u]
  /\ OSTCBStat' = [OSTCBStat EXCEPT ![u] = @ \ {"SUSPEND"}]
  /\ OSRdyTbl' = IF ready THEN OSRdyTbl \cup {OSTCBPrio[u]} ELSE OSRdyTbl
  /\ pc' = IF ready THEN [pc EXCEPT ![t] = "sched"] ELSE pc
  /\ UNCHANGED <<swVars, nestVars, OSTCBPrio, OSTCBStatPend, OSTCBDly,
                 OSTCBEventPtr, OSEventTbl, pevent>>

OSTaskResume(t, u) ==
  LET ready == OSTCBStat[u] = {"SUSPEND"} /\ OSTCBDly[u] = 0 IN
  /\ Running(t) /\ pc[t] = "task"
  /\ "SUSPEND" \in OSTCBStat[u]
  /\ OSTCBStat' = [OSTCBStat EXCEPT ![u] = @ \ {"SUSPEND"}]
  /\ OSRdyTbl' = IF ready THEN OSRdyTbl \cup {OSTCBPrio[u]} ELSE OSRdyTbl
  /\ pc' = IF ready THEN [pc EXCEPT ![t] = "sched"] ELSE pc
  /\ UNCHANGED <<swVars, nestVars, OSTCBPrio, OSTCBStatPend, OSTCBDly,
                 OSTCBEventPtr, OSEventTbl, pevent>>

-----------------------------------------------------------------------------
(* Interrupts *)

\* The body of SysTick_Handler up to the task list: its own increment of
\* OSIntNesting.  The hook of OSTimeTick, which may post, is the caller's.
SysTickEnter ==
  /\ isr = "none"
  /\ isr' = "tick"
  /\ OSIntNesting' = (OSIntNesting + 1) % 256
  /\ UNCHANGED <<OSLockNesting>>

\* Mutant: the counter of a task that has no delay is decremented too.
OSTimeTick_All ==
  LET ends == {t \in Task : OSTCBDly[t] = 1} IN
  /\ isr = "tick"
  /\ isr' = "exit"
  /\ OSTCBDly' = [t \in AllTask |-> IF t \in Task THEN OSTCBDly[t] - 1 ELSE OSTCBDly[t]]
  /\ DlyEnds(ends)
  /\ UNCHANGED <<swVars, OSIntNesting, OSLockNesting, OSTCBPrio,
                 OSTCBEventPtr, OSEventTbl, callVars>>

\* The loop of OSTimeTick over the task list.  SysTick keeps the reset
\* priority, the highest: no handler runs between two TCBs.
OSTimeTick ==
  LET counting == {t \in Task : OSTCBDly[t] # 0} IN
  /\ isr = "tick"
  /\ isr' = "exit"
  /\ OSTCBDly' = [t \in AllTask |-> IF t \in counting THEN OSTCBDly[t] - 1
                                                        ELSE OSTCBDly[t]]
  /\ DlyEnds({t \in counting : OSTCBDly[t] = 1})
  /\ UNCHANGED <<swVars, OSIntNesting, OSLockNesting, OSTCBPrio,
                 OSTCBEventPtr, OSEventTbl, callVars>>

SysTickExit ==
  /\ isr = "exit"
  /\ isr' = "none"
  /\ UNCHANGED OSRdyTbl
  /\ OSIntExit
  /\ UNCHANGED <<OSLockNesting, OSTCBPrio, tcbVars, OSEventTbl, callVars>>

\* The device handlers (USART1_IRQHandler, TIM2_IRQHandler, EXTI3_IRQHandler)
\* do not announce themselves to the kernel: they call OSIntExit without
\* having incremented OSIntNesting.
DeviceIRQ ==
  /\ isr = "none"
  /\ UNCHANGED OSRdyTbl
  /\ OSIntExit
  /\ UNCHANGED <<OSLockNesting, isr, OSTCBPrio, tcbVars, OSEventTbl, callVars>>

CoreTask(t) ==
  \/ OS_Sched(t)
  \/ OSSchedLock(t)
  \/ OSSchedUnlock(t)
  \/ \E n \in 1..MaxTicks : OSTimeDly(t, n)
  \/ \E u \in Task : \/ OSTimeDlyResume(t, u)
                     \/ OSTaskSuspend(t, u)
                     \/ OSTaskResume(t, u)

-----------------------------------------------------------------------------
(* Safety: what the lists and the scheduler owe to every service *)

\* A task is in the ready list exactly when nothing holds it back: no event
\* awaited, no suspension, no delay running (OS_EventTaskRdy, OSTimeTick,
\* OSTimeDlyResume, OSTaskSuspend and OSTaskResume each decide it apart).
ReadyListOK ==
  /\ OSRdyTbl \subseteq {OSTCBPrio[t] : t \in AllTask}
  /\ \A t \in AllTask :
       OSTCBPrio[t] \in OSRdyTbl <=> OSTCBStat[t] = {} /\ OSTCBDly[t] = 0

\* Between its call and its return a pend of e is in e's wait list until it
\* is granted or aborted: a timeout alone leaves it there, and nothing else
\* is ever there (the two halves of the pends against OSTimeTick and the posts).
WaitListOK ==
  \A e \in Event : OSEventTbl[e] =
    {OSTCBPrio[t] : t \in {u \in Task : /\ pc[u] \in {"pendsched", "wake"}
                                        /\ pevent[u] = e
                                        /\ \/ "PEND" \in OSTCBStat[u]
                                           \/ OSTCBStatPend[u] = "TO"}}

\* While application code runs with the scheduler unlocked, the running task
\* is the most urgent one ready: no service, tick or handler forgets to
\* reschedule, and no switch is lost between the request and PendSV.
HighestRuns ==
  /\ isr = "none" /\ ~pendSV /\ OSLockNesting = 0
  /\ pc[OSTCBCur] \in {"task", "wake"}
  => OSTCBPrio[OSTCBCur] = Highest(OSRdyTbl)

\* The three together, for the services whose own invariants build on them.
ListsOK == ReadyListOK /\ WaitListOK /\ HighestRuns

\* The scheduler's idea of the current priority is that of the current task.
CurOK == /\ OSPrioCur = OSTCBPrio[OSTCBCur]
         /\ OSPrioHighRdy = OSTCBPrio[OSTCBHighRdy]

=============================================================================
