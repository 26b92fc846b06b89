------------------------------- MODULE OSTask -------------------------------
(***************************************************************************)
(* Tasks that come and go (os_task.c): creation, deletion and change of    *)
(* priority at run time, among tasks that use semaphores.  OSTCBPrio[t] is *)
(* NoPrio while t's control block is on OSTCBFreeList.                     *)
(*                                                                         *)
(* OSTaskCreate is three critical sections: it reserves the priority,      *)
(* OS_TCBInit enters the control block into OSTCBPrioTbl, and only then    *)
(* makes the task ready.  Any task of higher priority may run in between.  *)
(*                                                                         *)
(* OSTaskChangePrio and OSTaskDel look at OSTCBEventPtr to know whether a  *)
(* task is in a wait list; a post leaves it set until the task has run.    *)
(***************************************************************************)
EXTENDS OSSem

\* TRUE: the application changes the priority of no task whose pend has ended
\* and which has not run since, calls no service on a task that another one is
\* still creating, and with the scheduler locked neither deletes its own task
\* nor changes its priority.  Nothing in the code or its documentation asks
\* for it.
CONSTANT Careful

ASSUME TaskAssumption == Careful \in BOOLEAN

VARIABLES
  reserved,   \* per task, the priority its OSTaskCreate holds as OS_TCB_RESERVED
  newborn     \* per task, the tasks it has entered in OSTCBPrioTbl, not yet ready

createVars == <<reserved, newborn>>
taskVars == <<semVars, createVars>>

NoPrio == IdlePrio + 1

Dead(t) == OSTCBPrio[t] = NoPrio
Newborn == UNION {newborn[t] : t \in Task}
Creating(t) == reserved[t] # NoPrio

\* OSTCBPrioTbl[p] is a null pointer: no task has p, and no one reserved it.
FreePrio(p) == p \notin {OSTCBPrio[t] : t \in AllTask} \cup {reserved[t] : t \in Task}

PendEnded(u) == /\ pc[u] \in {"pendsched", "wake"}
                /\ "PEND" \notin OSTCBStat[u]
                /\ OSTCBStatPend[u] # "TO"

TaskInit == /\ Init
            /\ reserved = [t \in Task |-> NoPrio]
            /\ newborn = [t \in Task |-> {}]

-----------------------------------------------------------------------------
(* Change of priority *)

\* The wait list of the event OSTCBEventPtr names, with u under its new number.
Relisted(u, newprio) ==
  IF OSTCBEventPtr[u] = NoEvent THEN OSEventTbl
  ELSE [OSEventTbl EXCEPT ![OSTCBEventPtr[u]] = (@ \ {OSTCBPrio[u]}) \cup {newprio}]

OSTaskChangePrio(t, u, newprio) ==
  /\ InTask(t)
  /\ ~Dead(u) /\ FreePrio(newprio)
  /\ Careful => ~PendEnded(u) /\ u \notin Newborn /\ (u = t => OSLockNesting = 0)
  /\ OSTCBPrio' = [OSTCBPrio EXCEPT ![u] = newprio]
  /\ OSRdyTbl' = IF OSTCBPrio[u] \in OSRdyTbl
                   THEN (OSRdyTbl \ {OSTCBPrio[u]}) \cup {newprio}
                   ELSE OSRdyTbl
  /\ OSEventTbl' = Relisted(u, newprio)
  /\ pc' = [pc EXCEPT ![t] = "sched"]
  /\ UNCHANGED <<swVars, nestVars, tcbVars, pevent, OSEventCnt, OSTmrCtr, createVars>>

-----------------------------------------------------------------------------
(* Creation *)

\* Mutant: the priority is looked up but not reserved.
OSTaskCreate_NotReserved(t, p) ==
  /\ InTask(t)
  /\ OSIntNesting = 0
  /\ p \notin {OSTCBPrio[u] : u \in AllTask}
  /\ reserved' = [reserved EXCEPT ![t] = p]
  /\ UNCHANGED <<semVars, newborn>>

\* OSTaskCreate up to its call of OS_TCBInit.
OSTaskCreate(t, p) ==
  /\ InTask(t)
  /\ OSIntNesting = 0
  /\ FreePrio(p)
  /\ reserved' = [reserved EXCEPT ![t] = p]
  /\ UNCHANGED <<semVars, newborn>>

\* OS_TCBInit up to OSTCBPrioTbl[prio] = ptcb; without a free control block
\* OSTaskCreate gives the priority back.
OS_TCBInit(t) ==
  /\ Running(t) /\ Creating(t) /\ newborn[t] = {}
  /\ \/ \E u \in Task :
          /\ Dead(u)
          /\ OSTCBPrio' = [OSTCBPrio EXCEPT ![u] = reserved[t]]
          /\ OSTCBStat' = [OSTCBStat EXCEPT ![u] = {}]
          /\ OSTCBStatPend' = [OSTCBStatPend EXCEPT ![u] = "OK"]
          /\ OSTCBDly' = [OSTCBDly EXCEPT ![u] = 0]
          /\ OSTCBEventPtr' = [OSTCBEventPtr EXCEPT ![u] = NoEvent]
          /\ pc' = [pc EXCEPT ![u] = "task"]
          /\ pevent' = [pevent EXCEPT ![u] = NoEvent]
          /\ newborn' = [newborn EXCEPT ![t] = {u}]
          /\ UNCHANGED reserved
     \/ /\ \A u \in Task : ~Dead(u)
        /\ reserved' = [reserved EXCEPT ![t] = NoPrio]
        /\ UNCHANGED <<OSTCBPrio, tcbVars, callVars, newborn>>
  /\ UNCHANGED <<OSRdyTbl, swVars, nestVars, OSEventTbl, OSEventCnt, OSTmrCtr>>

\* Mutant: the creator goes on although the new task is more urgent.
OS_TCBReady_NoSched(t) ==
  /\ Running(t) /\ newborn[t] # {}
  /\ OSRdyTbl' = OSRdyTbl \cup {OSTCBPrio[u] : u \in newborn[t]}
  /\ reserved' = [reserved EXCEPT ![t] = NoPrio]
  /\ newborn' = [newborn EXCEPT ![t] = {}]
  /\ UNCHANGED <<swVars, nestVars, OSTCBPrio, tcbVars, OSEventTbl, callVars,
                 OSEventCnt, OSTmrCtr>>

\* The end of OS_TCBInit, which makes the task ready; OS_Sched is next.
OS_TCBReady(t) ==
  /\ Running(t) /\ newborn[t] # {}
  /\ OSRdyTbl' = OSRdyTbl \cup {OSTCBPrio[u] : u \in newborn[t]}
  /\ reserved' = [reserved EXCEPT ![t] = NoPrio]
  /\ newborn' = [newborn EXCEPT ![t] = {}]
  /\ pc' = [pc EXCEPT ![t] = "sched"]
  /\ UNCHANGED <<swVars, nestVars, OSTCBPrio, tcbVars, OSEventTbl, pevent,
                 OSEventCnt, OSTmrCtr>>

-----------------------------------------------------------------------------
(* Deletion *)

\* Mutant: the priority stays in the wait list of the task's event.
Unlisted_Not(u) == OSEventTbl

Unlisted(u) ==
  IF OSTCBEventPtr[u] = NoEvent THEN OSEventTbl
  ELSE [OSEventTbl EXCEPT ![OSTCBEventPtr[u]] = @ \ {OSTCBPrio[u]}]

\* OSTaskDel.  Between its two critical sections the task is in no list and
\* the scheduler is locked: no other task runs and nothing can reach it, so
\* that they are one step.  What a creator holds goes with it for ever.
OSTaskDel(t, u) ==
  /\ InTask(t)
  /\ OSIntNesting = 0
  /\ ~Dead(u)
  /\ Careful => u \notin Newborn /\ ~Creating(u) /\ (u = t => OSLockNesting = 0)
  /\ OSRdyTbl' = OSRdyTbl \ {OSTCBPrio[u]}
  /\ OSEventTbl' = Unlisted(u)
  /\ OSTCBDly' = [OSTCBDly EXCEPT ![u] = 0]
  /\ OSTCBStat' = [OSTCBStat EXCEPT ![u] = {}]
  /\ OSTCBStatPend' = [OSTCBStatPend EXCEPT ![u] = "OK"]
  /\ OSTCBPrio' = [OSTCBPrio EXCEPT ![u] = NoPrio]
  /\ pc' = [pc EXCEPT ![u] = "task", ![t] = "sched"]
  /\ pevent' = [pevent EXCEPT ![u] = NoEvent]
  /\ UNCHANGED <<swVars, nestVars, OSTCBEventPtr, OSEventCnt, OSTmrCtr, createVars>>

-----------------------------------------------------------------------------
\* A task inside OSTaskCreate does nothing else.
TaskNext ==
  \/ /\ \/ SysTick_Handler
        \/ Kernel /\ UNCHANGED <<OSEventCnt, OSTmrCtr>>
        \/ \E t \in Task : /\ ~Creating(t)
                           /\ \/ CoreTask(t) /\ UNCHANGED <<OSEventCnt, OSTmrCtr>>
                              \/ SemTask(t)
                           /\ Careful => \A u \in Newborn : OSTCBStat'[u] = OSTCBStat[u]
     /\ UNCHANGED createVars
  \/ \E t \in Task :
       \/ /\ ~Creating(t)
          /\ \/ \E u \in Task : \/ \E p \in Prio : OSTaskChangePrio(t, u, p)
                                \/ OSTaskDel(t, u)
             \/ \E p \in Prio : OSTaskCreate(t, p)
       \/ OS_TCBInit(t)
       \/ OS_TCBReady(t)

TaskSpec == TaskInit /\ [][TaskNext]_taskVars

-----------------------------------------------------------------------------
\* OSTCBPrioTbl has one entry per priority: no two tasks, and no task and a
\* creation under way, share one, whatever happens between the critical
\* sections of OSTaskCreate (os_task.c: "Reserve the priority to prevent
\* others from doing this ... until task is created.").
OnePrioEach ==
  /\ \A t, u \in AllTask : t # u /\ ~Dead(t) => OSTCBPrio[t] # OSTCBPrio[u]
  /\ \A t, u \in Task : /\ t # u /\ Creating(t) => reserved[t] # reserved[u]
                        /\ Creating(t) /\ u \notin newborn[t]
                             => reserved[t] # OSTCBPrio[u]

\* Every task that exists is in the ready list exactly when nothing holds it
\* back, and the deleted ones and those still being created are in no list.
LiveReadyOK ==
  /\ OSRdyTbl \subseteq {OSTCBPrio[t] : t \in AllTask} \ {NoPrio}
  /\ \A t \in AllTask : ~Dead(t) =>
       (OSTCBPrio[t] \in OSRdyTbl
          <=> OSTCBStat[t] = {} /\ OSTCBDly[t] = 0 /\ t \notin Newborn)

=============================================================================
