------------------------------- MODULE OSMutex -------------------------------
(***************************************************************************)
(* Mutexes (os_mutex.c) on the kernel of OSCore.  A task that waits for a  *)
(* mutex raises its owner to the priority ceiling of the mutex; the post   *)
(* restores the owner.  The priorities in the ready list, in the wait      *)
(* lists and in OSTCBPrioTbl change with it.                               *)
(*                                                                         *)
(* The application keeps to the notes of OSMutexPend: a task that owns a   *)
(* mutex pends on nothing, and nobody changes its priority.                *)
(***************************************************************************)
EXTENDS OSCore

CONSTANTS
  Mutex,        \* the event control blocks used for mutexes
  Ceiling,      \* the ceilings the application creates mutexes with
  NoCeiling,    \* OS_PRIO_MUTEX_CEIL_DIS
  NoTask,       \* the null pointer, in OSTCBPrioTbl and as the owner
  Reserved,     \* OS_TCB_RESERVED
  Available,    \* OS_MUTEX_AVAILABLE
  Careful       \* TRUE: every ceiling is above the tasks that compete for
                \* the mutex, none of them is delayed or suspended while it
                \* owns or awaits it, and no mutex is deleted that has been
                \* granted to a task that has not run since; a task has one
                \* mutex at a time (OSMutexAccept could give it a second)

ASSUME MutexAssumption ==
  /\ Mutex \subseteq Event
  /\ Ceiling \subseteq Prio \cup {NoCeiling}
  /\ \A t \in Task : InitPrio[t] \notin Ceiling
  /\ NoCeiling \notin AllPrio /\ Available \notin AllPrio
  /\ NoTask \notin AllTask /\ Reserved \notin AllTask /\ NoTask # Reserved
  /\ Careful \in BOOLEAN

VARIABLES
  PrioTbl,        \* OSTCBPrioTbl as the code has it
  OSMutexPCP,     \* upper byte of OSEventCnt; Available: the event is unused
  OSOwnerPrio,    \* lower byte of OSEventCnt
  OSEventPtr,     \* the owner
  inside          \* application: per mutex, who may use what it protects

ecbVars   == <<OSMutexPCP, OSOwnerPrio, OSEventPtr>>
mutexVars == <<coreVars, PrioTbl, ecbVars, inside>>

MutexTypeOK ==
  /\ TypeOK
  /\ PrioTbl \in [AllPrio -> AllTask \cup {NoTask, Reserved}]
  /\ OSMutexPCP \in [Mutex -> Ceiling \cup {Available}]
  /\ OSOwnerPrio \in [Mutex -> AllPrio \cup {Available}]
  /\ OSEventPtr \in [Mutex -> Task \cup {NoTask}]
  /\ inside \in [Mutex -> SUBSET Task]

Init == /\ CoreInit
        /\ PrioTbl = [p \in AllPrio |->
             IF \E t \in AllTask : OSTCBPrio[t] = p THEN OSTCBPrioTbl(p) ELSE NoTask]
        /\ OSMutexPCP = [m \in Mutex |-> Available]
        /\ OSOwnerPrio = [m \in Mutex |-> Available]
        /\ OSEventPtr = [m \in Mutex |-> NoTask]
        /\ inside = [m \in Mutex |-> {}]

InTask(t) == Running(t) /\ pc[t] = "task"
Exists(m) == OSMutexPCP[m] # Available
HasCeiling(m) == OSMutexPCP[m] # NoCeiling

Owns(t) == \E m \in Mutex : OSEventPtr[m] = t

\* A task above the ceiling is told so (OS_ERR_PCP_LOWER), but has the mutex.
MayUse(t, m) == Careful => /\ HasCeiling(m) => OSTCBPrio[t] > OSMutexPCP[m]
                           /\ ~Owns(t) /\ OSTCBPrio[t] \in OSRdyTbl

-----------------------------------------------------------------------------
OSMutexCreate(t, m, pcp) ==
  /\ InTask(t) /\ ~Exists(m)
  /\ pcp # NoCeiling => PrioTbl[pcp] = NoTask
  /\ PrioTbl' = IF pcp = NoCeiling THEN PrioTbl
                      ELSE [PrioTbl EXCEPT ![pcp] = Reserved]
  /\ OSMutexPCP' = [OSMutexPCP EXCEPT ![m] = pcp]
  /\ OSOwnerPrio' = [OSOwnerPrio EXCEPT ![m] = Available]
  /\ OSEventPtr' = [OSEventPtr EXCEPT ![m] = NoTask]
  /\ OSEventTbl' = [OSEventTbl EXCEPT ![m] = {}]
  /\ UNCHANGED <<OSRdyTbl, swVars, nestVars, OSTCBPrio, tcbVars, callVars, inside>>

\* OSMutexAccept, and OSMutexPend of a mutex that is available.
Take(t, m) ==
  /\ InTask(t) /\ Exists(m) /\ MayUse(t, m)
  /\ OSIntNesting = 0
  /\ OSOwnerPrio[m] = Available
  /\ OSOwnerPrio' = [OSOwnerPrio EXCEPT ![m] = OSTCBPrio[t]]
  /\ OSEventPtr' = [OSEventPtr EXCEPT ![m] = t]
  /\ inside' = [inside EXCEPT ![m] = @ \cup {t}]
  /\ UNCHANGED <<coreVars, PrioTbl, OSMutexPCP>>

\* Mutant: the ceiling is compared with the task that waits.
RaisesOwner_Above(t, m) ==
  /\ HasCeiling(m)
  /\ OSTCBPrio[OSEventPtr[m]] > OSMutexPCP[m]
  /\ OSMutexPCP[m] > OSTCBPrio[t]

\* The task that is about to wait has the owner raised to the ceiling.
RaisesOwner(t, m) ==
  /\ HasCeiling(m)
  /\ OSTCBPrio[OSEventPtr[m]] > OSMutexPCP[m]
  /\ OSOwnerPrio[m] > OSTCBPrio[t]

\* Mutant: the owner keeps its old place in the ready list.
RaisedRdyTbl_Stays(old, prio) == OSRdyTbl

RaisedRdyTbl(old, prio) ==
  IF old \in OSRdyTbl THEN (OSRdyTbl \ {old}) \cup {prio} ELSE OSRdyTbl

\* OSMutexPend of a mutex that is taken, up to its call of OS_Sched.  An owner
\* that is not ready is moved in the wait list OSTCBEventPtr names, also when
\* it is no longer in it.
OSMutexPend(t, m, timeout) ==
  LET owner == OSEventPtr[m]
      old   == OSTCBPrio[owner]
      raise == RaisesOwner(t, m)
      prio  == IF raise THEN OSMutexPCP[m] ELSE old
      moved == [e \in Event |->
        IF raise /\ old \notin OSRdyTbl /\ e = OSTCBEventPtr[owner]
        THEN (OSEventTbl[e] \ {old}) \cup {prio} ELSE OSEventTbl[e]]
  IN
  /\ InTask(t) /\ Exists(m) /\ MayUse(t, m) /\ ~Owns(t)
  /\ OSIntNesting = 0 /\ OSLockNesting = 0
  /\ OSOwnerPrio[m] # Available
  /\ OSTCBPrio' = [OSTCBPrio EXCEPT ![owner] = prio]
  /\ PrioTbl' = IF raise THEN [PrioTbl EXCEPT ![prio] = owner]
                               ELSE PrioTbl
  /\ OSRdyTbl' = RaisedRdyTbl(old, prio) \ {OSTCBPrio[t]}
  /\ OSEventTbl' = [moved EXCEPT ![m] = @ \cup {OSTCBPrio[t]}]
  /\ OSTCBStat' = [OSTCBStat EXCEPT ![t] = @ \cup {"PEND"}]
  /\ OSTCBStatPend' = [OSTCBStatPend EXCEPT ![t] = "OK"]
  /\ OSTCBDly' = [OSTCBDly EXCEPT ![t] = timeout]
  /\ OSTCBEventPtr' = [OSTCBEventPtr EXCEPT ![t] = m]
  /\ pc' = [pc EXCEPT ![t] = "pendsched"]
  /\ pevent' = [pevent EXCEPT ![t] = m]
  /\ UNCHANGED <<swVars, nestVars, ecbVars, inside>>

\* Mutant: a pend that timed out takes itself for granted.
Granted_Timeout(t) == OSTCBStatPend[t] # "ABORT"

\* The pend returns OS_ERR_NONE.
Granted(t) == OSTCBStatPend[t] = "OK"

Leaves(t) == IF OSTCBStatPend[t] = "TO" THEN OS_EventTaskRemove(t, pevent[t])
                                        ELSE UNCHANGED OSEventTbl

\* OSMutexPend after OS_Sched, when the task runs again.
OSMutexPendEnd(t) ==
  /\ Running(t) /\ pc[t] = "wake"
  /\ Leaves(t)
  /\ inside' = IF Granted(t) THEN [inside EXCEPT ![pevent[t]] = @ \cup {t}] ELSE inside
  /\ OSTCBStat' = [OSTCBStat EXCEPT ![t] = {}]
  /\ OSTCBStatPend' = [OSTCBStatPend EXCEPT ![t] = "OK"]
  /\ OSTCBEventPtr' = [OSTCBEventPtr EXCEPT ![t] = NoEvent]
  /\ pc' = [pc EXCEPT ![t] = "task"]
  /\ pevent' = [pevent EXCEPT ![t] = NoEvent]
  /\ UNCHANGED <<OSRdyTbl, swVars, nestVars, OSTCBPrio, OSTCBDly, PrioTbl,
                 ecbVars>>

-----------------------------------------------------------------------------
\* Mutant: an owner at the ceiling is not seen as raised.
WasRaised_Above(t, m) == HasCeiling(m) /\ t # NoTask /\ OSTCBPrio[t] < OSMutexPCP[m]

\* The owner runs at the ceiling, so the mutex has raised it.
WasRaised(t, m) == HasCeiling(m) /\ t # NoTask /\ OSTCBPrio[t] = OSMutexPCP[m]

\* The ready list after OSMutex_RdyAtPrio, which makes the task ready at prio
\* whether or not it was ready.
OSMutex_RdyAtPrio(t, prio) == (OSRdyTbl \ {OSTCBPrio[t]}) \cup {prio}

\* What OSMutexPost and OSMutexDel do to the priority of the owner.  The
\* priority is also taken for that of the running task, whoever owns the mutex.
Restore(t, m) ==
  LET prio == OSOwnerPrio[m] IN
  IF WasRaised(t, m)
  THEN OSTCBPrio' = [OSTCBPrio EXCEPT ![t] = prio] /\ OSPrioCur' = prio
  ELSE UNCHANGED <<OSTCBPrio, OSPrioCur>>

RestoredRdyTbl(t, m) ==
  IF WasRaised(t, m) THEN OSMutex_RdyAtPrio(t, OSOwnerPrio[m]) ELSE OSRdyTbl

\* Mutant: the owner is not found at the priority it has again.
RestoredPrioTbl_Raised(t, m, ceiling) ==
  [p \in AllPrio |-> IF WasRaised(t, m) /\ p = OSOwnerPrio[m] THEN t ELSE PrioTbl[p]]

\* OSTCBPrioTbl then; the ceiling is free for use or reserved again.
RestoredPrioTbl(t, m, ceiling) ==
  [p \in AllPrio |-> CASE HasCeiling(m) /\ p = OSMutexPCP[m] -> ceiling
                       [] WasRaised(t, m) /\ p = OSOwnerPrio[m] -> t
                       [] OTHER -> PrioTbl[p]]

\* OS_EventTaskRdy for the tasks at the priorities ps of the wait list, after
\* Restore: rdy is the ready list it finds.
EventTaskRdy(m, ps, result, rdy) ==
  LET woken == {PrioTbl[p] : p \in ps}
      stat(t) == OSTCBStat[t] \ {"PEND"}
  IN
  /\ OSTCBDly' = [t \in AllTask |-> IF t \in woken THEN 0 ELSE OSTCBDly[t]]
  /\ OSTCBStat' = [t \in AllTask |-> IF t \in woken THEN stat(t) ELSE OSTCBStat[t]]
  /\ OSTCBStatPend' = [t \in AllTask |-> IF t \in woken THEN result
                                                        ELSE OSTCBStatPend[t]]
  /\ OSRdyTbl' = rdy \cup {p \in ps : "SUSPEND" \notin stat(PrioTbl[p])}
  /\ OSEventTbl' = [OSEventTbl EXCEPT ![m] = @ \ ps]
  /\ UNCHANGED OSTCBEventPtr

\* OSMutexPost by the owner.  The caller reschedules only if a task waited.
OSMutexPost(t, m) ==
  LET waiting == OSEventTbl[m]
      ps == IF waiting = {} THEN {} ELSE {Highest(waiting)}
  IN
  /\ InTask(t) /\ Exists(m)
  /\ OSIntNesting = 0
  /\ OSEventPtr[m] = t
  /\ Restore(t, m)
  /\ EventTaskRdy(m, ps, "OK", RestoredRdyTbl(t, m))
  /\ PrioTbl' = RestoredPrioTbl(t, m, Reserved)
  /\ IF waiting = {}
     THEN /\ OSOwnerPrio' = [OSOwnerPrio EXCEPT ![m] = Available]
          /\ OSEventPtr' = [OSEventPtr EXCEPT ![m] = NoTask]
          /\ UNCHANGED pc
     ELSE /\ OSOwnerPrio' = [OSOwnerPrio EXCEPT ![m] = Highest(waiting)]
          /\ OSEventPtr' = [OSEventPtr EXCEPT ![m] = PrioTbl[Highest(waiting)]]
          /\ pc' = [pc EXCEPT ![t] = "sched"]
  /\ inside' = [inside EXCEPT ![m] = @ \ {t}]
  /\ UNCHANGED <<OSTCBCur, OSPrioHighRdy, OSTCBHighRdy, pendSV, nestVars, pevent,
                 OSMutexPCP>>

MayDelete(m) == Careful =>
  \A t \in Task : pevent[t] = m => OSTCBPrio[t] \in OSEventTbl[m]

\* OSMutexDel with OS_DEL_ALWAYS; its note 4 asks that the owner be ready.
OSMutexDel(t, m) ==
  LET owner == OSEventPtr[m] IN
  /\ InTask(t) /\ Exists(m)
  /\ OSIntNesting = 0
  /\ MayDelete(m) /\ (Careful => OSLockNesting = 0)
  /\ owner # NoTask => OSTCBPrio[owner] \in OSRdyTbl
  /\ Restore(owner, m)
  /\ EventTaskRdy(m, OSEventTbl[m], "ABORT", RestoredRdyTbl(owner, m))
  /\ PrioTbl' = RestoredPrioTbl(owner, m, NoTask)
  /\ OSMutexPCP' = [OSMutexPCP EXCEPT ![m] = Available]
  /\ OSOwnerPrio' = [OSOwnerPrio EXCEPT ![m] = Available]
  /\ OSEventPtr' = [OSEventPtr EXCEPT ![m] = NoTask]
  /\ inside' = [inside EXCEPT ![m] = {}]
  /\ pc' = IF OSEventTbl[m] # {} THEN [pc EXCEPT ![t] = "sched"] ELSE pc
  /\ UNCHANGED <<OSTCBCur, OSPrioHighRdy, OSTCBHighRdy, pendSV, nestVars, pevent>>

\* OSMutexDel with OS_DEL_NO_PEND: an owner is not looked at.
OSMutexDelNoPend(t, m) ==
  /\ InTask(t) /\ Exists(m)
  /\ OSIntNesting = 0
  /\ MayDelete(m) /\ OSEventTbl[m] = {}
  /\ PrioTbl' = IF HasCeiling(m) THEN [PrioTbl EXCEPT ![OSMutexPCP[m]] = NoTask]
                                       ELSE PrioTbl
  /\ OSMutexPCP' = [OSMutexPCP EXCEPT ![m] = Available]
  /\ OSOwnerPrio' = [OSOwnerPrio EXCEPT ![m] = Available]
  /\ OSEventPtr' = [OSEventPtr EXCEPT ![m] = NoTask]
  /\ inside' = [inside EXCEPT ![m] = {}]
  /\ UNCHANGED coreVars

-----------------------------------------------------------------------------
MayStop(t) ==
  Careful => \A m \in Mutex : OSEventPtr[m] # t /\ OSTCBPrio[t] \notin OSEventTbl[m]

MutexTask(t) ==
  \/ OSMutexPendEnd(t)
  \/ \E m \in Mutex :
       \/ \E c \in Ceiling : OSMutexCreate(t, m, c)
       \/ Take(t, m)
       \/ \E n \in 0..MaxTicks : OSMutexPend(t, m, n)
       \/ OSMutexPost(t, m)
       \/ OSMutexDel(t, m)
       \/ OSMutexDelNoPend(t, m)

Core(t) ==
  \/ OS_Sched(t)
  \/ OSSchedLock(t)
  \/ OSSchedUnlock(t)
  \/ MayStop(t) /\ \E n \in 1..MaxTicks : OSTimeDly(t, n)
  \/ \E u \in Task : \/ MayStop(u) /\ OSTaskSuspend(t, u)
                     \/ OSTaskResume(t, u)

Tick == SysTickEnter /\ UNCHANGED <<OSRdyTbl, swVars, OSTCBPrio, tcbVars,
                                    OSEventTbl, callVars>>

Kernel == PendSV_Handler \/ Tick \/ OSTimeTick \/ SysTickExit

Next == \/ Kernel /\ UNCHANGED <<PrioTbl, ecbVars, inside>>
        \/ \E t \in Task : \/ Core(t) /\ UNCHANGED <<PrioTbl, ecbVars, inside>>
                           \/ MutexTask(t)

Spec == Init /\ [][Next]_mutexVars

-----------------------------------------------------------------------------
\* What a mutex protects is used by one task at a time, the owner.
MutualExclusion ==
  \A m \in Mutex : \A t \in inside[m] : inside[m] = {t} /\ OSEventPtr[m] = t

\* No inversion: while a task waits for a mutex, its owner runs at least at the
\* urgency of that task, or at the ceiling where the task is above it.
NoInversion ==
  \A m \in Mutex : Exists(m) /\ HasCeiling(m) =>
    \A p \in OSEventTbl[m] : OSTCBPrio[OSEventPtr[m]] <= p
                             \/ OSTCBPrio[OSEventPtr[m]] <= OSMutexPCP[m]

\* A task that owns no mutex runs at its own priority: no post, timeout or
\* deletion leaves it raised.
PriorityRestored == \A t \in Task : ~Owns(t) => OSTCBPrio[t] = InitPrio[t]

\* The comment of OSMutex_RdyAtPrio on OSPrioCur: "The current task is now at
\* this priority".
PrioCurIsCurrent == OSPrioCur = OSTCBPrio[OSTCBCur]

\* OSTCBPrioTbl names each task at the priority it has now, and keeps every
\* ceiling from being given to a task or to a second mutex.
PrioTblOK ==
  /\ \A t \in AllTask : PrioTbl[OSTCBPrio[t]] = t
  /\ \A m \in Mutex : Exists(m) /\ HasCeiling(m) =>
       PrioTbl[OSMutexPCP[m]] \in {Reserved, OSEventPtr[m]}
  /\ \A t, u \in AllTask : OSTCBPrio[t] = OSTCBPrio[u] => t = u

=============================================================================
