----------------------------- MODULE OSCoreProof ----------------------------
(***************************************************************************)
(* Facts about the operators of OSCore, and the preservation of the        *)
(* kernel's types by each of its actions, for every number of tasks and    *)
(* events and any assignment of priorities.                                *)
(***************************************************************************)
EXTENDS OSCore, TLAPS, WellFoundedInduction

\* The order of priorities as a relation, for the library's WFMin.
Before == {ss \in Nat \X Nat : ss[1] < ss[2]}

\* A set of priorities that is not empty has a most urgent one: OSUnMapTbl's
\* lookup is defined on every ready list and wait list that is not empty.
LEMMA LeastExists ==
  ASSUME NEW S, S \subseteq Nat, S # {}
  PROVE  \E p \in S : \A q \in S : p <= q
<1>1. IsWellFoundedOn(Before, Nat)
  BY NatLessThanWellFounded, Zenon DEF OpToRel, Before
<1>2. PICK p \in S : \A q \in S : <<q, p>> \notin Before
  BY <1>1, WFMin, Zenon
<1>3. ASSUME NEW q \in S
      PROVE  p <= q
  <2>1. p \in Nat /\ q \in Nat
    OBVIOUS
  <2>2. q < p => <<q, p>> \in Before
    BY <2>1 DEF Before
  <2> QED
    BY <1>2, <2>1, <2>2
<1> QED
  BY <1>3

\* What Highest (OS_SchedNew) returns.
LEMMA HighestIsLeast ==
  ASSUME NEW S, S \subseteq Nat, S # {}
  PROVE  Highest(S) \in S /\ \A q \in S : Highest(S) <= q
BY LeastExists DEF Highest

\* The priorities given at creation tell the tasks apart, and the idle
\* task's is none of the application's.
LEMMA PrioFacts ==
  /\ InitOSTCBPrio \in [AllTask -> AllPrio]
  /\ AllPrio \subseteq Nat
  /\ InitOSTCBPrio[IdleTask] = IdlePrio
  /\ \A t \in Task : InitOSTCBPrio[t] \in Prio /\ InitOSTCBPrio[t] # IdlePrio
  /\ \A t, u \in AllTask : InitOSTCBPrio[t] = InitOSTCBPrio[u] => t = u
<1>1. \A p \in Prio : p \in Nat /\ IdlePrio \in Nat /\ p # IdlePrio
  BY CoreAssumption
<1>2. \A t \in Task : InitOSTCBPrio[t] = InitPrio[t] /\ InitPrio[t] \in Prio
  BY CoreAssumption DEF InitOSTCBPrio, AllTask
<1>3. InitOSTCBPrio[IdleTask] = IdlePrio
  BY DEF InitOSTCBPrio, AllTask
<1>4. InitOSTCBPrio \in [AllTask -> AllPrio]
  BY CoreAssumption DEF InitOSTCBPrio, AllTask, AllPrio
<1>5. \A t, u \in AllTask : InitOSTCBPrio[t] = InitOSTCBPrio[u] => t = u
  BY <1>1, <1>2, <1>3, CoreAssumption DEF AllTask
<1> QED
  BY <1>1, <1>2, <1>3, <1>4, <1>5, CoreAssumption DEF AllPrio

\* Priorities tell the tasks apart.  No service of OSCore changes one, but the
\* mutexes do.
PrioMapOK ==
  /\ OSTCBPrio \in [AllTask -> AllPrio]
  /\ OSTCBPrio[IdleTask] = IdlePrio
  /\ \A t, u \in AllTask : OSTCBPrio[t] = OSTCBPrio[u] => t = u

\* The ready list holds priorities of tasks, and always that of the idle task.
PrioInv ==
  /\ PrioMapOK
  /\ OSRdyTbl \subseteq {OSTCBPrio[t] : t \in AllTask}
  /\ IdlePrio \in OSRdyTbl

CoreTypeInv == TypeOK /\ PrioInv

\* The task OSTCBPrioTbl finds is the one that has the priority.
LEMMA PrioTblFinds ==
  ASSUME NEW p \in {OSTCBPrio[t] : t \in AllTask}
  PROVE  /\ OSTCBPrioTbl(p) \in AllTask
         /\ OSTCBPrio[OSTCBPrioTbl(p)] = p
BY DEF OSTCBPrioTbl

\* The priorities given at creation are such a map.
LEMMA InitPrioMap ==
  ASSUME OSTCBPrio = InitOSTCBPrio
  PROVE  PrioMapOK
BY PrioFacts DEF PrioMapOK

\* The priorities of tasks are natural numbers, and no application task has
\* that of the idle task.
LEMMA TaskPrios ==
  ASSUME PrioMapOK
  PROVE  /\ {OSTCBPrio[t] : t \in AllTask} \subseteq AllPrio
         /\ {OSTCBPrio[t] : t \in AllTask} \subseteq Nat
         /\ \A t \in Task : OSTCBPrio[t] # IdlePrio
<1>1. \A t \in AllTask : OSTCBPrio[t] \in AllPrio
  BY DEF PrioMapOK
<1>2. \A t \in Task : OSTCBPrio[t] # IdlePrio
  BY CoreAssumption DEF PrioMapOK, AllTask
<1> QED
  BY <1>1, <1>2, PrioFacts

\* What a reschedule finds in a ready list R that holds the idle task.
LEMMA SwitchFinds ==
  ASSUME PrioMapOK,
         NEW R \in SUBSET {OSTCBPrio[t] : t \in AllTask},
         IdlePrio \in R
  PROVE  /\ Highest(R) \in AllPrio
         /\ Highest(R) \in R
         /\ \A q \in R : Highest(R) <= q
         /\ OSTCBPrioTbl(Highest(R)) \in AllTask
         /\ OSTCBPrio[OSTCBPrioTbl(Highest(R))] = Highest(R)
<1>1. R \subseteq AllPrio /\ R \subseteq Nat
  BY TaskPrios
<1>2. Highest(R) \in R /\ \A q \in R : Highest(R) <= q
  BY <1>1, HighestIsLeast
<1> QED
  BY <1>1, <1>2, PrioTblFinds

LEMMA CoreInitTyped ==
  ASSUME CoreInit
  PROVE  CoreTypeInv
<1> USE DEF CoreInit
<1>1. OSRdyTbl = {OSTCBPrio[t] : t \in AllTask} /\ PrioMapOK
  BY InitPrioMap
<1>2. IdlePrio \in OSRdyTbl
  BY <1>1 DEF PrioMapOK, AllTask
<1>3. OSTCBHighRdy \in AllTask /\ OSPrioHighRdy \in AllPrio
  BY <1>1, <1>2, SwitchFinds
<1>4. OSRdyTbl \subseteq AllPrio
  BY <1>1, TaskPrios
<1>5. OSTCBPrio \in [AllTask -> AllPrio]
  BY <1>1 DEF PrioMapOK
<1>6. TypeOK
  <2>1. /\ OSPrioCur \in AllPrio /\ OSTCBCur \in AllTask
        /\ OSIntNesting \in Nat /\ OSLockNesting \in 0..MaxLock
        /\ isr \in {"none", "tick", "exit"}
    BY <1>3, CoreAssumption
  <2>2. pendSV \in BOOLEAN
    OBVIOUS
  <2>3. /\ OSTCBStat \in [AllTask -> SUBSET Flag]
        /\ OSTCBStatPend \in [AllTask -> PendResult]
        /\ OSTCBDly \in [AllTask -> 0..MaxTicks]
        /\ OSTCBEventPtr \in [AllTask -> Event \cup {NoEvent}]
        /\ OSEventTbl \in [Event -> SUBSET AllPrio]
        /\ pc \in [AllTask -> Pc]
        /\ pevent \in [AllTask -> Event \cup {NoEvent}]
    BY CoreAssumption DEF PendResult, Pc
  <2> QED
    BY <1>3, <1>4, <1>5, <2>1, <2>2, <2>3 DEF TypeOK
<1> QED
  BY <1>1, <1>2, <1>6 DEF CoreTypeInv, PrioInv

(***************************************************************************)
(* Each action keeps the types.                                            *)
(***************************************************************************)

\* Taking an application task out of the ready list, or putting any in,
\* leaves it a list of tasks' priorities with the idle task's in it.
LEMMA ReadyListTyped ==
  ASSUME CoreTypeInv,
         NEW t \in Task, NEW T \in SUBSET AllTask
  PROVE  /\ OSRdyTbl \ {OSTCBPrio[t]} \subseteq {OSTCBPrio[u] : u \in AllTask}
         /\ IdlePrio \in OSRdyTbl \ {OSTCBPrio[t]}
         /\ OSRdyTbl \cup {OSTCBPrio[u] : u \in T} \subseteq {OSTCBPrio[u] : u \in AllTask}
         /\ IdlePrio \in OSRdyTbl \cup {OSTCBPrio[u] : u \in T}
BY TaskPrios DEF CoreTypeInv, PrioInv

\* The variables of the context switch, after a reschedule.
SwTypeOK ==
  /\ OSPrioCur \in AllPrio /\ OSPrioHighRdy \in AllPrio
  /\ OSTCBCur \in AllTask /\ OSTCBHighRdy \in AllTask
  /\ pendSV \in BOOLEAN

LEMMA SwitchTyped ==
  ASSUME CoreTypeInv, OSTCBPrio' = OSTCBPrio,
         OSRdyTbl' \subseteq {OSTCBPrio[t] : t \in AllTask},
         IdlePrio \in OSRdyTbl',
         SwitchToHighest \/ UNCHANGED swVars
  PROVE  SwTypeOK'
<1>1. CASE SwitchToHighest
  <2>1. /\ Highest(OSRdyTbl') \in AllPrio
        /\ OSTCBPrioTbl(Highest(OSRdyTbl')) \in AllTask
    BY SwitchFinds DEF CoreTypeInv, PrioInv
  <2>2. pendSV' \in BOOLEAN
    BY <1>1 DEF SwitchToHighest
  <2> QED
    BY <1>1, <2>1, <2>2 DEF SwitchToHighest, SwTypeOK, CoreTypeInv, TypeOK
<1>2. CASE UNCHANGED swVars
  BY <1>2 DEF swVars, SwTypeOK, CoreTypeInv, TypeOK
<1> QED
  BY <1>1, <1>2

\* Types of the variables that no reschedule touches.
RestTypeOK ==
  /\ OSIntNesting \in Nat
  /\ OSLockNesting \in 0..MaxLock
  /\ isr \in {"none", "tick", "exit"}
  /\ OSTCBStat \in [AllTask -> SUBSET Flag]
  /\ OSTCBStatPend \in [AllTask -> PendResult]
  /\ OSTCBDly \in [AllTask -> 0..MaxTicks]
  /\ OSTCBEventPtr \in [AllTask -> Event \cup {NoEvent}]
  /\ OSEventTbl \in [Event -> SUBSET AllPrio]
  /\ pc \in [AllTask -> Pc]
  /\ pevent \in [AllTask -> Event \cup {NoEvent}]

LEMMA TypedByParts ==
  /\ CoreTypeInv <=> PrioInv /\ SwTypeOK /\ RestTypeOK
  /\ CoreTypeInv' <=> PrioInv' /\ SwTypeOK' /\ RestTypeOK'
<1>1. PrioInv => OSTCBPrio \in [AllTask -> AllPrio] /\ OSRdyTbl \subseteq AllPrio
  BY TaskPrios DEF PrioInv, PrioMapOK
<1>2. PrioInv' => OSTCBPrio' \in [AllTask -> AllPrio] /\ OSRdyTbl' \subseteq AllPrio
  BY DEF PrioInv, PrioMapOK
<1>3. CoreTypeInv <=> PrioInv /\ SwTypeOK /\ RestTypeOK
  BY <1>1 DEF CoreTypeInv, TypeOK, SwTypeOK, RestTypeOK
<1>4. CoreTypeInv' <=> PrioInv' /\ SwTypeOK' /\ RestTypeOK'
  BY <1>2 DEF CoreTypeInv, TypeOK, SwTypeOK, RestTypeOK
<1> QED
  BY <1>3, <1>4

LEMMA OS_SchedTyped ==
  ASSUME CoreTypeInv, NEW t \in Task, OS_Sched(t)
  PROVE  CoreTypeInv'
<1>1. SwitchToHighest \/ UNCHANGED swVars
  BY DEF OS_Sched
<1>2. PrioInv' /\ OSTCBPrio' = OSTCBPrio /\ OSRdyTbl' = OSRdyTbl
  BY DEF OS_Sched, CoreTypeInv, PrioInv, PrioMapOK
<1>3. SwTypeOK'
  BY <1>1, <1>2, SwitchTyped DEF CoreTypeInv, PrioInv
<1>4. RestTypeOK'
  BY DEF OS_Sched, RestTypeOK, CoreTypeInv, TypeOK, nestVars, tcbVars, Pc
<1> QED
  BY <1>2, <1>3, <1>4, TypedByParts

\* The services of a task other than OS_Sched only change the ready list, the
\* lock, the TCBs and where the task is.
LEMMA CoreTaskTyped ==
  ASSUME CoreTypeInv, NEW t \in Task, CoreTask(t)
  PROVE  CoreTypeInv'
<1> USE DEF CoreTypeInv, PrioInv, PrioMapOK
<1>1. CASE OS_Sched(t)
  BY <1>1, OS_SchedTyped
<1>2. CASE OSSchedLock(t)
  <2>1. PrioInv' /\ SwTypeOK'
    BY <1>2 DEF OSSchedLock, swVars, SwTypeOK, TypeOK
  <2>2. RestTypeOK'
    BY <1>2, CoreAssumption DEF OSSchedLock, tcbVars, callVars, RestTypeOK, TypeOK
  <2> QED
    BY <2>1, <2>2, TypedByParts
<1>3. CASE OSSchedUnlock(t)
  <2>1. PrioInv' /\ SwTypeOK'
    BY <1>3 DEF OSSchedUnlock, swVars, SwTypeOK, TypeOK
  <2>2. OSLockNesting' \in 0..MaxLock
    BY <1>3, CoreAssumption DEF OSSchedUnlock, TypeOK
  <2>3. RestTypeOK'
    BY <1>3, <2>2 DEF OSSchedUnlock, tcbVars, RestTypeOK, TypeOK, Pc
  <2> QED
    BY <2>1, <2>3, TypedByParts
<1>4. ASSUME NEW n \in 1..MaxTicks, OSTimeDly(t, n)
      PROVE  CoreTypeInv'
  <2>1. PrioInv'
    BY <1>4, ReadyListTyped DEF OSTimeDly
  <2>2. SwTypeOK'
    BY <1>4 DEF OSTimeDly, swVars, SwTypeOK, TypeOK
  <2>3. n \in 0..MaxTicks
    BY CoreAssumption
  <2>4. OSTCBDly' \in [AllTask -> 0..MaxTicks]
    BY <1>4, <2>3 DEF OSTimeDly, TypeOK
  <2>5. RestTypeOK'
    BY <1>4, <2>4 DEF OSTimeDly, nestVars, RestTypeOK, TypeOK, Pc
  <2> QED
    BY <2>1, <2>2, <2>5, TypedByParts
<1>5. ASSUME NEW u \in Task, OSTimeDlyResume(t, u)
      PROVE  CoreTypeInv'
  <2>1. {v \in {u} : "SUSPEND" \notin OSTCBStat[v]} \in SUBSET AllTask
    BY DEF AllTask
  <2>2. PrioInv'
    BY <1>5, <2>1, ReadyListTyped DEF OSTimeDlyResume, DlyEnds
  <2>3. SwTypeOK'
    BY <1>5 DEF OSTimeDlyResume, swVars, SwTypeOK, TypeOK
  <2>zero. 0 \in 0..MaxTicks
    BY CoreAssumption
  <2>4. OSTCBDly' \in [AllTask -> 0..MaxTicks]
    BY <1>5, <2>zero DEF OSTimeDlyResume, TypeOK
  <2>5. /\ OSTCBStat' \in [AllTask -> SUBSET Flag]
        /\ OSTCBStatPend' \in [AllTask -> PendResult]
    BY <1>5 DEF OSTimeDlyResume, DlyEnds, TypeOK, PendResult
  <2>6. pc' \in [AllTask -> Pc]
    BY <1>5 DEF OSTimeDlyResume, TypeOK, Pc
  <2>7. RestTypeOK'
    BY <1>5, <2>4, <2>5, <2>6 DEF OSTimeDlyResume, nestVars, RestTypeOK, TypeOK
  <2> QED
    BY <2>2, <2>3, <2>7, TypedByParts
<1>6. ASSUME NEW u \in Task, OSTaskSuspend(t, u)
      PROVE  CoreTypeInv'
  <2>1. PrioInv'
    BY <1>6, ReadyListTyped DEF OSTaskSuspend
  <2>2. SwTypeOK'
    BY <1>6 DEF OSTaskSuspend, swVars, SwTypeOK, TypeOK
  <2>3. RestTypeOK'
    BY <1>6 DEF OSTaskSuspend, nestVars, RestTypeOK, TypeOK, Pc, Flag
  <2> QED
    BY <2>1, <2>2, <2>3, TypedByParts
<1>7. ASSUME NEW u \in Task, OSTaskResume(t, u)
      PROVE  CoreTypeInv'
  <2>1. {u} \in SUBSET AllTask /\ {OSTCBPrio[v] : v \in {u}} = {OSTCBPrio[u]}
    BY DEF AllTask
  <2>2. PrioInv'
    BY <1>7, <2>1, ReadyListTyped DEF OSTaskResume
  <2>3. SwTypeOK'
    BY <1>7 DEF OSTaskResume, swVars, SwTypeOK, TypeOK
  <2>4. RestTypeOK'
    BY <1>7 DEF OSTaskResume, nestVars, RestTypeOK, TypeOK, Pc
  <2> QED
    BY <2>2, <2>3, <2>4, TypedByParts
<1> QED
  BY <1>1, <1>2, <1>3, <1>4, <1>5, <1>6, <1>7 DEF CoreTask

LEMMA OSIntExitTyped ==
  ASSUME CoreTypeInv, OSIntExit, OSTCBPrio' = OSTCBPrio, OSRdyTbl' = OSRdyTbl
  PROVE  SwTypeOK' /\ OSIntNesting' \in Nat
<1>1. SwitchToHighest \/ UNCHANGED swVars
  BY DEF OSIntExit
<1>2. SwTypeOK'
  BY <1>1, SwitchTyped DEF CoreTypeInv, PrioInv
<1>3. OSIntNesting' \in Nat
  BY DEF OSIntExit, CoreTypeInv, TypeOK
<1> QED
  BY <1>2, <1>3

\* The context switch and the handlers.
LEMMA HandlersTyped ==
  ASSUME CoreTypeInv, PendSV_Handler \/ OSTimeTick \/ SysTickExit \/ DeviceIRQ
  PROVE  CoreTypeInv'
<1> USE DEF CoreTypeInv, PrioInv, PrioMapOK
<1>1. CASE PendSV_Handler
  <2>1. PrioInv'
    BY <1>1 DEF PendSV_Handler
  <2>2. SwTypeOK'
    BY <1>1 DEF PendSV_Handler, SwTypeOK, TypeOK
  <2>3. RestTypeOK'
    BY <1>1 DEF PendSV_Handler, nestVars, tcbVars, callVars, RestTypeOK, TypeOK
  <2> QED
    BY <2>1, <2>2, <2>3, TypedByParts
<1>2. CASE OSTimeTick
  <2> DEFINE counting == {t \in Task : OSTCBDly[t] # 0}
             T == {t \in counting : OSTCBDly[t] = 1}
  <2>1. {v \in T : "SUSPEND" \notin OSTCBStat[v]} \in SUBSET AllTask
    BY DEF AllTask
  <2>2. PrioInv'
    BY <1>2, <2>1, ReadyListTyped DEF OSTimeTick, DlyEnds
  <2>3. SwTypeOK'
    BY <1>2 DEF OSTimeTick, swVars, SwTypeOK, TypeOK
  <2>4. OSTCBDly' \in [AllTask -> 0..MaxTicks]
    BY <1>2, CoreAssumption DEF OSTimeTick, TypeOK
  <2>5. RestTypeOK'
    BY <1>2, <2>4 DEF OSTimeTick, DlyEnds, callVars, RestTypeOK, TypeOK, PendResult
  <2> QED
    BY <2>2, <2>3, <2>5, TypedByParts
<1>3. CASE SysTickExit
  <2>1. PrioInv' /\ OSTCBPrio' = OSTCBPrio /\ OSRdyTbl' = OSRdyTbl /\ OSIntExit
    BY <1>3 DEF SysTickExit
  <2>2. SwTypeOK' /\ OSIntNesting' \in Nat
    BY <2>1, OSIntExitTyped
  <2>3. RestTypeOK'
    BY <1>3, <2>2 DEF SysTickExit, tcbVars, callVars, RestTypeOK, TypeOK
  <2> QED
    BY <2>1, <2>2, <2>3, TypedByParts
<1>4. CASE DeviceIRQ
  <2>1. PrioInv' /\ OSTCBPrio' = OSTCBPrio /\ OSRdyTbl' = OSRdyTbl /\ OSIntExit
    BY <1>4 DEF DeviceIRQ
  <2>2. SwTypeOK' /\ OSIntNesting' \in Nat
    BY <2>1, OSIntExitTyped
  <2>3. RestTypeOK'
    BY <1>4, <2>2 DEF DeviceIRQ, tcbVars, callVars, RestTypeOK, TypeOK
  <2> QED
    BY <2>1, <2>2, <2>3, TypedByParts
<1> QED
  BY <1>1, <1>2, <1>3, <1>4

(***************************************************************************)
(* The scheduler.  KernelInv is inductive: it relates what the last        *)
(* OS_SchedNew found, the switch that may be due, and how far the running  *)
(* task is in its service.                                                 *)
(***************************************************************************)
\* OSMutexDel may leave OSPrioCur with the number of a less urgent task than
\* the running one, which then has OS_Sched still to call.
Stale == /\ pc[OSTCBCur] = "sched" /\ OSLockNesting = 0
         /\ OSTCBPrio[OSTCBCur] \in OSRdyTbl
         /\ OSTCBPrio[OSTCBCur] < OSPrioCur

CurInv == /\ ~pendSV => OSPrioCur = OSTCBPrio[OSTCBCur] \/ Stale
          /\ pendSV => OSPrioHighRdy = OSTCBPrio[OSTCBHighRdy]

NestInv == OSIntNesting = IF isr = "none" THEN 0 ELSE 1

LockInv == OSLockNesting > 0 => ~pendSV /\ pc[OSTCBCur] \in {"task", "sched"}

\* A service that has changed the ready list has still to call OS_Sched.
SchedInv ==
  isr = "none" /\ OSLockNesting = 0 =>
    /\ pendSV => OSPrioHighRdy = Highest(OSRdyTbl)
    /\ ~pendSV /\ pc[OSTCBCur] \in {"task", "wake"} => OSTCBPrio[OSTCBCur] = Highest(OSRdyTbl)

KernelInv == CurInv /\ NestInv /\ LockInv /\ SchedInv

LEMMA CoreInitKernel ==
  ASSUME CoreInit
  PROVE  KernelInv
<1>1. OSRdyTbl = {OSTCBPrio[t] : t \in AllTask} /\ PrioMapOK
  BY InitPrioMap DEF CoreInit
<1>2. IdlePrio \in OSRdyTbl
  BY <1>1 DEF PrioMapOK, AllTask
<1>3. OSTCBPrio[OSTCBPrioTbl(Highest(OSRdyTbl))] = Highest(OSRdyTbl)
  BY <1>1, <1>2, SwitchFinds
<1> QED
  BY <1>3 DEF CoreInit, KernelInv, CurInv, NestInv, LockInv, SchedInv

\* Taking out another priority than the highest leaves it the highest.
LEMMA HighestKept ==
  ASSUME NEW R \in SUBSET Nat, NEW S \in SUBSET R, R # {}, Highest(R) \in S
  PROVE  Highest(S) = Highest(R)
<1>1. Highest(R) \in R /\ \A q \in R : Highest(R) <= q
  BY HighestIsLeast
<1>2. Highest(S) \in S /\ \A q \in S : Highest(S) <= q
  BY HighestIsLeast
<1>3. Highest(S) <= Highest(R) /\ Highest(R) <= Highest(S)
  BY <1>1, <1>2
<1>4. Highest(S) \in Nat /\ Highest(R) \in Nat
  BY <1>1, <1>2
<1> QED
  BY <1>3, <1>4

\* After a reschedule a switch is due exactly when it is needed.
LEMMA SwitchKernel ==
  ASSUME CoreTypeInv, CurInv, OSTCBPrio' = OSTCBPrio, OSRdyTbl' = OSRdyTbl, SwitchToHighest
  PROVE  /\ CurInv'
         /\ OSPrioHighRdy' = Highest(OSRdyTbl')
         /\ ~pendSV' => /\ OSPrioCur' = OSTCBPrio'[OSTCBCur']
                        /\ OSPrioCur' = Highest(OSRdyTbl')
<1>1. OSTCBPrio[OSTCBPrioTbl(Highest(OSRdyTbl))] = Highest(OSRdyTbl)
  BY SwitchFinds DEF CoreTypeInv, PrioInv
<1>2. OSTCBPrioTbl(Highest(OSRdyTbl))' = OSTCBPrioTbl(Highest(OSRdyTbl))
  BY DEF OSTCBPrioTbl
<1>3. OSTCBHighRdy' = OSTCBPrioTbl(Highest(OSRdyTbl))
  BY <1>2 DEF SwitchToHighest, OSTCBPrioTbl
<1>4. Stale => Highest(OSRdyTbl) # OSPrioCur
  <2>1. \A q \in OSRdyTbl : Highest(OSRdyTbl) <= q
    BY SwitchFinds DEF CoreTypeInv, PrioInv
  <2>2. Highest(OSRdyTbl) \in Nat /\ OSPrioCur \in Nat /\ OSTCBPrio[OSTCBCur] \in Nat
    BY SwitchFinds, PrioFacts DEF CoreTypeInv, PrioInv, PrioMapOK, TypeOK
  <2> QED
    BY <2>1, <2>2 DEF Stale
<1>5. ~pendSV' => ~pendSV /\ OSPrioCur = Highest(OSRdyTbl) /\ ~Stale
  BY <1>4 DEF SwitchToHighest
<1> QED
  BY <1>1, <1>3, <1>5 DEF SwitchToHighest, CurInv

\* A service body of the running task keeps KernelInv if it leaves the ready
\* list alone or has OS_Sched still to come.
LEMMA ServiceKernel ==
  ASSUME KernelInv, NEW t \in Task, Running(t), pc[t] \in {"task", "wake"},
         UNCHANGED <<swVars, nestVars, OSTCBPrio>>,
         OSLockNesting > 0 => pc'[t] \in {"task", "sched"},
         pc'[t] \in {"sched", "pendsched"} \/ OSRdyTbl' = OSRdyTbl
  PROVE  KernelInv'
BY DEF KernelInv, CurInv, Stale, NestInv, LockInv, SchedInv, Running, swVars, nestVars

LEMMA CoreTaskKernel ==
  ASSUME CoreTypeInv, KernelInv, NEW t \in Task, CoreTask(t)
  PROVE  KernelInv'
<1> USE DEF CoreTypeInv, TypeOK
<1>t. t \in AllTask
  BY DEF AllTask
<1>1. CASE OS_Sched(t)
  <2>1. OSTCBPrio' = OSTCBPrio /\ OSRdyTbl' = OSRdyTbl /\ UNCHANGED nestVars
    BY <1>1 DEF OS_Sched
  <2>2. CASE OSIntNesting = 0 /\ OSLockNesting = 0
    <3>1. SwitchToHighest
      BY <1>1, <2>2 DEF OS_Sched
    <3> QED
      BY <2>1, <2>2, <3>1, SwitchKernel
      DEF KernelInv, NestInv, LockInv, SchedInv, nestVars
  <2>3. CASE ~(OSIntNesting = 0 /\ OSLockNesting = 0)
    <3>1. OSIntNesting = 0
      BY <1>1 DEF OS_Sched, Running, KernelInv, NestInv
    <3>2. OSLockNesting > 0 /\ UNCHANGED swVars
      BY <1>1, <2>3, <3>1 DEF OS_Sched
    <3>3. pc[t] = "sched" /\ pc'[t] = "task"
      BY <1>1, <3>2, <1>t DEF OS_Sched, Running, KernelInv, LockInv
    <3> QED
      BY <1>1, <2>1, <3>2, <3>3
      DEF OS_Sched, Running, KernelInv, CurInv, Stale, NestInv, LockInv, SchedInv, swVars, nestVars
  <2> QED
    BY <2>2, <2>3
<1>2. CASE OSSchedLock(t)
  BY <1>2 DEF OSSchedLock, Running, KernelInv, CurInv, Stale, NestInv, LockInv, SchedInv,
              swVars, callVars
<1>3. CASE OSSchedUnlock(t)
  BY <1>3, <1>t DEF OSSchedUnlock, Running, KernelInv, CurInv, Stale, NestInv, LockInv, SchedInv, swVars
<1>4. ASSUME NEW n \in 1..MaxTicks, OSTimeDly(t, n)
      PROVE  KernelInv'
  BY <1>4, <1>t, ServiceKernel DEF OSTimeDly
<1>5. ASSUME NEW u \in Task, OSTimeDlyResume(t, u)
      PROVE  KernelInv'
  <2>1. "SUSPEND" \in OSTCBStat[u] => OSRdyTbl' = OSRdyTbl
    BY <1>5 DEF OSTimeDlyResume, DlyEnds
  <2> QED
    BY <1>5, <1>t, <2>1, ServiceKernel DEF OSTimeDlyResume
<1>6. ASSUME NEW u \in Task, OSTaskSuspend(t, u)
      PROVE  KernelInv'
  <2>1. CASE u = t
    BY <1>6, <1>t, <2>1, ServiceKernel DEF OSTaskSuspend
  <2>2. CASE u # t
    <3>1. pc' = pc /\ UNCHANGED <<swVars, nestVars, OSTCBPrio>>
      BY <1>6, <2>2 DEF OSTaskSuspend
    <3>2. OSPrioCur = OSTCBPrio[t] /\ OSTCBPrio[t] # OSTCBPrio[u]
      BY <1>6, <2>2, TaskPrios
      DEF OSTaskSuspend, Running, KernelInv, CurInv, Stale, PrioInv, PrioMapOK, AllTask
    <3>3. OSPrioCur = Highest(OSRdyTbl) => OSPrioCur = Highest(OSRdyTbl \ {OSTCBPrio[u]})
      <4>1. OSRdyTbl \in SUBSET Nat /\ OSRdyTbl # {}
        BY PrioFacts DEF PrioInv
      <4>2. Highest(OSRdyTbl) \in OSRdyTbl
        BY <4>1, HighestIsLeast
      <4> QED
        BY <3>2, <4>1, <4>2, HighestKept
    <3> QED
      BY <1>6, <3>1, <3>3
      DEF OSTaskSuspend, Running, KernelInv, CurInv, Stale, NestInv, LockInv, SchedInv, swVars, nestVars
  <2> QED
    BY <2>1, <2>2
<1>7. ASSUME NEW u \in Task, OSTaskResume(t, u)
      PROVE  KernelInv'
  BY <1>7, <1>t, ServiceKernel DEF OSTaskResume
<1> QED
  BY <1>1, <1>2, <1>3, <1>4, <1>5, <1>6, <1>7 DEF CoreTask

\* The end of a handler, outermost or not announced.
LEMMA OSIntExitKernel ==
  ASSUME CoreTypeInv, KernelInv, OSIntExit, isr' = "none",
         UNCHANGED <<OSRdyTbl, OSTCBPrio, OSLockNesting, pc>>
  PROVE  KernelInv'
<1>1. OSIntNesting' = 0
  BY DEF OSIntExit, KernelInv, NestInv
<1>2. CASE OSLockNesting = 0
  <2>1. SwitchToHighest
    BY <1>1, <1>2 DEF OSIntExit
  <2> QED
    BY <1>1, <1>2, <2>1, SwitchKernel DEF KernelInv, NestInv, LockInv, SchedInv
<1>3. CASE OSLockNesting # 0
  BY <1>1, <1>3 DEF OSIntExit, KernelInv, CurInv, Stale, NestInv, LockInv, SchedInv, swVars
<1> QED
  BY <1>2, <1>3

LEMMA HandlersKernel ==
  ASSUME CoreTypeInv, KernelInv, PendSV_Handler \/ OSTimeTick \/ SysTickExit \/ DeviceIRQ
  PROVE  KernelInv'
<1>1. CASE PendSV_Handler
  BY <1>1 DEF PendSV_Handler, KernelInv, CurInv, Stale, NestInv, LockInv, SchedInv, nestVars, callVars
<1>2. CASE OSTimeTick
  <2>1. OSRdyTbl \subseteq OSRdyTbl'
    BY <1>2 DEF OSTimeTick, DlyEnds
  <2> QED
    BY <1>2, <2>1
    DEF OSTimeTick, KernelInv, CurInv, Stale, NestInv, LockInv, SchedInv, swVars, callVars
<1>3. CASE SysTickExit
  BY <1>3, OSIntExitKernel DEF SysTickExit, callVars
<1>4. CASE DeviceIRQ
  BY <1>4, OSIntExitKernel DEF DeviceIRQ, callVars
<1> QED
  BY <1>1, <1>2, <1>3, <1>4

LEMMA SysTickEnterKernel ==
  ASSUME KernelInv, SysTickEnter, OSRdyTbl \subseteq OSRdyTbl',
         UNCHANGED <<swVars, OSTCBPrio, callVars>>
  PROVE  KernelInv'
BY DEF SysTickEnter, KernelInv, CurInv, Stale, NestInv, LockInv, SchedInv, swVars, callVars

(***************************************************************************)
(* The lists.  ListInv is inductive: it says of each task whether it is in *)
(* the ready list and in a wait list, from its TCB and from where it is.   *)
(***************************************************************************)
InPendCall(t) == pc[t] \in {"pendsched", "wake"}

ReadyInv == \A t \in AllTask :
  OSTCBPrio[t] \in OSRdyTbl <=> OSTCBStat[t] = {} /\ OSTCBDly[t] = 0

Waits(t, e) == /\ InPendCall(t) /\ pevent[t] = e
               /\ "PEND" \in OSTCBStat[t] \/ OSTCBStatPend[t] = "TO"

WaitInv == \A e \in Event :
  /\ OSEventTbl[e] \subseteq {OSTCBPrio[t] : t \in Task}
  /\ \A t \in Task : OSTCBPrio[t] \in OSEventTbl[e] <=> Waits(t, e)

\* A task pends only inside a pend service, and one that was granted, aborted
\* or timed out has no timeout running.
PendInv == \A t \in Task :
  /\ "PEND" \in OSTCBStat[t] => InPendCall(t)
  /\ InPendCall(t) => pevent[t] \in Event
  /\ InPendCall(t) /\ "PEND" \notin OSTCBStat[t] => OSTCBDly[t] = 0

ListInv == ReadyInv /\ WaitInv /\ PendInv

LEMMA CoreInitLists ==
  ASSUME CoreInit
  PROVE  ListInv
<1>1. \A t \in Task : t \in AllTask
  BY DEF AllTask
<1> QED
  BY <1>1 DEF CoreInit, ListInv, ReadyInv, WaitInv, PendInv, Waits, InPendCall

\* Membership of the changed ready list, task by task.
LEMMA ReadyMember ==
  ASSUME CoreTypeInv, NEW t \in AllTask, NEW u \in AllTask, NEW T \in SUBSET AllTask
  PROVE  /\ OSTCBPrio[t] \in OSRdyTbl \ {OSTCBPrio[u]} <=> OSTCBPrio[t] \in OSRdyTbl /\ t # u
         /\ OSTCBPrio[t] \in OSRdyTbl \cup {OSTCBPrio[v] : v \in T}
              <=> OSTCBPrio[t] \in OSRdyTbl \/ t \in T
BY DEF CoreTypeInv, PrioInv, PrioMapOK

\* What ends delays (the tick, OSTimeDlyResume) makes the tasks ready that nothing
\* else holds back.
LEMMA DlyEndsReady ==
  ASSUME CoreTypeInv, ReadyInv, NEW T \in SUBSET Task,
         \A t \in T : OSTCBDly[t] # 0 /\ OSTCBDly'[t] = 0,
         \A t \in AllTask \ T : OSTCBDly'[t] = 0 <=> OSTCBDly[t] = 0,
         DlyEnds(T), OSTCBPrio' = OSTCBPrio
  PROVE  ReadyInv'
<1> USE DEF CoreTypeInv, TypeOK, Flag
<1>1. \A t \in Task : t \in AllTask
  BY DEF AllTask
<1> SUFFICES ASSUME NEW t \in AllTask
             PROVE  OSTCBPrio[t] \in OSRdyTbl' <=> OSTCBStat'[t] = {} /\ OSTCBDly'[t] = 0
  BY DEF ReadyInv
<1> DEFINE R == {u \in T : "SUSPEND" \notin OSTCBStat[u]}
<1>2. R \in SUBSET AllTask
  BY <1>1
<1>3. OSRdyTbl' = OSRdyTbl \cup {OSTCBPrio[v] : v \in R}
  BY DEF DlyEnds
<1>4. OSTCBPrio[t] \in OSRdyTbl' <=> OSTCBPrio[t] \in OSRdyTbl \/ t \in R
  BY <1>2, <1>3, ReadyMember
<1>5. OSTCBPrio[t] \in OSRdyTbl <=> OSTCBStat[t] = {} /\ OSTCBDly[t] = 0
  BY DEF ReadyInv
<1>6. CASE t \in T
  <2>1. OSTCBStat'[t] = OSTCBStat[t] \ {"PEND"}
    BY <1>6 DEF DlyEnds
  <2>2. OSTCBStat'[t] = {} <=> "SUSPEND" \notin OSTCBStat[t]
    BY <2>1
  <2> QED
    BY <1>4, <1>5, <1>6, <2>2
<1>7. CASE t \notin T
  BY <1>4, <1>5, <1>7 DEF DlyEnds
<1> QED
  BY <1>6, <1>7

\* It keeps the wait lists too: a pend that times out stays in its own.
LEMMA DlyEndsLists ==
  ASSUME CoreTypeInv, ListInv, NEW T \in SUBSET Task,
         \A t \in T : OSTCBDly[t] # 0 /\ OSTCBDly'[t] = 0,
         \A t \in AllTask \ T : OSTCBDly'[t] = 0 <=> OSTCBDly[t] = 0,
         DlyEnds(T), UNCHANGED <<OSTCBPrio, OSEventTbl, pevent>>,
         \A t \in Task : \/ pc'[t] = pc[t]
                         \/ ~InPendCall(t) /\ ~InPendCall(t)'
  PROVE  ListInv'
<1> USE DEF CoreTypeInv, TypeOK, Flag
<1>1. \A t \in Task : t \in AllTask
  BY DEF AllTask
<1>2. ReadyInv'
  BY DlyEndsReady DEF ListInv
<1>3. \A t \in Task : InPendCall(t)' <=> InPendCall(t)
  BY DEF InPendCall
<1>4. \A t \in Task, e \in Event : Waits(t, e)' <=> Waits(t, e)
  BY <1>1, <1>3 DEF ListInv, PendInv, Waits, DlyEnds
<1>5. WaitInv'
  BY <1>1, <1>4 DEF ListInv, WaitInv
<1>6. PendInv'
  BY <1>1, <1>3 DEF ListInv, PendInv, DlyEnds
<1> QED
  BY <1>2, <1>5, <1>6 DEF ListInv

LEMMA CoreTaskReady ==
  ASSUME CoreTypeInv, ReadyInv, NEW t \in Task, CoreTask(t)
  PROVE  ReadyInv'
<1> USE DEF CoreTypeInv, TypeOK, Flag
<1>t. t \in AllTask /\ \A u \in Task : u \in AllTask
  BY DEF AllTask
<1>1. CASE OS_Sched(t) \/ OSSchedLock(t) \/ OSSchedUnlock(t)
  BY <1>1 DEF OS_Sched, OSSchedLock, OSSchedUnlock, tcbVars, callVars, ReadyInv
<1>2. ASSUME NEW n \in 1..MaxTicks, OSTimeDly(t, n)
      PROVE  ReadyInv'
  BY <1>2, <1>t, ReadyMember DEF OSTimeDly, ReadyInv
<1>3. ASSUME NEW u \in Task, OSTimeDlyResume(t, u)
      PROVE  ReadyInv'
  <2>1. /\ \A v \in {u} : OSTCBDly[v] # 0 /\ OSTCBDly'[v] = 0
        /\ \A v \in AllTask \ {u} : OSTCBDly'[v] = 0 <=> OSTCBDly[v] = 0
    BY <1>3, <1>t DEF OSTimeDlyResume
  <2> QED
    BY <1>3, <2>1, DlyEndsReady DEF OSTimeDlyResume
<1>4. ASSUME NEW u \in Task, OSTaskSuspend(t, u)
      PROVE  ReadyInv'
  BY <1>4, <1>t, ReadyMember DEF OSTaskSuspend, ReadyInv
<1>5. ASSUME NEW u \in Task, OSTaskResume(t, u)
      PROVE  ReadyInv'
  <2>1. {u} \in SUBSET AllTask /\ {OSTCBPrio[v] : v \in {u}} = {OSTCBPrio[u]}
    BY <1>t
  <2> SUFFICES ASSUME NEW v \in AllTask
               PROVE  OSTCBPrio[v] \in OSRdyTbl' <=> OSTCBStat'[v] = {} /\ OSTCBDly'[v] = 0
    BY <1>5 DEF OSTaskResume, ReadyInv
  <2>2. OSTCBPrio[v] \in OSRdyTbl \cup {OSTCBPrio[w] : w \in {u}} <=> OSTCBPrio[v] \in OSRdyTbl \/ v \in {u}
    BY <1>t, <2>1, ReadyMember
  <2>3. /\ OSTCBPrio[v] \in OSRdyTbl \cup {OSTCBPrio[u]} <=> OSTCBPrio[v] \in OSRdyTbl \/ v = u
        /\ OSTCBPrio[v] \in OSRdyTbl <=> OSTCBStat[v] = {} /\ OSTCBDly[v] = 0
    BY <2>1, <2>2 DEF ReadyInv
  <2>4. /\ "SUSPEND" \in OSTCBStat[u] /\ OSTCBDly' = OSTCBDly
        /\ OSTCBStat' = [OSTCBStat EXCEPT ![u] = @ \ {"SUSPEND"}]
        /\ OSRdyTbl' = IF OSTCBStat[u] = {"SUSPEND"} /\ OSTCBDly[u] = 0
                         THEN OSRdyTbl \cup {OSTCBPrio[u]} ELSE OSRdyTbl
    BY <1>5 DEF OSTaskResume
  <2>5. CASE v = u
    <3>1. OSTCBStat'[u] = OSTCBStat[u] \ {"SUSPEND"} /\ OSTCBStat[u] \subseteq {"PEND", "SUSPEND"}
      BY <2>4, <1>t
    <3>2. OSTCBStat'[u] = {} <=> OSTCBStat[u] = {"SUSPEND"}
      BY <2>4, <3>1
    <3> QED
      BY <2>3, <2>4, <2>5, <3>2
  <2>6. CASE v # u
    BY <2>3, <2>4, <2>6, <1>t
  <2> QED
    BY <2>5, <2>6
<1> QED
  BY <1>1, <1>2, <1>3, <1>4, <1>5 DEF CoreTask

LEMMA HandlersReady ==
  ASSUME CoreTypeInv, ReadyInv, PendSV_Handler \/ OSTimeTick \/ SysTickExit \/ DeviceIRQ
  PROVE  ReadyInv'
<1>1. CASE PendSV_Handler \/ SysTickExit \/ DeviceIRQ
  BY <1>1 DEF PendSV_Handler, SysTickExit, DeviceIRQ, tcbVars, ReadyInv
<1>2. CASE OSTimeTick
  <2> DEFINE T == {t \in {u \in Task : OSTCBDly[u] # 0} : OSTCBDly[t] = 1}
  <2>1. T \in SUBSET Task /\ \A t \in Task : t \in AllTask
    BY DEF AllTask
  <2>2. /\ \A t \in T : OSTCBDly[t] # 0 /\ OSTCBDly'[t] = 0
        /\ \A t \in AllTask \ T : OSTCBDly'[t] = 0 <=> OSTCBDly[t] = 0
    BY <1>2, <2>1 DEF OSTimeTick, CoreTypeInv, TypeOK
  <2>3. DlyEnds(T) /\ OSTCBPrio' = OSTCBPrio
    BY <1>2 DEF OSTimeTick
  <2> QED
    BY <2>1, <2>2, <2>3, DlyEndsReady
<1> QED
  BY <1>1, <1>2

\* Steps that leave the TCBs and lists alone and take no task in or out of
\* a pend service.
LEMMA SameLists ==
  ASSUME CoreTypeInv, ListInv,
         UNCHANGED <<OSRdyTbl, OSTCBPrio, OSTCBStat, OSTCBStatPend, OSTCBDly, OSEventTbl, pevent>>,
         \A t \in Task : InPendCall(t)' <=> InPendCall(t)
  PROVE  ListInv'
BY DEF ListInv, ReadyInv, WaitInv, PendInv, Waits

LEMMA CoreTaskLists ==
  ASSUME CoreTypeInv, ListInv, NEW t \in Task, CoreTask(t)
  PROVE  ListInv'
<1> USE DEF CoreTypeInv, TypeOK, Flag
<1>t. t \in AllTask /\ \A u \in Task : u \in AllTask
  BY DEF AllTask
<1>0. ReadyInv'
  BY CoreTaskReady DEF ListInv
<1>1. CASE OS_Sched(t)
  <2>1. \A u \in Task : InPendCall(u)' <=> InPendCall(u)
    BY <1>1, <1>t DEF OS_Sched, InPendCall
  <2> QED
    BY <1>1, <2>1, SameLists DEF OS_Sched, tcbVars
<1>2. CASE OSSchedLock(t) \/ OSSchedUnlock(t)
  <2>1. \A u \in Task : InPendCall(u)' <=> InPendCall(u)
    BY <1>2, <1>t DEF OSSchedLock, OSSchedUnlock, InPendCall, callVars
  <2> QED
    BY <1>2, <2>1, SameLists DEF OSSchedLock, OSSchedUnlock, tcbVars, callVars
<1>3. ASSUME NEW n \in 1..MaxTicks, OSTimeDly(t, n)
      PROVE  ListInv'
  <2>1. /\ ~InPendCall(t) /\ ~InPendCall(t)'
        /\ \A u \in Task : InPendCall(u)' <=> InPendCall(u)
    BY <1>3, <1>t DEF OSTimeDly, InPendCall
  <2>2. WaitInv'
    BY <1>3, <2>1 DEF OSTimeDly, ListInv, WaitInv, Waits
  <2>3. PendInv'
    BY <1>3, <2>1, <1>t DEF OSTimeDly, ListInv, PendInv
  <2> QED
    BY <1>0, <2>2, <2>3 DEF ListInv
<1>4. ASSUME NEW u \in Task, OSTimeDlyResume(t, u)
      PROVE  ListInv'
  <2>1. /\ \A v \in {u} : OSTCBDly[v] # 0 /\ OSTCBDly'[v] = 0
        /\ \A v \in AllTask \ {u} : OSTCBDly'[v] = 0 <=> OSTCBDly[v] = 0
    BY <1>4, <1>t DEF OSTimeDlyResume
  <2>2. \A v \in Task : pc'[v] = pc[v] \/ (~InPendCall(v) /\ ~InPendCall(v)')
    BY <1>4, <1>t DEF OSTimeDlyResume, InPendCall
  <2> QED
    BY <1>4, <2>1, <2>2, DlyEndsLists DEF OSTimeDlyResume
<1>5. ASSUME NEW u \in Task, OSTaskSuspend(t, u)
      PROVE  ListInv'
  <2>1. \A v \in Task : InPendCall(v)' <=> InPendCall(v)
    BY <1>5, <1>t DEF OSTaskSuspend, InPendCall
  <2>2. WaitInv'
    BY <1>5, <2>1, <1>t DEF OSTaskSuspend, ListInv, WaitInv, Waits
  <2>3. PendInv'
    BY <1>5, <2>1, <1>t DEF OSTaskSuspend, ListInv, PendInv
  <2> QED
    BY <1>0, <2>2, <2>3 DEF ListInv
<1>6. ASSUME NEW u \in Task, OSTaskResume(t, u)
      PROVE  ListInv'
  <2>1. \A v \in Task : InPendCall(v)' <=> InPendCall(v)
    BY <1>6, <1>t DEF OSTaskResume, InPendCall
  <2>2. WaitInv'
    BY <1>6, <2>1, <1>t DEF OSTaskResume, ListInv, WaitInv, Waits
  <2>3. PendInv'
    BY <1>6, <2>1, <1>t DEF OSTaskResume, ListInv, PendInv
  <2> QED
    BY <1>0, <2>2, <2>3 DEF ListInv
<1> QED
  BY <1>1, <1>2, <1>3, <1>4, <1>5, <1>6 DEF CoreTask

LEMMA HandlersLists ==
  ASSUME CoreTypeInv, ListInv, PendSV_Handler \/ OSTimeTick \/ SysTickExit \/ DeviceIRQ
  PROVE  ListInv'
<1>1. CASE PendSV_Handler \/ SysTickExit \/ DeviceIRQ
  <2>1. /\ UNCHANGED <<OSRdyTbl, OSTCBPrio, OSTCBStat, OSTCBStatPend, OSTCBDly, OSEventTbl>>
        /\ UNCHANGED callVars
    BY <1>1 DEF PendSV_Handler, SysTickExit, DeviceIRQ, tcbVars
  <2> QED
    BY <2>1, SameLists DEF callVars, InPendCall
<1>2. CASE OSTimeTick
  <2> DEFINE T == {t \in {u \in Task : OSTCBDly[u] # 0} : OSTCBDly[t] = 1}
  <2>1. T \in SUBSET Task /\ \A t \in Task : t \in AllTask
    BY DEF AllTask
  <2>2. /\ \A t \in T : OSTCBDly[t] # 0 /\ OSTCBDly'[t] = 0
        /\ \A t \in AllTask \ T : OSTCBDly'[t] = 0 <=> OSTCBDly[t] = 0
    BY <1>2, <2>1 DEF OSTimeTick, CoreTypeInv, TypeOK
  <2>3. DlyEnds(T) /\ UNCHANGED <<OSTCBPrio, OSEventTbl, pevent, pc>>
    BY <1>2 DEF OSTimeTick, callVars
  <2> QED
    BY <2>1, <2>2, <2>3, DlyEndsLists
<1> QED
  BY <1>1, <1>2

(***************************************************************************)
(* What the services of events have in common: the wait for an event, the  *)
(* end of the wait, and the waking of waiters.                             *)
(***************************************************************************)
\* The first element of a wait list is one of it.
LEMMA WaiterTyped ==
  ASSUME CoreTypeInv, NEW e \in Event, OSEventTbl[e] # {}
  PROVE  /\ OSEventTbl[e] \subseteq Nat
         /\ Highest(OSEventTbl[e]) \in OSEventTbl[e]
<1>1. OSEventTbl[e] \subseteq AllPrio /\ AllPrio \subseteq Nat
  BY PrioFacts DEF CoreTypeInv, TypeOK
<1> QED
  BY <1>1, HighestIsLeast

\* What waking any set of waiters leaves typed.
WakeTypeOK ==
  /\ PrioInv
  /\ OSTCBStat \in [AllTask -> SUBSET Flag]
  /\ OSTCBStatPend \in [AllTask -> PendResult]
  /\ OSTCBDly \in [AllTask -> 0..MaxTicks]
  /\ OSTCBEventPtr \in [AllTask -> Event \cup {NoEvent}]
  /\ OSEventTbl \in [Event -> SUBSET AllPrio]

LEMMA TaskRdyTyped ==
  ASSUME CoreTypeInv, OSTCBPrio' = OSTCBPrio, NEW e \in Event, NEW ps,
         NEW result \in PendResult, OS_EventTaskRdy(e, ps, result)
  PROVE  WakeTypeOK'
<1> DEFINE T == {u \in {t \in AllTask : OSTCBPrio[t] \in ps} :
                   "SUSPEND" \notin OSTCBStat[u] \ {"PEND"}}
<1> USE DEF CoreTypeInv, TypeOK
<1>1. OSRdyTbl' = OSRdyTbl \cup {OSTCBPrio[t] : t \in T}
  BY DEF OS_EventTaskRdy
<1>2. PrioInv'
  <2>1. T \in SUBSET AllTask
    OBVIOUS
  <2>2. /\ OSRdyTbl' \subseteq {OSTCBPrio[t] : t \in AllTask}
        /\ IdlePrio \in OSRdyTbl'
    BY <1>1, <2>1 DEF PrioInv
  <2> QED
    BY <2>2 DEF PrioInv, PrioMapOK
<1>3. 0 \in 0..MaxTicks
  BY CoreAssumption
<1>4. OSTCBDly' \in [AllTask -> 0..MaxTicks]
  BY <1>3 DEF OS_EventTaskRdy
<1>5. /\ OSTCBStat' \in [AllTask -> SUBSET Flag]
      /\ OSTCBStatPend' \in [AllTask -> PendResult]
      /\ OSTCBEventPtr' \in [AllTask -> Event \cup {NoEvent}]
      /\ OSEventTbl' \in [Event -> SUBSET AllPrio]
  BY DEF OS_EventTaskRdy
<1> QED
  BY <1>2, <1>4, <1>5 DEF WakeTypeOK

\* Waking some waiters of e changes no other wait list.
LEMMA TaskRdyLists ==
  ASSUME CoreTypeInv, NEW e \in Event, NEW ps, NEW result, OS_EventTaskRdy(e, ps, result)
  PROVE  /\ OSEventTbl'[e] = OSEventTbl[e] \ ps
         /\ \A d \in Event \ {e} : OSEventTbl'[d] = OSEventTbl[d]
BY DEF OS_EventTaskRdy, CoreTypeInv, TypeOK

\* The running task is ready when it comes back from a pend: OS_Sched let it
\* wait until the ready list held it again.
LEMMA RunsReady ==
  ASSUME CoreTypeInv, KernelInv, NEW t \in Task, Running(t), pc[t] = "wake"
  PROVE  OSTCBPrio[t] \in OSRdyTbl
<1>1. OSLockNesting = 0
  BY DEF KernelInv, LockInv, Running, CoreTypeInv, TypeOK
<1>2. OSTCBPrio[t] = Highest(OSRdyTbl)
  BY <1>1 DEF KernelInv, SchedInv, CurInv, Running
<1>3. OSRdyTbl \subseteq Nat /\ OSRdyTbl # {}
  BY PrioFacts DEF CoreTypeInv, PrioInv, TypeOK
<1> QED
  BY <1>2, <1>3, HighestIsLeast

LEMMA ReadyMeans ==
  ASSUME ListInv, NEW t \in Task, OSTCBPrio[t] \in OSRdyTbl
  PROVE  OSTCBStat[t] = {} /\ OSTCBDly[t] = 0
BY DEF ListInv, ReadyInv, AllTask

LEMMA WakesReady ==
  ASSUME CoreTypeInv, KernelInv, ListInv, NEW t \in Task, Running(t), pc[t] = "wake"
  PROVE  OSTCBStat[t] = {} /\ OSTCBDly[t] = 0
BY RunsReady, ReadyMeans

\* Waking waiters (a post, an abort) keeps the lists.
LEMMA WakeKeepsLists ==
  ASSUME CoreTypeInv, ListInv, NEW e \in Event, NEW ps \in SUBSET OSEventTbl[e],
         NEW result \in {"OK", "ABORT"}, OS_EventTaskRdy(e, ps, result),
         UNCHANGED <<OSTCBPrio, pevent>>,
         \A t \in Task : InPendCall(t)' <=> InPendCall(t)
  PROVE  ListInv'
<1> USE DEF CoreTypeInv, TypeOK
<1>t. \A t \in Task : t \in AllTask
  BY DEF AllTask
<1> DEFINE W == {t \in AllTask : OSTCBPrio[t] \in ps}
           R == {t \in W : "SUSPEND" \notin OSTCBStat[t] \ {"PEND"}}
<1>1. \A t \in W : t \in Task /\ Waits(t, e)
  <2> SUFFICES ASSUME NEW t \in W
               PROVE  t \in Task /\ Waits(t, e)
    OBVIOUS
  <2>1. PICK u \in Task : OSTCBPrio[t] = OSTCBPrio[u]
    BY DEF ListInv, WaitInv
  <2>2. t = u
    BY <1>t, <2>1 DEF PrioInv, PrioMapOK
  <2> QED
    BY <2>2 DEF ListInv, WaitInv
<1>2. ReadyInv'
  <2> SUFFICES ASSUME NEW t \in AllTask
               PROVE  OSTCBPrio[t] \in OSRdyTbl' <=> OSTCBStat'[t] = {} /\ OSTCBDly'[t] = 0
    BY DEF ReadyInv
  <2>1. R \in SUBSET AllTask
    OBVIOUS
  <2>2. OSRdyTbl' = OSRdyTbl \cup {OSTCBPrio[v] : v \in R}
    BY DEF OS_EventTaskRdy
  <2>3. OSTCBPrio[t] \in OSRdyTbl' <=> OSTCBPrio[t] \in OSRdyTbl \/ t \in R
    BY <2>1, <2>2, ReadyMember
  <2>4. OSTCBPrio[t] \in OSRdyTbl <=> OSTCBStat[t] = {} /\ OSTCBDly[t] = 0
    BY DEF ListInv, ReadyInv
  <2>5. CASE t \in W
    <3>1. OSTCBStat'[t] = OSTCBStat[t] \ {"PEND"} /\ OSTCBDly'[t] = 0
      BY <2>5 DEF OS_EventTaskRdy
    <3>2. OSTCBStat[t] \subseteq {"PEND", "SUSPEND"}
      BY DEF Flag
    <3>3. OSTCBStat'[t] = {} <=> "SUSPEND" \notin OSTCBStat[t] \ {"PEND"}
      BY <3>1, <3>2
    <3> QED
      BY <2>3, <2>4, <2>5, <3>1, <3>3
  <2>6. CASE t \notin W
    <3>1. OSTCBStat'[t] = OSTCBStat[t] /\ OSTCBDly'[t] = OSTCBDly[t] /\ t \notin R
      BY <2>6 DEF OS_EventTaskRdy
    <3> QED
      BY <2>3, <2>4, <3>1
  <2> QED
    BY <2>5, <2>6
<1>3. WaitInv'
  <2> SUFFICES ASSUME NEW d \in Event
               PROVE  /\ OSEventTbl'[d] \subseteq {OSTCBPrio[t] : t \in Task}
                      /\ \A t \in Task : OSTCBPrio[t] \in OSEventTbl'[d] <=> Waits(t, d)'
    BY DEF WaitInv
  <2>1. OSEventTbl'[d] = IF d = e THEN OSEventTbl[d] \ ps ELSE OSEventTbl[d]
    BY TaskRdyLists
  <2>2. OSEventTbl'[d] \subseteq {OSTCBPrio[t] : t \in Task}
    BY <2>1 DEF ListInv, WaitInv
  <2>3. ASSUME NEW t \in Task
        PROVE  OSTCBPrio[t] \in OSEventTbl'[d] <=> Waits(t, d)'
    <3>1. OSTCBPrio[t] \in OSEventTbl[d] <=> Waits(t, d)
      BY DEF ListInv, WaitInv
    <3>2. CASE t \in W
      <4>1. "PEND" \notin OSTCBStat'[t] /\ OSTCBStatPend'[t] = result
        BY <3>2 DEF OS_EventTaskRdy
      <4>2. ~Waits(t, d)'
        BY <4>1 DEF Waits
      <4>3. OSTCBPrio[t] \in ps /\ pevent[t] = e
        BY <1>1, <3>2 DEF Waits
      <4>4. d # e => OSTCBPrio[t] \notin OSEventTbl[d]
        BY <3>1, <4>3 DEF Waits
      <4> QED
        BY <2>1, <4>2, <4>3, <4>4
    <3>3. CASE t \notin W
      <4>1. OSTCBStat'[t] = OSTCBStat[t] /\ OSTCBStatPend'[t] = OSTCBStatPend[t]
        BY <1>t, <3>3 DEF OS_EventTaskRdy
      <4>2. Waits(t, d)' <=> Waits(t, d)
        BY <4>1 DEF Waits
      <4> QED
        BY <1>t, <2>1, <3>1, <3>3, <4>2
    <3> QED
      BY <3>2, <3>3
  <2> QED
    BY <2>2, <2>3
<1>4. PendInv'
  <2> SUFFICES ASSUME NEW t \in Task
               PROVE  /\ "PEND" \in OSTCBStat'[t] => InPendCall(t)'
                      /\ InPendCall(t)' => pevent'[t] \in Event
                      /\ InPendCall(t)' /\ "PEND" \notin OSTCBStat'[t] => OSTCBDly'[t] = 0
    BY DEF PendInv
  <2>1. CASE t \in W
    BY <1>t, <2>1 DEF OS_EventTaskRdy, ListInv, PendInv
  <2>2. CASE t \notin W
    BY <1>t, <2>2 DEF OS_EventTaskRdy, ListInv, PendInv
  <2> QED
    BY <2>1, <2>2
<1> QED
  BY <1>2, <1>3, <1>4 DEF ListInv

\* What the two halves of a pend do to the kernel's variables, whatever the
\* event is.
PendWaits(t, e, timeout) ==
  /\ Running(t) /\ pc[t] = "task"
  /\ OS_EventTaskWait(t, e, timeout)
  /\ pc' = [pc EXCEPT ![t] = "pendsched"]
  /\ pevent' = [pevent EXCEPT ![t] = e]
  /\ UNCHANGED OSTCBPrio

PendEnds(t) ==
  /\ Running(t) /\ pc[t] = "wake"
  /\ IF OSTCBStatPend[t] = "TO" THEN OS_EventTaskRemove(t, pevent[t])
                                ELSE UNCHANGED OSEventTbl
  /\ OSTCBStat' = [OSTCBStat EXCEPT ![t] = {}]
  /\ OSTCBStatPend' = [OSTCBStatPend EXCEPT ![t] = "OK"]
  /\ pc' = [pc EXCEPT ![t] = "task"]
  /\ pevent' = [pevent EXCEPT ![t] = NoEvent]
  /\ UNCHANGED <<OSRdyTbl, OSTCBPrio, OSTCBDly>>

LEMMA ReturnLists ==
  ASSUME CoreTypeInv, ListInv, NEW t \in Task, OSTCBPrio[t] \in OSRdyTbl, PendEnds(t)
  PROVE  ListInv'
<1> USE DEF CoreTypeInv, TypeOK
<1>t. \A u \in Task : u \in AllTask
  BY DEF AllTask
<1>p. \A u \in Task : u # t => OSTCBPrio[u] # OSTCBPrio[t]
  BY <1>t DEF PrioInv, PrioMapOK
<1>1. OSTCBStat[t] = {} /\ OSTCBDly[t] = 0 /\ pc[t] = "wake"
  BY ReadyMeans DEF PendEnds
<1>2. /\ OSRdyTbl' = OSRdyTbl /\ OSTCBPrio' = OSTCBPrio /\ OSTCBDly' = OSTCBDly
      /\ OSTCBStat' = OSTCBStat
      /\ \A u \in Task : u # t => /\ pc'[u] = pc[u] /\ pevent'[u] = pevent[u]
                                  /\ OSTCBStatPend'[u] = OSTCBStatPend[u]
      /\ pc'[t] = "task"
  BY <1>t, <1>1 DEF PendEnds
<1>3. ReadyInv'
  BY <1>2 DEF ListInv, ReadyInv
<1>4. \A u \in Task : u # t => (InPendCall(u)' <=> InPendCall(u))
  BY <1>2 DEF InPendCall
<1>5. ~InPendCall(t)'
  BY <1>2 DEF InPendCall
<1>6. PendInv'
  BY <1>1, <1>2, <1>4, <1>5 DEF ListInv, PendInv
<1>7. \A d \in Event : OSEventTbl'[d] =
        IF d = pevent[t] /\ OSTCBStatPend[t] = "TO" THEN OSEventTbl[d] \ {OSTCBPrio[t]}
                                                   ELSE OSEventTbl[d]
  BY <1>1 DEF PendEnds, OS_EventTaskRemove
<1>8. WaitInv'
  <2> SUFFICES ASSUME NEW d \in Event
               PROVE  /\ OSEventTbl'[d] \subseteq {OSTCBPrio[u] : u \in Task}
                      /\ \A u \in Task : OSTCBPrio[u] \in OSEventTbl'[d] <=> Waits(u, d)'
    BY <1>2 DEF WaitInv
  <2>1. OSEventTbl[d] \subseteq {OSTCBPrio[u] : u \in Task}
    BY DEF ListInv, WaitInv
  <2>2. ASSUME NEW u \in Task, u # t
        PROVE  OSTCBPrio[u] \in OSEventTbl'[d] <=> Waits(u, d)'
    <3>1. OSTCBPrio[u] # OSTCBPrio[t]
      BY <1>t, <2>2, <1>p
    <3>2. Waits(u, d)' <=> Waits(u, d)
      BY <1>2, <1>4, <2>2 DEF Waits
    <3>3. OSTCBPrio[u] \in OSEventTbl[d] <=> Waits(u, d)
      BY DEF ListInv, WaitInv
    <3> QED
      BY <1>7, <3>1, <3>2, <3>3
  <2>3. OSTCBPrio[t] \notin OSEventTbl'[d]
    <3>1. OSTCBPrio[t] \in OSEventTbl[d] <=> Waits(t, d)
      BY DEF ListInv, WaitInv
    <3>2. Waits(t, d) => pevent[t] = d /\ OSTCBStatPend[t] = "TO"
      BY <1>1 DEF Waits
    <3> QED
      BY <1>7, <3>1, <3>2
  <2>4. ~Waits(t, d)'
    BY <1>5 DEF Waits
  <2>5. \A u \in Task : OSTCBPrio[u] \in OSEventTbl'[d] <=> Waits(u, d)'
    <3> TAKE u \in Task
    <3>1. CASE u = t
      BY <1>2, <2>3, <3>1 DEF Waits, InPendCall
    <3>2. CASE u # t
      BY <2>2, <3>2
    <3> QED
      BY <3>1, <3>2
  <2> QED
    BY <1>7, <2>1, <2>5
<1> QED
  BY <1>3, <1>6, <1>8 DEF ListInv

LEMMA PendEndLists ==
  ASSUME CoreTypeInv, KernelInv, ListInv, NEW t \in Task, PendEnds(t)
  PROVE  ListInv'
BY RunsReady, ReturnLists DEF PendEnds

LEMMA PendWaitLists ==
  ASSUME CoreTypeInv, ListInv, NEW t \in Task, NEW e \in Event, NEW n \in 0..MaxTicks,
         PendWaits(t, e, n)
  PROVE  ListInv'
<1> USE DEF CoreTypeInv, TypeOK
<1>t. \A u \in Task : u \in AllTask
  BY DEF AllTask
<1>p. \A u \in Task : u # t => OSTCBPrio[u] # OSTCBPrio[t]
  BY <1>t DEF PrioInv, PrioMapOK
<1>1. /\ pc' = [pc EXCEPT ![t] = "pendsched"]
      /\ pevent' = [pevent EXCEPT ![t] = e]
      /\ OSTCBPrio' = OSTCBPrio
      /\ OS_EventTaskWait(t, e, n)
      /\ pc[t] = "task"
  BY DEF PendWaits
<1>2. /\ OSTCBStat'[t] = OSTCBStat[t] \cup {"PEND"}
      /\ OSTCBStatPend'[t] = "OK" /\ pc'[t] = "pendsched" /\ pevent'[t] = e
      /\ \A u \in AllTask : u # t =>
           /\ OSTCBStat'[u] = OSTCBStat[u] /\ OSTCBStatPend'[u] = OSTCBStatPend[u]
           /\ OSTCBDly'[u] = OSTCBDly[u]
           /\ pc'[u] = pc[u] /\ pevent'[u] = pevent[u]
  BY <1>t, <1>1 DEF OS_EventTaskWait
<1>3. OSRdyTbl' = OSRdyTbl \ {OSTCBPrio[t]}
  BY <1>1 DEF OS_EventTaskWait
<1>4. ReadyInv'
  BY <1>t, <1>1, <1>2, <1>3, ReadyMember DEF ListInv, ReadyInv
<1>5. \A u \in Task : u # t => (InPendCall(u)' <=> InPendCall(u))
  BY <1>t, <1>2 DEF InPendCall
<1>6. InPendCall(t)' /\ ~InPendCall(t)
  BY <1>1, <1>2 DEF InPendCall
<1>7. PendInv'
  <2> SUFFICES ASSUME NEW u \in Task
               PROVE  /\ "PEND" \in OSTCBStat'[u] => InPendCall(u)'
                      /\ InPendCall(u)' => pevent'[u] \in Event
                      /\ InPendCall(u)' /\ "PEND" \notin OSTCBStat'[u] => OSTCBDly'[u] = 0
    BY DEF PendInv
  <2>1. CASE u = t
    BY <1>2, <2>1 DEF InPendCall
  <2>2. CASE u # t
    BY <1>t, <1>2, <1>5, <2>2 DEF ListInv, PendInv
  <2> QED
    BY <2>1, <2>2
<1>8. WaitInv'
  <2> SUFFICES ASSUME NEW d \in Event
               PROVE  /\ OSEventTbl'[d] \subseteq {OSTCBPrio[u] : u \in Task}
                      /\ \A u \in Task : OSTCBPrio[u] \in OSEventTbl'[d] <=> Waits(u, d)'
    BY <1>1 DEF WaitInv
  <2>1. OSEventTbl'[d] = IF d = e THEN OSEventTbl[d] \cup {OSTCBPrio[t]} ELSE OSEventTbl[d]
    BY <1>1 DEF OS_EventTaskWait
  <2>2. OSEventTbl'[d] \subseteq {OSTCBPrio[u] : u \in Task}
    BY <2>1 DEF ListInv, WaitInv
  <2>3. ASSUME NEW u \in Task
        PROVE  OSTCBPrio[u] \in OSEventTbl'[d] <=> Waits(u, d)'
    <3>1. OSTCBPrio[u] \in OSEventTbl[d] <=> Waits(u, d)
      BY DEF ListInv, WaitInv
    <3>2. CASE u = t
      <4>1. ~Waits(t, d) /\ (Waits(t, d)' <=> d = e)
        BY <1>2, <1>6 DEF Waits, InPendCall
      <4>2. OSTCBPrio[t] \in OSEventTbl'[d] <=> Waits(t, d)'
        BY <2>1, <3>1, <3>2, <4>1
      <4> QED
        BY <3>2, <4>2 DEF Waits, InPendCall
    <3>3. CASE u # t
      <4>1. OSTCBPrio[u] # OSTCBPrio[t]
        BY <1>t, <3>3, <1>p
      <4>2. Waits(u, d)' <=> Waits(u, d)
        BY <1>t, <1>2, <1>5, <3>3 DEF Waits
      <4> QED
        BY <2>1, <3>1, <4>1, <4>2
    <3> QED
      BY <3>2, <3>3
  <2> QED
    BY <2>2, <2>3
<1> QED
  BY <1>4, <1>7, <1>8 DEF ListInv

\* What the three layers say of the lists and the scheduler.
LEMMA LayersGiveLists ==
  ASSUME CoreTypeInv, KernelInv, ListInv
  PROVE  ReadyListOK /\ WaitListOK /\ HighestRuns
<1>1. ReadyListOK
  BY DEF CoreTypeInv, PrioInv, ListInv, ReadyInv, ReadyListOK
<1>2. HighestRuns
  BY DEF KernelInv, SchedInv, HighestRuns
<1>3. WaitListOK
  <2> SUFFICES ASSUME NEW e \in Event
               PROVE  OSEventTbl[e] =
                 {OSTCBPrio[t] : t \in {u \in Task : /\ pc[u] \in {"pendsched", "wake"}
                                                     /\ pevent[u] = e
                                                     /\ \/ "PEND" \in OSTCBStat[u]
                                                        \/ OSTCBStatPend[u] = "TO"}}
    BY DEF WaitListOK
  <2>1. /\ OSEventTbl[e] \subseteq {OSTCBPrio[t] : t \in Task}
        /\ \A t \in Task : OSTCBPrio[t] \in OSEventTbl[e] <=> Waits(t, e)
    BY DEF ListInv, WaitInv
  <2> QED
    BY <2>1 DEF Waits, InPendCall
<1> QED
  BY <1>1, <1>2, <1>3

\* Each task has the priority it was created with: so where nothing renumbers
\* tasks.
FixedPrio == OSTCBPrio = InitOSTCBPrio

=============================================================================
