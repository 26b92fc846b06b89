---------------------------- MODULE OSMutexProof ----------------------------
(***************************************************************************)
(* Theorems about the mutexes (OSMutex), for every number of tasks,        *)
(* mutexes, ceilings and priorities, and an application that is Careful.   *)
(***************************************************************************)
EXTENDS OSMutex, OSCoreProof

EcbTypeOK ==
  /\ PrioTbl \in [AllPrio -> AllTask \cup {NoTask, Reserved}]
  /\ OSMutexPCP \in [Mutex -> Ceiling \cup {Available}]
  /\ OSOwnerPrio \in [Mutex -> AllPrio \cup {Available}]
  /\ OSEventPtr \in [Mutex -> Task \cup {NoTask}]
  /\ inside \in [Mutex -> SUBSET Task]

TypeInv == CoreTypeInv /\ EcbTypeOK

(***************************************************************************)
(* The inductive invariant, in five parts.                                 *)
(***************************************************************************)
Owner(m) == OSEventPtr[m]
Owned(m) == Owner(m) # NoTask
Raised(m) == WasRaised(Owner(m), m)

\* The control block of a mutex agrees with the TCB of the task that owns it:
\* which is ready, and at its own priority or raised to the ceiling.
OwnerOK(m) ==
  /\ Exists(m)
  /\ OSOwnerPrio[m] = InitPrio[Owner(m)]
  /\ HasCeiling(m) => OSMutexPCP[m] < OSOwnerPrio[m]
  /\ OSTCBPrio[Owner(m)] = OSOwnerPrio[m] \/ Raised(m)
  /\ OSTCBStat[Owner(m)] = {} /\ OSTCBDly[Owner(m)] = 0
  /\ InPendCall(Owner(m)) => pevent[Owner(m)] = m /\ OSTCBStatPend[Owner(m)] = "OK"

OwnerInv ==
  /\ \A m \in Mutex : OSOwnerPrio[m] = Available <=> ~Owned(m)
  /\ \A m \in Mutex : Owned(m) => OwnerOK(m)
  /\ \A m, n \in Mutex : Owned(m) /\ Owner(m) = Owner(n) => m = n

\* The tasks that wait are those that must: below the ceiling and not more
\* urgent than the owner, which is raised only while one of them waits.
WaitersInv == \A m \in Mutex :
  /\ OSEventTbl[m] # {} => Owned(m)
  /\ Raised(m) => OSEventTbl[m] # {}
  /\ HasCeiling(m) => \A p \in OSEventTbl[m] :
       OSMutexPCP[m] < p /\ OSTCBPrio[Owner(m)] <= p

\* A task in a pend is suspended only once the pend has ended, and was granted
\* the mutex only if it owns it.
PendersInv == \A t \in Task : InPendCall(t) =>
  /\ pevent[t] \in Mutex
  /\ Waits(t, pevent[t]) => "SUSPEND" \notin OSTCBStat[t]
  /\ "PEND" \notin OSTCBStat[t] /\ OSTCBStatPend[t] = "OK" => Owner(pevent[t]) = t

\* OSTCBPrioTbl: each task at the priority it was created with, and at the
\* ceiling of each mutex the reservation, or the owner it has raised.
WithCeiling(m) == Exists(m) /\ HasCeiling(m)

EntriesInv ==
  /\ \A t \in AllTask : PrioTbl[InitOSTCBPrio[t]] = t
  /\ \A m \in Mutex : WithCeiling(m) =>
       PrioTbl[OSMutexPCP[m]] = IF Raised(m) THEN Owner(m) ELSE Reserved
  /\ \A m, n \in Mutex : WithCeiling(m) /\ WithCeiling(n)
                           /\ OSMutexPCP[m] = OSMutexPCP[n] => m = n

InsideInv == \A m \in Mutex : inside[m] \subseteq {Owner(m)}

MutexInv == /\ OwnerInv /\ WaitersInv /\ PendersInv /\ EntriesInv
            /\ PriorityRestored /\ InsideInv

IInv == TypeInv /\ KernelInv /\ ListInv /\ MutexInv

LEMMA TypeInvImplies == TypeInv => MutexTypeOK
BY DEF TypeInv, CoreTypeInv, EcbTypeOK, MutexTypeOK

-----------------------------------------------------------------------------
(* What the invariant says of the priorities and of those who wait.         *)

\* A ceiling is a priority of the application that no task was created with.
LEMMA CeilingFacts ==
  ASSUME EcbTypeOK, NEW m \in Mutex, WithCeiling(m)
  PROVE  /\ OSMutexPCP[m] \in Ceiling /\ OSMutexPCP[m] \in Prio
         /\ OSMutexPCP[m] \in AllPrio /\ OSMutexPCP[m] \in Nat
         /\ \A u \in AllTask : InitOSTCBPrio[u] # OSMutexPCP[m]
<1>1. OSMutexPCP[m] \in Ceiling
  BY DEF EcbTypeOK, WithCeiling, Exists
<1>2. OSMutexPCP[m] \in Prio
  BY <1>1, MutexAssumption DEF WithCeiling, HasCeiling
<1>3. OSMutexPCP[m] \in AllPrio /\ OSMutexPCP[m] \in Nat /\ OSMutexPCP[m] # IdlePrio
  <2>1. \A p \in Prio : p \in Nat /\ p # IdlePrio
    BY CoreAssumption
  <2> QED
    BY <1>2, <2>1 DEF AllPrio
<1>4. \A u \in Task : InitOSTCBPrio[u] = InitPrio[u]
  BY CoreAssumption DEF InitOSTCBPrio, AllTask
<1>5. \A u \in AllTask : InitOSTCBPrio[u] # OSMutexPCP[m]
  BY <1>1, <1>3, <1>4, PrioFacts, MutexAssumption DEF AllTask
<1> QED
  BY <1>1, <1>2, <1>3, <1>5

LEMMA InitPrioFacts ==
  /\ \A u \in Task : /\ u \in AllTask /\ u # NoTask
                     /\ InitOSTCBPrio[u] = InitPrio[u]
                     /\ InitPrio[u] \in AllPrio /\ InitPrio[u] \in Nat /\ InitPrio[u] # IdlePrio
                     /\ InitPrio[u] # Available
  /\ \A u, v \in Task : InitPrio[u] = InitPrio[v] => u = v
<1>1. \A u \in Task : u \in AllTask /\ u # NoTask /\ InitOSTCBPrio[u] = InitPrio[u]
  BY MutexAssumption, CoreAssumption DEF InitOSTCBPrio, AllTask
<1>2. \A u \in Task : /\ InitPrio[u] \in AllPrio /\ InitPrio[u] \in Nat /\ InitPrio[u] # IdlePrio
                     /\ InitPrio[u] # Available
  <2>1. \A p \in Prio : p \in Nat /\ p # IdlePrio
    BY CoreAssumption
  <2>2. \A u \in Task : InitPrio[u] \in Prio
    BY CoreAssumption
  <2> QED
    BY <2>1, <2>2, MutexAssumption DEF AllPrio
<1> QED
  BY <1>1, <1>2, CoreAssumption

\* A task is at its own priority, unless it is an owner at the ceiling.
LEMMA PrioCases ==
  ASSUME EcbTypeOK, OwnerInv, PriorityRestored, NEW u \in Task
  PROVE  \/ OSTCBPrio[u] = InitPrio[u]
         \/ \E n \in Mutex : /\ Owner(n) = u /\ Raised(n) /\ WithCeiling(n)
                             /\ OSTCBPrio[u] = OSMutexPCP[n]
<1>1. CASE ~Owns(u)
  BY <1>1 DEF PriorityRestored
<1>2. CASE Owns(u)
  <2>1. PICK n \in Mutex : Owner(n) = u
    BY <1>2 DEF Owns, Owner
  <2>2. Owned(n) /\ OwnerOK(n)
    BY <2>1, InitPrioFacts DEF OwnerInv, Owned
  <2> QED
    BY <2>1, <2>2 DEF OwnerOK, Raised, WasRaised, WithCeiling
<1> QED
  BY <1>1, <1>2

\* An owner waits for nothing and is ready.
LEMMA OwnerFacts ==
  ASSUME IInv, NEW m \in Mutex, Owned(m)
  PROVE  /\ Owner(m) \in Task /\ Owner(m) \in AllTask
         /\ Exists(m) /\ OSOwnerPrio[m] = InitPrio[Owner(m)]
         /\ OSOwnerPrio[m] # Available
         /\ HasCeiling(m) => WithCeiling(m) /\ OSMutexPCP[m] < InitPrio[Owner(m)]
         /\ OSTCBPrio[Owner(m)] \in OSRdyTbl
         /\ Owns(Owner(m))
         /\ \A e \in Event : ~Waits(Owner(m), e) /\ OSTCBPrio[Owner(m)] \notin OSEventTbl[e]
<1> DEFINE o == Owner(m)
<1>1. o \in Task /\ o \in AllTask /\ Owns(o)
  BY InitPrioFacts DEF IInv, TypeInv, EcbTypeOK, Owned, Owner, Owns
<1>2. OwnerOK(m)
  BY DEF IInv, MutexInv, OwnerInv
<1>3. OSTCBPrio[o] \in OSRdyTbl
  BY <1>1, <1>2 DEF OwnerOK, IInv, ListInv, ReadyInv
<1>4. \A e \in Event : ~Waits(o, e)
  BY <1>2 DEF OwnerOK, Waits
<1>5. \A e \in Event : OSTCBPrio[o] \notin OSEventTbl[e]
  BY <1>1, <1>4 DEF IInv, ListInv, WaitInv
<1>6. OSOwnerPrio[m] # Available
  BY DEF IInv, MutexInv, OwnerInv
<1> QED
  BY <1>1, <1>2, <1>3, <1>4, <1>5, <1>6 DEF OwnerOK, WithCeiling

\* OSTCBPrioTbl finds each task at the priority it has now.
LEMMA EntriesFind ==
  ASSUME EcbTypeOK, OwnerInv, EntriesInv, PriorityRestored,
         OSTCBPrio[IdleTask] = IdlePrio, NEW u \in AllTask
  PROVE  PrioTbl[OSTCBPrio[u]] = u
<1>1. CASE u = IdleTask
  BY <1>1, PrioFacts DEF EntriesInv
<1>2. CASE u \in Task
  <2>1. CASE OSTCBPrio[u] = InitPrio[u]
    BY <1>2, <2>1, InitPrioFacts DEF EntriesInv
  <2>2. CASE OSTCBPrio[u] # InitPrio[u]
    <3>1. PICK n \in Mutex : /\ Owner(n) = u /\ Raised(n) /\ WithCeiling(n)
                             /\ OSTCBPrio[u] = OSMutexPCP[n]
      BY <1>2, <2>2, PrioCases
    <3> QED
      BY <3>1 DEF EntriesInv
  <2> QED
    BY <2>1, <2>2
<1> QED
  BY <1>1, <1>2 DEF AllTask

\* Who waits for a mutex: tasks at their own priority that own nothing, are
\* not suspended, and are found by OSTCBPrioTbl.
LEMMA WaiterFacts ==
  ASSUME IInv, NEW m \in Mutex, NEW p \in OSEventTbl[m]
  PROVE  \E w \in Task :
           /\ PrioTbl[p] = w /\ OSTCBPrio[w] = p /\ InitPrio[w] = p
           /\ Waits(w, m) /\ ~Owns(w) /\ "SUSPEND" \notin OSTCBStat[w]
<1>e. m \in Event
  BY MutexAssumption
<1>1. PICK w \in Task : OSTCBPrio[w] = p
  BY <1>e DEF IInv, ListInv, WaitInv
<1>2. Waits(w, m)
  BY <1>1, <1>e DEF IInv, ListInv, WaitInv
<1>3. ~Owns(w)
  <2> SUFFICES ASSUME NEW n \in Mutex, Owner(n) = w
               PROVE  FALSE
    BY DEF Owns, Owner
  <2>1. Owned(n)
    BY InitPrioFacts DEF Owned
  <2> QED
    BY <2>1, <1>2, <1>e, OwnerFacts
<1>4. InitPrio[w] = p
  BY <1>1, <1>3 DEF IInv, MutexInv, PriorityRestored
<1>5. "SUSPEND" \notin OSTCBStat[w]
  BY <1>2 DEF IInv, MutexInv, PendersInv, Waits
<1>6. PrioTbl[p] = w
  BY <1>4, InitPrioFacts DEF IInv, MutexInv, EntriesInv
<1> QED
  BY <1>1, <1>2, <1>3, <1>4, <1>5, <1>6

-----------------------------------------------------------------------------
LEMMA InitOK == Init => IInv
<1> SUFFICES ASSUME Init PROVE IInv
  OBVIOUS
<1>1. CoreTypeInv /\ KernelInv /\ ListInv
  BY CoreInitTyped, CoreInitKernel, CoreInitLists DEF Init
<1>2. \A t \in AllTask : OSTCBPrio[t] = InitOSTCBPrio[t]
  BY DEF Init, CoreInit
<1>3. \A m \in Mutex : ~Owned(m) /\ ~Exists(m) /\ ~Raised(m)
  BY DEF Init, Owned, Owner, Exists, Raised, WasRaised
<1>4. \A t \in AllTask : PrioTbl[InitOSTCBPrio[t]] = t
  <2> TAKE t \in AllTask
  <2>1. InitOSTCBPrio[t] \in AllPrio /\ OSTCBPrio[t] = InitOSTCBPrio[t]
    BY <1>2, PrioFacts
  <2>2. PrioTbl[InitOSTCBPrio[t]] = OSTCBPrioTbl(InitOSTCBPrio[t])
    BY <2>1 DEF Init
  <2>3. /\ OSTCBPrioTbl(InitOSTCBPrio[t]) \in AllTask
        /\ OSTCBPrio[OSTCBPrioTbl(InitOSTCBPrio[t])] = InitOSTCBPrio[t]
    BY <2>1, PrioTblFinds
  <2> QED
    BY <1>2, <2>2, <2>3, PrioFacts
<1>5. EcbTypeOK
  <2>1. \A p \in {OSTCBPrio[t] : t \in AllTask} : OSTCBPrioTbl(p) \in AllTask
    BY PrioTblFinds
  <2>2. PrioTbl \in [AllPrio -> AllTask \cup {NoTask, Reserved}]
    BY <2>1 DEF Init
  <2> QED
    BY <2>2 DEF Init, EcbTypeOK
<1>6. OwnerInv /\ InsideInv /\ EntriesInv
  BY <1>3, <1>4 DEF Init, OwnerInv, InsideInv, EntriesInv, WithCeiling, Owned, Owner
<1>7. PriorityRestored
  BY <1>2, InitPrioFacts DEF PriorityRestored
<1>8. WaitersInv /\ PendersInv
  BY <1>3, MutexAssumption, InitPrioFacts DEF Init, CoreInit, WaitersInv, PendersInv, InPendCall
<1> QED
  BY <1>1, <1>5, <1>6, <1>7, <1>8 DEF IInv, TypeInv, MutexInv

-----------------------------------------------------------------------------
(* Steps of the kernel, and of tasks that call no mutex service.            *)

\* A step changes nothing of MutexInv if it leaves the owners alone, suspends
\* nobody who waits and grants nothing.
LEMMA SameMutexes ==
  ASSUME IInv, UNCHANGED <<OSTCBPrio, OSEventTbl, PrioTbl, ecbVars, inside, pevent>>,
         \A t \in Task : InPendCall(t)' <=> InPendCall(t),
         \A t \in Task : Owns(t) => /\ OSTCBStat'[t] = OSTCBStat[t]
                                    /\ OSTCBDly'[t] = OSTCBDly[t]
                                    /\ OSTCBStatPend'[t] = OSTCBStatPend[t],
         \A t \in Task : InPendCall(t) =>
           /\ Waits(t, pevent[t])' => "SUSPEND" \notin OSTCBStat'[t]
           /\ "PEND" \notin OSTCBStat'[t] /\ OSTCBStatPend'[t] = "OK"
                => "PEND" \notin OSTCBStat[t] /\ OSTCBStatPend[t] = "OK"
  PROVE  MutexInv'
<1> USE DEF IInv, MutexInv
<1>1. /\ \A m \in Mutex : /\ Owner(m)' = Owner(m) /\ (Exists(m)' <=> Exists(m))
                          /\ (HasCeiling(m)' <=> HasCeiling(m))
                          /\ (Raised(m)' <=> Raised(m)) /\ (Owned(m)' <=> Owned(m))
                          /\ (WithCeiling(m)' <=> WithCeiling(m))
                          /\ OSOwnerPrio'[m] = OSOwnerPrio[m] /\ OSMutexPCP'[m] = OSMutexPCP[m]
      /\ \A t \in Task : Owns(t)' <=> Owns(t)
  BY DEF Owner, Owned, Exists, HasCeiling, Raised, WasRaised, WithCeiling, Owns, ecbVars
<1>2. OwnerInv'
  <2>1. ASSUME NEW m \in Mutex, Owned(m)
        PROVE  OwnerOK(m)'
    <3>1. Owner(m) \in Task /\ Owns(Owner(m))
      BY <2>1, OwnerFacts
    <3> QED
      BY <1>1, <2>1, <3>1 DEF OwnerInv, OwnerOK
  <2> QED
    BY <1>1, <2>1 DEF OwnerInv
<1>3. WaitersInv' /\ EntriesInv' /\ PriorityRestored' /\ InsideInv'
  BY <1>1 DEF WaitersInv, EntriesInv, PriorityRestored, InsideInv
<1>4. PendersInv'
  <2> SUFFICES ASSUME NEW t \in Task, InPendCall(t)
               PROVE  /\ pevent'[t] \in Mutex
                      /\ Waits(t, pevent[t])' => "SUSPEND" \notin OSTCBStat'[t]
                      /\ "PEND" \notin OSTCBStat'[t] /\ OSTCBStatPend'[t] = "OK"
                           => Owner(pevent[t])' = t
    BY DEF PendersInv
  <2>1. pevent[t] \in Mutex /\ pevent' = pevent
    BY DEF PendersInv
  <2> QED
    BY <1>1, <2>1 DEF PendersInv
<1> QED
  BY <1>2, <1>3, <1>4

LEMMA CoreMutexes ==
  ASSUME Careful, IInv, NEW t \in Task, Core(t), UNCHANGED <<PrioTbl, ecbVars, inside>>
  PROVE  MutexInv'
<1> USE DEF IInv, TypeInv, CoreTypeInv, TypeOK
<1>t. \A u \in Task : u \in AllTask
  BY DEF AllTask
<1>o. \A u \in Task : Owns(u) => OSTCBStat[u] = {}
  BY InitPrioFacts DEF Owns, Owner, Owned, OwnerOK, OwnerInv, MutexInv
<1>w. \A u \in Task : InPendCall(u) /\ Waits(u, pevent[u]) => "SUSPEND" \notin OSTCBStat[u]
  BY DEF MutexInv, PendersInv
<1>1. CASE OS_Sched(t) \/ OSSchedLock(t) \/ OSSchedUnlock(t)
  <2>1. UNCHANGED <<OSTCBPrio, OSEventTbl, pevent, OSTCBStat, OSTCBStatPend, OSTCBDly>>
    BY <1>1 DEF OS_Sched, OSSchedLock, OSSchedUnlock, tcbVars, callVars
  <2>2. \A u \in Task : InPendCall(u)' <=> InPendCall(u)
    BY <1>1, <1>t DEF OS_Sched, OSSchedLock, OSSchedUnlock, callVars, InPendCall
  <2> QED
    BY <1>w, <2>1, <2>2, SameMutexes DEF Waits
<1>2. ASSUME NEW n \in 1..MaxTicks, OSTimeDly(t, n), MayStop(t)
      PROVE  MutexInv'
  <2>1. UNCHANGED <<OSTCBPrio, OSEventTbl, pevent, OSTCBStat, OSTCBStatPend>>
    BY <1>2 DEF OSTimeDly
  <2>2. \A u \in Task : InPendCall(u)' <=> InPendCall(u)
    BY <1>2, <1>t DEF OSTimeDly, InPendCall
  <2>3. \A u \in Task : Owns(u) => OSTCBDly'[u] = OSTCBDly[u]
    BY <1>2, <1>t DEF OSTimeDly, MayStop, Owns
  <2> QED
    BY <1>w, <2>1, <2>2, <2>3, SameMutexes DEF Waits
<1>3. ASSUME NEW u \in Task, OSTaskSuspend(t, u), MayStop(u)
      PROVE  MutexInv'
  <2>1. UNCHANGED <<OSTCBPrio, OSEventTbl, pevent, OSTCBStatPend, OSTCBDly>>
    BY <1>3 DEF OSTaskSuspend
  <2>2. \A v \in Task : InPendCall(v)' <=> InPendCall(v)
    BY <1>3, <1>t DEF OSTaskSuspend, InPendCall
  <2>3. OSTCBStat' = [OSTCBStat EXCEPT ![u] = @ \cup {"SUSPEND"}]
    BY <1>3 DEF OSTaskSuspend
  <2>4. ~Owns(u)
    BY <1>3 DEF MayStop, Owns
  <2>5. InPendCall(u) => ~Waits(u, pevent[u])
    BY <1>3, MutexAssumption DEF MayStop, ListInv, WaitInv, MutexInv, PendersInv
  <2>6. \A v \in Task : "PEND" \in OSTCBStat'[v] <=> "PEND" \in OSTCBStat[v]
    BY <1>t, <2>3
  <2>7. \A v \in Task : Waits(v, pevent[v])' <=> Waits(v, pevent[v])
    BY <2>1, <2>2, <2>6 DEF Waits
  <2>8. \A v \in Task : v # u => OSTCBStat'[v] = OSTCBStat[v]
    BY <1>t, <2>3
  <2> QED
    BY <1>w, <2>1, <2>2, <2>4, <2>5, <2>6, <2>7, <2>8, SameMutexes
<1>4. ASSUME NEW u \in Task, OSTaskResume(t, u)
      PROVE  MutexInv'
  <2>1. UNCHANGED <<OSTCBPrio, OSEventTbl, pevent, OSTCBStatPend, OSTCBDly>>
    BY <1>4 DEF OSTaskResume
  <2>2. \A v \in Task : InPendCall(v)' <=> InPendCall(v)
    BY <1>4, <1>t DEF OSTaskResume, InPendCall
  <2>3. "SUSPEND" \in OSTCBStat[u] /\ OSTCBStat' = [OSTCBStat EXCEPT ![u] = @ \ {"SUSPEND"}]
    BY <1>4 DEF OSTaskResume
  <2>4. ~Owns(u)
    BY <1>o, <2>3
  <2>5. \A v \in Task : /\ "PEND" \in OSTCBStat'[v] <=> "PEND" \in OSTCBStat[v]
                        /\ "SUSPEND" \in OSTCBStat'[v] => "SUSPEND" \in OSTCBStat[v]
    BY <1>t, <2>3
  <2>6. \A v \in Task : Waits(v, pevent[v])' <=> Waits(v, pevent[v])
    BY <2>1, <2>2, <2>5 DEF Waits
  <2>7. \A v \in Task : v # u => OSTCBStat'[v] = OSTCBStat[v]
    BY <1>t, <2>3
  <2> QED
    BY <1>w, <2>1, <2>2, <2>4, <2>5, <2>6, <2>7, SameMutexes
<1> QED
  BY <1>1, <1>2, <1>3, <1>4 DEF Core

LEMMA KernelMutexes ==
  ASSUME IInv, Kernel, UNCHANGED <<PrioTbl, ecbVars, inside>>
  PROVE  MutexInv'
<1> USE DEF IInv, TypeInv, CoreTypeInv, TypeOK
<1>t. \A u \in Task : u \in AllTask
  BY DEF AllTask
<1>w. \A u \in Task : InPendCall(u) /\ Waits(u, pevent[u]) => "SUSPEND" \notin OSTCBStat[u]
  BY DEF MutexInv, PendersInv
<1>1. CASE PendSV_Handler \/ Tick \/ SysTickExit
  <2>1. /\ UNCHANGED <<OSTCBPrio, OSEventTbl, OSTCBStat, OSTCBStatPend, OSTCBDly>>
        /\ UNCHANGED callVars
    BY <1>1 DEF PendSV_Handler, Tick, SysTickExit, tcbVars
  <2> QED
    BY <1>w, <2>1, SameMutexes DEF Waits, InPendCall, callVars
<1>2. CASE OSTimeTick
  <2> DEFINE T == {t \in {u \in Task : OSTCBDly[u] # 0} : OSTCBDly[t] = 1}
  <2>1. /\ UNCHANGED <<OSTCBPrio, OSEventTbl>> /\ UNCHANGED callVars
        /\ DlyEnds(T)
    BY <1>2 DEF OSTimeTick
  <2>2. \A u \in Task : InPendCall(u)' <=> InPendCall(u)
    BY <2>1 DEF callVars, InPendCall
  <2>3. \A u \in Task : Owns(u) => OSTCBDly[u] = 0
    BY InitPrioFacts DEF Owns, Owner, Owned, OwnerOK, OwnerInv, MutexInv
  <2>4. \A u \in Task : OSTCBDly[u] = 0 => OSTCBDly'[u] = 0
    BY <1>2, <1>t DEF OSTimeTick
  <2>5. \A u \in Task : u \notin T => OSTCBStat'[u] = OSTCBStat[u] /\ OSTCBStatPend'[u] = OSTCBStatPend[u]
    BY <1>t, <2>1 DEF DlyEnds
  <2>6. ASSUME NEW u \in T, InPendCall(u)
        PROVE  /\ "PEND" \in OSTCBStat[u] /\ OSTCBStatPend'[u] = "TO"
               /\ "SUSPEND" \notin OSTCBStat'[u]
    <3>1. "PEND" \in OSTCBStat[u]
      BY <2>6 DEF ListInv, PendInv
    <3>2. OSTCBStatPend'[u] = "TO" /\ OSTCBStat'[u] = OSTCBStat[u] \ {"PEND"}
      BY <1>t, <2>1, <3>1 DEF DlyEnds
    <3>3. Waits(u, pevent[u])
      BY <2>6, <3>1 DEF Waits
    <3> QED
      BY <1>w, <2>6, <3>1, <3>2, <3>3
  <2>7. \A u \in Task : u \notin T => (Waits(u, pevent[u])' <=> Waits(u, pevent[u]))
    BY <2>1, <2>2, <2>5 DEF Waits, callVars
  <2> HIDE DEF T
  <2> QED
    BY <1>w, <2>1, <2>2, <2>3, <2>4, <2>5, <2>6, <2>7, SameMutexes DEF callVars, T
<1> QED
  BY <1>1, <1>2 DEF Kernel


-----------------------------------------------------------------------------
(* The services that leave the priorities and the ready list alone.         *)

LEMMA SameKernel ==
  ASSUME IInv, UNCHANGED coreVars
  PROVE  CoreTypeInv' /\ KernelInv' /\ ListInv'
<1> USE DEF coreVars, swVars, nestVars, tcbVars, callVars
<1>1. CoreTypeInv'
  BY DEF IInv, TypeInv, CoreTypeInv, TypeOK, PrioInv, PrioMapOK
<1>2. KernelInv'
  BY DEF IInv, KernelInv, CurInv, Stale, NestInv, LockInv, SchedInv
<1>3. ListInv'
  BY DEF IInv, ListInv, ReadyInv, WaitInv, PendInv, Waits, InPendCall
<1> QED
  BY <1>1, <1>2, <1>3

\* A mutex nobody has made has no owner, nobody waits for it and nobody is in
\* what it protects; nor does anybody wait for one that nobody owns.
LEMMA UnownedFacts ==
  ASSUME IInv, NEW m \in Mutex
  PROVE  /\ ~Exists(m) => ~Owned(m)
         /\ ~Owned(m) => /\ OSEventTbl[m] = {} /\ ~Raised(m) /\ inside[m] = {}
                         /\ OSOwnerPrio[m] = Available /\ OSEventPtr[m] = NoTask
<1>1. ~Exists(m) => ~Owned(m)
  BY DEF IInv, MutexInv, OwnerInv, OwnerOK
<1>2. ~Owned(m) => inside[m] = {}
  BY InitPrioFacts DEF IInv, TypeInv, EcbTypeOK, MutexInv, InsideInv, Owned
<1> QED
  BY <1>1, <1>2 DEF IInv, MutexInv, OwnerInv, WaitersInv, Owned, Owner, Raised, WasRaised

LEMMA CreateKeeps ==
  ASSUME IInv, NEW t \in Task, NEW m \in Mutex, NEW c \in Ceiling, OSMutexCreate(t, m, c)
  PROVE  IInv'
<1>1. /\ ~Exists(m) /\ ~Owned(m) /\ OSEventTbl[m] = {} /\ m \in Event
      /\ OSOwnerPrio[m] = Available /\ OSEventPtr[m] = NoTask
  BY UnownedFacts, MutexAssumption DEF OSMutexCreate
<1>2. OSOwnerPrio' = OSOwnerPrio /\ OSEventPtr' = OSEventPtr
  BY <1>1 DEF OSMutexCreate, IInv, TypeInv, EcbTypeOK
<1>3. UNCHANGED coreVars
  BY <1>1 DEF OSMutexCreate, coreVars, IInv, TypeInv, CoreTypeInv, TypeOK
<1>4. CoreTypeInv' /\ KernelInv' /\ ListInv'
  BY <1>3, SameKernel
<1>5. /\ OSTCBPrio' = OSTCBPrio /\ OSEventTbl' = OSEventTbl /\ OSTCBStat' = OSTCBStat
      /\ OSTCBStatPend' = OSTCBStatPend /\ OSTCBDly' = OSTCBDly
      /\ pc' = pc /\ pevent' = pevent /\ inside' = inside
  BY <1>3 DEF coreVars, tcbVars, callVars, OSMutexCreate
<1>6. /\ OSMutexPCP'[m] = c
      /\ \A n \in Mutex : n # m => OSMutexPCP'[n] = OSMutexPCP[n]
  BY DEF OSMutexCreate, IInv, TypeInv, EcbTypeOK
<1>c. c # NoCeiling => c \in AllPrio /\ PrioTbl[c] = NoTask
  BY MutexAssumption DEF OSMutexCreate, AllPrio
<1>7. /\ c = NoCeiling => PrioTbl' = PrioTbl
      /\ c # NoCeiling => PrioTbl'[c] = Reserved
      /\ \A p \in AllPrio : p # c => PrioTbl'[p] = PrioTbl[p]
  BY <1>c DEF OSMutexCreate, IInv, TypeInv, EcbTypeOK
<1>8. EcbTypeOK'
  <2>1. PrioTbl' \in [AllPrio -> AllTask \cup {NoTask, Reserved}]
    BY <1>c DEF OSMutexCreate, IInv, TypeInv, EcbTypeOK
  <2> QED
    BY <1>2, <1>5, <2>1 DEF OSMutexCreate, IInv, TypeInv, EcbTypeOK
<1>9. /\ \A n \in Mutex : /\ Owner(n)' = Owner(n) /\ (Owned(n)' <=> Owned(n))
                          /\ OSOwnerPrio'[n] = OSOwnerPrio[n]
      /\ \A n \in Mutex : n # m => /\ (Exists(n)' <=> Exists(n))
                                   /\ (HasCeiling(n)' <=> HasCeiling(n))
                                   /\ (WithCeiling(n)' <=> WithCeiling(n))
                                   /\ (Raised(n)' <=> Raised(n))
      /\ ~Raised(m)'
      /\ \A u \in Task : Owns(u)' <=> Owns(u)
  BY <1>1, <1>2, <1>5, <1>6
  DEF Owner, Owned, Exists, HasCeiling, WithCeiling, Raised, WasRaised, Owns
<1>10. OwnerInv'
  <2>1. \A n \in Mutex : Owned(n) => n # m /\ OwnerOK(n)
    BY <1>1 DEF IInv, MutexInv, OwnerInv
  <2>2. ASSUME NEW n \in Mutex, Owned(n)
        PROVE  OwnerOK(n)'
    BY <1>5, <1>6, <1>9, <2>1, <2>2 DEF OwnerOK, InPendCall
  <2> QED
    BY <1>9, <2>2 DEF IInv, MutexInv, OwnerInv
<1>11. WaitersInv'
  BY <1>1, <1>5, <1>6, <1>9 DEF IInv, MutexInv, WaitersInv
<1>12. PendersInv' /\ PriorityRestored' /\ InsideInv'
  BY <1>5, <1>9 DEF IInv, MutexInv, PendersInv, PriorityRestored, InsideInv, InPendCall, Waits
<1>13. EntriesInv'
  <2>1. \A u \in AllTask : InitOSTCBPrio[u] \in AllPrio /\ InitOSTCBPrio[u] # c
    BY <1>c, PrioFacts, MutexAssumption DEF IInv, MutexInv, EntriesInv
  <2>2. ASSUME NEW n \in Mutex, n # m, WithCeiling(n)
        PROVE  /\ OSMutexPCP[n] \in AllPrio /\ OSMutexPCP[n] # c
               /\ PrioTbl[OSMutexPCP[n]] = IF Raised(n) THEN Owner(n) ELSE Reserved
    <3>1. OSMutexPCP[n] \in AllPrio
      BY <2>2, CeilingFacts DEF IInv, TypeInv
    <3>2. PrioTbl[OSMutexPCP[n]] = IF Raised(n) THEN Owner(n) ELSE Reserved
      BY <2>2 DEF IInv, MutexInv, EntriesInv
    <3>3. PrioTbl[OSMutexPCP[n]] # NoTask
      BY <3>2, MutexAssumption DEF Raised, WasRaised
    <3> QED
      BY <1>c, <2>2, <3>1, <3>2, <3>3 DEF WithCeiling, HasCeiling
  <2>3. \A u \in AllTask : PrioTbl'[InitOSTCBPrio[u]] = u
    BY <1>7, <2>1 DEF IInv, MutexInv, EntriesInv
  <2>4. ASSUME NEW n \in Mutex, WithCeiling(n)'
        PROVE  PrioTbl'[OSMutexPCP'[n]] = IF Raised(n)' THEN Owner(n)' ELSE Reserved
    <3>1. CASE n = m
      BY <1>6, <1>7, <1>9, <2>4, <3>1 DEF WithCeiling, HasCeiling
    <3>2. CASE n # m
      BY <1>6, <1>7, <1>9, <2>2, <2>4, <3>2
    <3> QED
      BY <3>1, <3>2
  <2>5. \A n, o \in Mutex : WithCeiling(n)' /\ WithCeiling(o)' /\ OSMutexPCP'[n] = OSMutexPCP'[o]
          => n = o
    BY <1>6, <1>9, <2>2 DEF IInv, MutexInv, EntriesInv
  <2> QED
    BY <2>3, <2>4, <2>5 DEF EntriesInv
<1> QED
  BY <1>4, <1>8, <1>10, <1>11, <1>12, <1>13 DEF IInv, TypeInv, MutexInv


LEMMA TakeKeeps ==
  ASSUME Careful, IInv, NEW t \in Task, NEW m \in Mutex, Take(t, m)
  PROVE  IInv'
<1>t. t \in AllTask /\ t # NoTask
  BY InitPrioFacts
<1>1. /\ Exists(m) /\ ~Owned(m) /\ OSEventTbl[m] = {} /\ inside[m] = {}
      /\ OSEventPtr[m] = NoTask
  BY UnownedFacts DEF Take, IInv, MutexInv, OwnerInv
<1>2. /\ ~Owns(t) /\ OSTCBPrio[t] \in OSRdyTbl /\ pc[t] = "task"
      /\ HasCeiling(m) => OSTCBPrio[t] > OSMutexPCP[m]
  BY DEF Take, MayUse, InTask
<1>3. OSTCBPrio[t] = InitPrio[t] /\ OSTCBStat[t] = {} /\ OSTCBDly[t] = 0
  BY <1>t, <1>2 DEF IInv, MutexInv, PriorityRestored, ListInv, ReadyInv
<1>4. /\ UNCHANGED coreVars /\ PrioTbl' = PrioTbl /\ OSMutexPCP' = OSMutexPCP
      /\ OSOwnerPrio'[m] = InitPrio[t] /\ Owner(m)' = t /\ inside'[m] = {t}
      /\ \A n \in Mutex : n # m => /\ OSOwnerPrio'[n] = OSOwnerPrio[n]
                                   /\ Owner(n)' = Owner(n) /\ inside'[n] = inside[n]
  BY <1>1, <1>3 DEF Take, Owner, IInv, TypeInv, EcbTypeOK
<1>5. CoreTypeInv' /\ KernelInv' /\ ListInv'
  BY <1>4, SameKernel
<1>6. /\ OSTCBPrio' = OSTCBPrio /\ OSEventTbl' = OSEventTbl /\ OSTCBStat' = OSTCBStat
      /\ OSTCBStatPend' = OSTCBStatPend /\ OSTCBDly' = OSTCBDly
      /\ pc' = pc /\ pevent' = pevent
  BY <1>4 DEF coreVars, tcbVars, callVars
<1>7. EcbTypeOK'
  BY <1>3, <1>4, InitPrioFacts DEF Take, IInv, TypeInv, EcbTypeOK
<1>p. HasCeiling(m) => OSMutexPCP[m] < InitPrio[t] /\ InitPrio[t] # OSMutexPCP[m]
  BY <1>1, <1>2, <1>3, CeilingFacts, InitPrioFacts DEF WithCeiling, IInv, TypeInv
<1>8. /\ \A n \in Mutex : /\ (Exists(n)' <=> Exists(n)) /\ (HasCeiling(n)' <=> HasCeiling(n))
                          /\ (WithCeiling(n)' <=> WithCeiling(n))
                          /\ (Raised(n)' <=> Raised(n))
      /\ \A n \in Mutex : n # m => (Owned(n)' <=> Owned(n)) /\ Owner(n) # t
      /\ Owned(m)' /\ Owns(t)'
      /\ \A u \in Task : Owns(u)' <=> Owns(u) \/ u = t
  <2>1. ~Raised(m) /\ ~Raised(m)'
    BY <1>1, <1>3, <1>4, <1>6, <1>p DEF Raised, WasRaised, Owner, HasCeiling
  <2>2. \A n \in Mutex : n # m => (Raised(n)' <=> Raised(n))
    BY <1>4, <1>6 DEF Raised, WasRaised, HasCeiling
  <2>3. \A u \in Task : u # t => (Owns(u)' <=> Owns(u))
    <3> TAKE u \in Task
    <3>1. u # NoTask
      BY InitPrioFacts
    <3> QED
      BY <1>1, <1>4, <3>1 DEF Owns, Owner
  <2>4. Owned(m)' /\ Owns(t)'
    BY <1>t, <1>4 DEF Owned, Owns, Owner
  <2> QED
    BY <1>2, <1>4, <2>1, <2>2, <2>3, <2>4 DEF Exists, HasCeiling, WithCeiling, Owned, Owns, Owner
<1>9. OwnerInv'
  <2>1. OwnerOK(m)'
    BY <1>1, <1>2, <1>3, <1>4, <1>6, <1>8, <1>p DEF OwnerOK, InPendCall
  <2>2. ASSUME NEW n \in Mutex, Owned(n), n # m
        PROVE  OwnerOK(n)'
    BY <1>4, <1>6, <1>8, <2>2 DEF IInv, MutexInv, OwnerInv, OwnerOK, InPendCall
  <2>3. OSOwnerPrio'[m] # Available
    BY <1>4, InitPrioFacts
  <2>4. \A n, o \in Mutex : Owned(n)' /\ Owner(n)' = Owner(o)' => n = o
    BY <1>4, <1>8 DEF IInv, MutexInv, OwnerInv
  <2>5. \A n \in Mutex : OSOwnerPrio'[n] = Available <=> ~Owned(n)'
    BY <1>4, <1>8, <2>3 DEF IInv, MutexInv, OwnerInv
  <2> QED
    BY <1>8, <2>1, <2>2, <2>4, <2>5 DEF OwnerInv
<1>10. WaitersInv'
  BY <1>1, <1>4, <1>6, <1>8 DEF IInv, MutexInv, WaitersInv
<1>11. PendersInv'
  <2>1. ASSUME NEW u \in Task, InPendCall(u), "PEND" \notin OSTCBStat[u], OSTCBStatPend[u] = "OK"
        PROVE  pevent[u] \in Mutex /\ pevent[u] # m /\ Owner(pevent[u]) = u
    BY <1>1, <2>1, InitPrioFacts DEF IInv, MutexInv, PendersInv, Owner
  <2> QED
    BY <1>4, <1>6, <2>1 DEF IInv, MutexInv, PendersInv, InPendCall, Waits
<1>12. EntriesInv'
  <2>1. \A n \in Mutex : Raised(n) => n # m
    BY <1>1, UnownedFacts
  <2> QED
    BY <1>4, <1>8, <2>1 DEF IInv, MutexInv, EntriesInv
<1>13. PriorityRestored'
  BY <1>6, <1>8 DEF IInv, MutexInv, PriorityRestored
<1>14. InsideInv'
  BY <1>4 DEF IInv, MutexInv, InsideInv
<1> QED
  BY <1>5, <1>7, <1>9, <1>10, <1>11, <1>12, <1>13, <1>14 DEF IInv, TypeInv, MutexInv

LEMMA DelNoPendKeeps ==
  ASSUME Careful, IInv, NEW t \in Task, NEW m \in Mutex, OSMutexDelNoPend(t, m)
  PROVE  IInv'
<1>1. /\ Exists(m) /\ OSEventTbl[m] = {} /\ ~Raised(m)
      /\ \A u \in Task : pevent[u] # m
  BY DEF OSMutexDelNoPend, MayDelete, IInv, MutexInv, WaitersInv
<1>2. /\ UNCHANGED coreVars /\ OSMutexPCP'[m] = Available
      /\ OSOwnerPrio'[m] = Available /\ Owner(m)' = NoTask /\ inside'[m] = {}
      /\ \A n \in Mutex : n # m => /\ OSOwnerPrio'[n] = OSOwnerPrio[n]
                                   /\ OSMutexPCP'[n] = OSMutexPCP[n]
                                   /\ Owner(n)' = Owner(n) /\ inside'[n] = inside[n]
  BY DEF OSMutexDelNoPend, Owner, IInv, TypeInv, EcbTypeOK
<1>3. CoreTypeInv' /\ KernelInv' /\ ListInv'
  BY <1>2, SameKernel
<1>4. /\ OSTCBPrio' = OSTCBPrio /\ OSEventTbl' = OSEventTbl /\ OSTCBStat' = OSTCBStat
      /\ OSTCBStatPend' = OSTCBStatPend /\ OSTCBDly' = OSTCBDly
      /\ pc' = pc /\ pevent' = pevent
  BY <1>2 DEF coreVars, tcbVars, callVars
<1>5. /\ HasCeiling(m) => WithCeiling(m)
      /\ \A p \in AllPrio : ~(HasCeiling(m) /\ p = OSMutexPCP[m]) => PrioTbl'[p] = PrioTbl[p]
      /\ PrioTbl' \in [AllPrio -> AllTask \cup {NoTask, Reserved}]
  BY <1>1 DEF OSMutexDelNoPend, WithCeiling, IInv, TypeInv, EcbTypeOK
<1>6. EcbTypeOK'
  BY <1>5 DEF OSMutexDelNoPend, IInv, TypeInv, EcbTypeOK
<1>7. /\ \A n \in Mutex : n # m => /\ (Exists(n)' <=> Exists(n)) /\ (HasCeiling(n)' <=> HasCeiling(n))
                                   /\ (WithCeiling(n)' <=> WithCeiling(n))
                                   /\ (Raised(n)' <=> Raised(n)) /\ (Owned(n)' <=> Owned(n))
      /\ ~Owned(m)' /\ ~Raised(m)' /\ ~WithCeiling(m)'
      /\ \A u \in Task : Owns(u)' <=> Owns(u) /\ OSEventPtr[m] # u
  <2>1. /\ \A n \in Mutex : n # m => /\ (Exists(n)' <=> Exists(n)) /\ (HasCeiling(n)' <=> HasCeiling(n))
                                   /\ (WithCeiling(n)' <=> WithCeiling(n))
                                   /\ (Raised(n)' <=> Raised(n)) /\ (Owned(n)' <=> Owned(n))
        /\ ~Owned(m)' /\ ~Raised(m)' /\ ~WithCeiling(m)'
    BY <1>2, <1>4 DEF Exists, HasCeiling, WithCeiling, Raised, WasRaised, Owned
  <2>2. ASSUME NEW u \in Task
        PROVE  Owns(u)' <=> Owns(u) /\ OSEventPtr[m] # u
    <3>1. u # NoTask /\ (\A n \in Mutex : Owner(n) = u => Owned(n))
      BY InitPrioFacts DEF Owned
    <3>2. \A n, o \in Mutex : Owner(n) = u /\ Owner(o) = u => n = o
      BY <3>1 DEF IInv, MutexInv, OwnerInv
    <3> QED
      BY <1>2, <3>1, <3>2 DEF Owns, Owner
  <2> QED
    BY <2>1, <2>2
<1>8. OwnerInv'
  <2>1. ASSUME NEW n \in Mutex, Owned(n), n # m
        PROVE  OwnerOK(n)'
    BY <1>2, <1>4, <1>7, <2>1 DEF IInv, MutexInv, OwnerInv, OwnerOK, InPendCall
  <2> QED
    BY <1>2, <1>7, <2>1 DEF IInv, MutexInv, OwnerInv, Owned
<1>9. WaitersInv'
  BY <1>1, <1>2, <1>4, <1>7 DEF IInv, MutexInv, WaitersInv
<1>10. PendersInv'
  BY <1>1, <1>2, <1>4 DEF IInv, MutexInv, PendersInv, InPendCall, Waits
<1>11. EntriesInv'
  <2>1. \A u \in AllTask : InitOSTCBPrio[u] \in AllPrio
            /\ ~(HasCeiling(m) /\ InitOSTCBPrio[u] = OSMutexPCP[m])
    BY <1>5, CeilingFacts, PrioFacts DEF IInv, TypeInv
  <2>2. \A n \in Mutex : n # m /\ WithCeiling(n) => /\ OSMutexPCP[n] \in AllPrio
                        /\ ~(HasCeiling(m) /\ OSMutexPCP[n] = OSMutexPCP[m])
    BY <1>5, CeilingFacts DEF IInv, TypeInv, MutexInv, EntriesInv
  <2> QED
    BY <1>2, <1>5, <1>7, <2>1, <2>2 DEF IInv, MutexInv, EntriesInv
<1>12. PriorityRestored'
  <2>1. ASSUME NEW u \in Task, OSEventPtr[m] = u
        PROVE  OSTCBPrio[u] = InitPrio[u]
    <3>1. Owned(m) /\ Owner(m) = u
      BY <2>1, InitPrioFacts DEF Owned, Owner
    <3> QED
      BY <1>1, <3>1 DEF IInv, MutexInv, OwnerInv, OwnerOK
  <2> QED
    BY <1>4, <1>7, <2>1 DEF IInv, MutexInv, PriorityRestored
<1>13. InsideInv'
  BY <1>2 DEF IInv, MutexInv, InsideInv
<1> QED
  BY <1>3, <1>6, <1>8, <1>9, <1>10, <1>11, <1>12, <1>13 DEF IInv, TypeInv, MutexInv

\* Unlocked, in a service or back from one, the running task is not below any
\* task that is ready.
LEMMA RunningIsHighest ==
  ASSUME IInv, NEW t \in Task, Running(t), OSLockNesting = 0, pc[t] \in {"task", "wake"}
  PROVE  OSTCBPrio[t] \in OSRdyTbl /\ \A q \in OSRdyTbl : OSTCBPrio[t] <= q
<1>1. OSTCBPrio[t] = Highest(OSRdyTbl)
  BY DEF IInv, KernelInv, SchedInv, Running
<1>2. OSRdyTbl \subseteq Nat /\ OSRdyTbl # {}
  BY PrioFacts DEF IInv, TypeInv, CoreTypeInv, PrioInv, TypeOK
<1> QED
  BY <1>1, <1>2, HighestIsLeast

\* A task whose pend timed out leaves the wait list when it runs.  It does not
\* run before an owner it had raised, so no raised owner loses its last waiter.
LEMMA PendEndKeeps ==
  ASSUME IInv, NEW t \in Task, OSMutexPendEnd(t)
  PROVE  IInv'
<1> DEFINE e == pevent[t]
<1>t. t \in AllTask
  BY DEF AllTask
<1>1. Running(t) /\ pc[t] = "wake" /\ InPendCall(t)
  BY DEF OSMutexPendEnd, InPendCall
<1>2. OSTCBStat[t] = {} /\ OSTCBDly[t] = 0
  BY <1>1, WakesReady DEF IInv, TypeInv
<1>3. e \in Mutex /\ e \in Event
  BY <1>1, MutexAssumption DEF IInv, MutexInv, PendersInv
<1>4. OSLockNesting = 0
  BY <1>1 DEF IInv, TypeInv, CoreTypeInv, TypeOK, KernelInv, LockInv, Running
<1>5. /\ UNCHANGED <<OSRdyTbl, swVars, nestVars, OSTCBPrio, OSTCBDly, PrioTbl, ecbVars>>
      /\ OSTCBStat' = OSTCBStat
      /\ pc' = [pc EXCEPT ![t] = "task"]
      /\ pevent' = [pevent EXCEPT ![t] = NoEvent]
      /\ OSTCBStatPend' = [OSTCBStatPend EXCEPT ![t] = "OK"]
      /\ OSTCBEventPtr' = [OSTCBEventPtr EXCEPT ![t] = NoEvent]
  BY <1>t, <1>2 DEF OSMutexPendEnd, IInv, TypeInv, CoreTypeInv, TypeOK
<1>6. /\ \A d \in Event : OSEventTbl'[d] \subseteq OSEventTbl[d]
      /\ \A d \in Event : (d = e /\ OSTCBStatPend[t] = "TO") \/ OSEventTbl'[d] = OSEventTbl[d]
      /\ OSEventTbl' \in [Event -> SUBSET AllPrio]
  BY <1>3 DEF OSMutexPendEnd, Leaves, OS_EventTaskRemove, IInv, TypeInv, CoreTypeInv, TypeOK
<1>7. /\ Granted(t) => Owner(e) = t
      /\ \A n \in Mutex : inside'[n] \subseteq Task /\ inside'[n] \subseteq {Owner(n)}
      /\ inside' \in [Mutex -> SUBSET Task]
  <2>1. Granted(t) => Owner(e) = t
    BY <1>1, <1>2 DEF Granted, IInv, MutexInv, PendersInv
  <2>2. /\ \A n \in Mutex : inside'[n] \in {inside[n], inside[n] \cup {t}}
        /\ \A n \in Mutex : inside'[n] # inside[n] => n = e /\ Granted(t)
        /\ inside' \in [Mutex -> SUBSET Task]
    BY <1>3 DEF OSMutexPendEnd, IInv, TypeInv, EcbTypeOK
  <2> QED
    BY <2>1, <2>2 DEF IInv, MutexInv, InsideInv
<1>8. TypeInv'
  <2>1. CoreTypeInv'
    <3>1. PrioInv' /\ SwTypeOK'
      BY <1>5 DEF IInv, TypeInv, CoreTypeInv, TypeOK, PrioInv, PrioMapOK, SwTypeOK, swVars
    <3>2. RestTypeOK'
      BY <1>5, <1>6 DEF IInv, TypeInv, CoreTypeInv, TypeOK, RestTypeOK, nestVars, Pc, PendResult
    <3> QED
      BY <3>1, <3>2, TypedByParts
  <2>2. EcbTypeOK'
    BY <1>5, <1>7 DEF IInv, TypeInv, EcbTypeOK, ecbVars
  <2> QED
    BY <2>1, <2>2 DEF TypeInv
<1>9. KernelInv'
  BY <1>t, <1>1, <1>4, <1>5, ServiceKernel DEF IInv, TypeInv, CoreTypeInv, TypeOK
<1>10. ListInv'
  <2>1. PendEnds(t)
    BY DEF OSMutexPendEnd, PendEnds, Leaves
  <2> QED
    BY <2>1, PendEndLists DEF IInv, TypeInv
<1>11. /\ \A u \in Task : u # t => (InPendCall(u)' <=> InPendCall(u)) /\ pevent'[u] = pevent[u]
                                   /\ OSTCBStatPend'[u] = OSTCBStatPend[u]
                                   /\ \A d \in Event : Waits(u, d)' <=> Waits(u, d)
       /\ ~InPendCall(t)'
  BY <1>t, <1>5 DEF IInv, TypeInv, CoreTypeInv, TypeOK, InPendCall, Waits
<1>12. /\ \A n \in Mutex : /\ Owner(n)' = Owner(n) /\ (Owned(n)' <=> Owned(n))
                           /\ (Exists(n)' <=> Exists(n)) /\ (HasCeiling(n)' <=> HasCeiling(n))
                           /\ (WithCeiling(n)' <=> WithCeiling(n)) /\ (Raised(n)' <=> Raised(n))
                           /\ OSOwnerPrio'[n] = OSOwnerPrio[n] /\ OSMutexPCP'[n] = OSMutexPCP[n]
       /\ \A u \in Task : Owns(u)' <=> Owns(u)
  BY <1>5 DEF ecbVars, Owner, Owned, Exists, HasCeiling, WithCeiling, Raised, WasRaised, Owns
<1>13. OwnerInv'
  <2>1. ASSUME NEW n \in Mutex, Owned(n)
        PROVE  OwnerOK(n)'
    <3>1. Owner(n) \in Task /\ OwnerOK(n)
      BY <2>1, OwnerFacts DEF IInv, MutexInv, OwnerInv
    <3> QED
      BY <1>5, <1>11, <1>12, <3>1 DEF OwnerOK
  <2> QED
    BY <1>12, <2>1 DEF IInv, MutexInv, OwnerInv
<1>14. WaitersInv'
  <2>1. ASSUME NEW n \in Mutex, Raised(n)
        PROVE  OSEventTbl'[n] = OSEventTbl[n]
    <3>1. CASE n = e /\ OSTCBStatPend[t] = "TO"
      <4>1. Waits(t, n)
        BY <1>1, <3>1 DEF Waits
      <4>2. OSTCBPrio[t] \in OSEventTbl[n]
        BY <1>3, <3>1, <4>1 DEF IInv, ListInv, WaitInv
      <4>3. Owned(n) /\ HasCeiling(n) /\ OSTCBPrio[Owner(n)] = OSMutexPCP[n]
        BY <2>1 DEF Raised, WasRaised, Owned
      <4>4. OSMutexPCP[n] < OSTCBPrio[t]
        BY <4>2, <4>3 DEF IInv, MutexInv, WaitersInv
      <4>5. OSTCBPrio[t] <= OSMutexPCP[n]
        BY <1>1, <1>4, <4>3, OwnerFacts, RunningIsHighest
      <4>6. OSMutexPCP[n] \in Nat /\ OSTCBPrio[t] \in Nat
        BY <1>t, <4>3, OwnerFacts, CeilingFacts, PrioFacts
        DEF IInv, TypeInv, CoreTypeInv, PrioInv, PrioMapOK
      <4> QED
        BY <4>4, <4>5, <4>6
    <3>2. CASE ~(n = e /\ OSTCBStatPend[t] = "TO")
      BY <1>6, <3>2, MutexAssumption
    <3> QED
      BY <3>1, <3>2
  <2>2. \A n \in Mutex : OSEventTbl'[n] \subseteq OSEventTbl[n]
    BY <1>6, MutexAssumption
  <2> QED
    BY <1>5, <1>12, <2>1, <2>2 DEF IInv, MutexInv, WaitersInv
<1>15. PendersInv'
  <2>1. \A u \in Task : InPendCall(u)' => /\ u # t /\ InPendCall(u) /\ pevent'[u] = pevent[u]
                                          /\ OSTCBStatPend'[u] = OSTCBStatPend[u]
    BY <1>11
  <2>2. ASSUME NEW u \in Task, InPendCall(u)'
        PROVE  /\ pevent[u] \in Mutex /\ pevent[u] \in Event
               /\ Waits(u, pevent[u])' => Waits(u, pevent[u])
    BY <1>11, <2>1, <2>2, MutexAssumption DEF IInv, MutexInv, PendersInv, Waits
  <2> QED
    BY <1>5, <1>12, <2>1, <2>2 DEF IInv, MutexInv, PendersInv
<1>16. EntriesInv' /\ PriorityRestored' /\ InsideInv'
  BY <1>5, <1>7, <1>12 DEF IInv, MutexInv, EntriesInv, PriorityRestored, InsideInv
<1> QED
  BY <1>8, <1>9, <1>10, <1>13, <1>14, <1>15, <1>16 DEF IInv, MutexInv


-----------------------------------------------------------------------------
(* The owner is raised: OSMutexPend of a mutex that is taken.               *)

\* The ceiling of a mutex that is not raised is no task's priority.
LEMMA FreshCeiling ==
  ASSUME IInv, NEW m \in Mutex, WithCeiling(m), ~Raised(m), NEW u \in AllTask
  PROVE  OSTCBPrio[u] # OSMutexPCP[m]
<1>1. CASE u = IdleTask
  BY <1>1, CeilingFacts, PrioFacts DEF IInv, TypeInv, CoreTypeInv, PrioInv, PrioMapOK
<1>2. CASE u \in Task
  <2>1. InitPrio[u] # OSMutexPCP[m]
    BY <1>2, CeilingFacts, InitPrioFacts DEF IInv, TypeInv
  <2>2. \A n \in Mutex : Raised(n) /\ WithCeiling(n) => OSMutexPCP[n] # OSMutexPCP[m]
    BY DEF IInv, MutexInv, EntriesInv
  <2> QED
    BY <1>2, <2>1, <2>2, PrioCases DEF IInv, TypeInv, MutexInv
<1> QED
  BY <1>1, <1>2 DEF AllTask

\* The own priority of a raised owner is no task's priority meanwhile.
LEMMA FreshInit ==
  ASSUME IInv, NEW m \in Mutex, Raised(m), NEW u \in AllTask
  PROVE  OSTCBPrio[u] # InitPrio[Owner(m)]
<1> DEFINE o == Owner(m)
<1>1. Owned(m) /\ o \in Task /\ HasCeiling(m) /\ OSTCBPrio[o] = OSMutexPCP[m] /\ WithCeiling(m)
  BY OwnerFacts DEF Raised, WasRaised, Owned
<1>2. \A n \in Mutex : WithCeiling(n) => OSMutexPCP[n] # InitPrio[o]
  BY <1>1, CeilingFacts, InitPrioFacts DEF IInv, TypeInv
<1>3. CASE u = IdleTask
  BY <1>1, <1>3, InitPrioFacts DEF IInv, TypeInv, CoreTypeInv, PrioInv, PrioMapOK
<1>4. CASE u \in Task
  <2>1. OSTCBPrio[u] = InitPrio[u] => u # o
    BY <1>1, <1>2
  <2> QED
    BY <1>1, <1>2, <1>4, <2>1, PrioCases, InitPrioFacts DEF IInv, TypeInv, MutexInv
<1> QED
  BY <1>3, <1>4 DEF AllTask

\* A task that is ready and waits for nothing takes its place in the ready
\* list to a priority nobody has: the lists say the same of every task.
LEMMA Renumbered ==
  ASSUME CoreTypeInv, ListInv, NEW o \in Task, NEW new \in AllPrio,
         new = OSTCBPrio[o] \/ \A u \in AllTask : OSTCBPrio[u] # new,
         OSTCBPrio[o] \in OSRdyTbl, \A e \in Event : OSTCBPrio[o] \notin OSEventTbl[e],
         OSTCBPrio' = [OSTCBPrio EXCEPT ![o] = new]
  PROVE  LET R == (OSRdyTbl \ {OSTCBPrio[o]}) \cup {new} IN
         /\ PrioMapOK'
         /\ R \subseteq {OSTCBPrio'[u] : u \in AllTask} /\ IdlePrio \in R
         /\ \A u \in AllTask : OSTCBPrio'[u] \in R <=> OSTCBPrio[u] \in OSRdyTbl
         /\ \A e \in Event :
              /\ OSEventTbl[e] \subseteq {OSTCBPrio'[u] : u \in Task}
              /\ \A u \in Task : OSTCBPrio'[u] \in OSEventTbl[e] <=> OSTCBPrio[u] \in OSEventTbl[e]
<1> DEFINE R == (OSRdyTbl \ {OSTCBPrio[o]}) \cup {new}
<1>1. /\ o \in AllTask /\ o # IdleTask /\ \A u \in Task : u \in AllTask
      /\ IdleTask \in AllTask
  BY CoreAssumption DEF AllTask
<1>2. /\ OSTCBPrio \in [AllTask -> AllPrio] /\ OSTCBPrio[IdleTask] = IdlePrio
      /\ \A u, v \in AllTask : OSTCBPrio[u] = OSTCBPrio[v] => u = v
      /\ OSRdyTbl \subseteq {OSTCBPrio[u] : u \in AllTask} /\ IdlePrio \in OSRdyTbl
  BY DEF CoreTypeInv, PrioInv, PrioMapOK
<1>3. /\ OSTCBPrio' \in [AllTask -> AllPrio] /\ OSTCBPrio'[o] = new
      /\ \A u \in AllTask : u # o => OSTCBPrio'[u] = OSTCBPrio[u]
  BY <1>1, <1>2
<1>4. PrioMapOK'
  <2>1. \A u \in AllTask : u # o => OSTCBPrio[u] # new
    BY <1>1, <1>2
  <2> QED
    BY <1>1, <1>2, <1>3, <2>1 DEF PrioMapOK
<1>5. R \subseteq {OSTCBPrio'[u] : u \in AllTask}
  <2> SUFFICES ASSUME NEW q \in R
               PROVE  \E u \in AllTask : q = OSTCBPrio'[u]
    OBVIOUS
  <2>1. CASE q = new
    BY <1>1, <1>3, <2>1
  <2>2. CASE q \in OSRdyTbl /\ q # OSTCBPrio[o]
    <3>1. PICK u \in AllTask : q = OSTCBPrio[u]
      BY <1>2, <2>2
    <3> QED
      BY <1>3, <2>2, <3>1
  <2> QED
    BY <2>1, <2>2
<1>6. IdlePrio \in R
  BY <1>1, <1>2
<1>7. ASSUME NEW u \in AllTask
      PROVE  OSTCBPrio'[u] \in R <=> OSTCBPrio[u] \in OSRdyTbl
  <2>1. CASE u = o
    BY <1>3, <2>1
  <2>2. CASE u # o
    BY <1>1, <1>2, <1>3, <2>2
  <2> QED
    BY <2>1, <2>2
<1>8. ASSUME NEW e \in Event
      PROVE  /\ OSEventTbl[e] \subseteq {OSTCBPrio'[u] : u \in Task}
             /\ \A u \in Task : OSTCBPrio'[u] \in OSEventTbl[e] <=> OSTCBPrio[u] \in OSEventTbl[e]
  <2>1. OSEventTbl[e] \subseteq {OSTCBPrio[u] : u \in Task}
    BY DEF ListInv, WaitInv
  <2>2. OSEventTbl[e] \subseteq {OSTCBPrio'[u] : u \in Task}
    <3> SUFFICES ASSUME NEW q \in OSEventTbl[e]
                 PROVE  \E u \in Task : q = OSTCBPrio'[u]
      OBVIOUS
    <3>1. PICK u \in Task : q = OSTCBPrio[u]
      BY <2>1
    <3> QED
      BY <1>1, <1>3, <3>1
  <2>3. new \notin OSEventTbl[e]
    BY <1>1, <2>1
  <2>4. \A u \in Task : OSTCBPrio'[u] \in OSEventTbl[e] <=> OSTCBPrio[u] \in OSEventTbl[e]
    BY <1>1, <1>3, <2>3
  <2> QED
    BY <2>2, <2>4
<1> QED
  BY <1>4, <1>5, <1>6, <1>7, <1>8

\* What OSMutexPend changes, where the application is careful.
LEMMA PendFacts ==
  ASSUME Careful, IInv, NEW t \in Task, NEW m \in Mutex, NEW n \in 0..MaxTicks,
         OSMutexPend(t, m, n)
  PROVE  LET o     == Owner(m)
             raise == RaisesOwner(t, m)
             prio  == IF raise THEN OSMutexPCP[m] ELSE OSTCBPrio[o]
         IN
         /\ Running(t) /\ pc[t] = "task" /\ OSLockNesting = 0
         /\ Owned(m) /\ o \in Task /\ o # t /\ ~Owns(t) /\ OSTCBPrio[t] = InitPrio[t]
         /\ OSTCBStat[t] = {}
         /\ HasCeiling(m) => OSMutexPCP[m] < OSTCBPrio[t]
         /\ raise => WithCeiling(m) /\ ~Raised(m)
         /\ prio \in AllPrio
         /\ prio = OSTCBPrio[o] \/ \A u \in AllTask : OSTCBPrio[u] # prio
         /\ OSTCBPrio' = [OSTCBPrio EXCEPT ![o] = prio]
         /\ OSRdyTbl' = ((OSRdyTbl \ {OSTCBPrio[o]}) \cup {prio}) \ {OSTCBPrio[t]}
         /\ OSEventTbl' = [OSEventTbl EXCEPT ![m] = @ \cup {OSTCBPrio[t]}]
<1> DEFINE o == Owner(m)
           raise == RaisesOwner(t, m)
           prio == IF raise THEN OSMutexPCP[m] ELSE OSTCBPrio[o]
<1>1. /\ Running(t) /\ pc[t] = "task" /\ OSLockNesting = 0 /\ OSOwnerPrio[m] # Available
      /\ ~Owns(t) /\ OSTCBPrio[t] \in OSRdyTbl /\ Exists(m)
      /\ HasCeiling(m) => OSTCBPrio[t] > OSMutexPCP[m]
  BY DEF OSMutexPend, InTask, MayUse
<1>2. Owned(m)
  BY <1>1 DEF IInv, MutexInv, OwnerInv
<1>3. o \in Task /\ o \in AllTask /\ o # t /\ OSTCBPrio[o] \in OSRdyTbl
  BY <1>1, <1>2, OwnerFacts
<1>4. OSTCBPrio[t] = InitPrio[t]
  BY <1>1 DEF IInv, MutexInv, PriorityRestored
<1>5. OSTCBStat[t] = {}
  BY <1>1 DEF IInv, ListInv, ReadyInv, AllTask
<1>6. HasCeiling(m) => WithCeiling(m) /\ OSMutexPCP[m] \in Nat /\ OSMutexPCP[m] \in AllPrio
  BY <1>1, CeilingFacts DEF WithCeiling, IInv, TypeInv
<1>7. HasCeiling(m) => OSMutexPCP[m] < OSTCBPrio[t]
  BY <1>1, <1>4, <1>6, InitPrioFacts
<1>8. raise => WithCeiling(m) /\ ~Raised(m)
  BY <1>6 DEF RaisesOwner, Raised, WasRaised, Owner
<1>9. prio \in AllPrio /\ (prio = OSTCBPrio[o] \/ \A u \in AllTask : OSTCBPrio[u] # prio)
  <2>1. CASE raise
    <3>1. OSMutexPCP[m] \in AllPrio /\ \A u \in AllTask : OSTCBPrio[u] # OSMutexPCP[m]
      BY <1>6, <1>8, <2>1, FreshCeiling DEF WithCeiling
    <3> QED
      BY <2>1, <3>1
  <2>2. CASE ~raise
    BY <1>3, <2>2 DEF IInv, TypeInv, CoreTypeInv, PrioInv, PrioMapOK
  <2> QED
    BY <2>1, <2>2
<1>10. OSTCBPrio' = [OSTCBPrio EXCEPT ![o] = prio]
  BY DEF OSMutexPend, Owner
<1>11. OSRdyTbl' = ((OSRdyTbl \ {OSTCBPrio[o]}) \cup {prio}) \ {OSTCBPrio[t]}
  BY <1>3 DEF OSMutexPend, RaisedRdyTbl, Owner
<1>12. OSEventTbl' = [OSEventTbl EXCEPT ![m] = @ \cup {OSTCBPrio[t]}]
  <2>1. OSEventTbl = [e \in Event |-> OSEventTbl[e]]
    BY DEF IInv, TypeInv, CoreTypeInv, TypeOK
  <2> DEFINE moved == [e \in Event |->
               IF raise /\ OSTCBPrio[o] \notin OSRdyTbl /\ e = OSTCBEventPtr[o]
               THEN (OSEventTbl[e] \ {OSTCBPrio[o]}) \cup {prio} ELSE OSEventTbl[e]]
  <2>2. moved = OSEventTbl
    BY <1>3, <2>1
  <2>3. OSEventTbl' = [moved EXCEPT ![m] = @ \cup {OSTCBPrio[t]}]
    BY DEF OSMutexPend, Owner
  <2> QED
    BY <2>2, <2>3
<1> QED
  BY <1>1, <1>2, <1>3, <1>4, <1>5, <1>7, <1>8, <1>9, <1>10, <1>11, <1>12


LEMMA PendKeepsCore ==
  ASSUME Careful, IInv, NEW t \in Task, NEW m \in Mutex, NEW n \in 0..MaxTicks,
         OSMutexPend(t, m, n)
  PROVE  CoreTypeInv' /\ KernelInv' /\ ListInv'
<1> DEFINE o == Owner(m)
           prio == IF RaisesOwner(t, m) THEN OSMutexPCP[m] ELSE OSTCBPrio[o]
           R == (OSRdyTbl \ {OSTCBPrio[o]}) \cup {prio}
<1>t. t \in AllTask /\ m \in Event /\ \A u \in Task : u \in AllTask /\ u # IdleTask
  BY MutexAssumption, CoreAssumption DEF AllTask
<1>1. /\ Running(t) /\ pc[t] = "task" /\ OSLockNesting = 0
      /\ Owned(m) /\ o \in Task /\ o # t /\ OSTCBStat[t] = {}
      /\ prio \in AllPrio
      /\ prio = OSTCBPrio[o] \/ \A u \in AllTask : OSTCBPrio[u] # prio
      /\ OSTCBPrio' = [OSTCBPrio EXCEPT ![o] = prio]
      /\ OSRdyTbl' = R \ {OSTCBPrio[t]}
      /\ OSEventTbl' = [OSEventTbl EXCEPT ![m] = @ \cup {OSTCBPrio[t]}]
  BY PendFacts
<1>2. OSTCBPrio[o] \in OSRdyTbl /\ \A e \in Event : OSTCBPrio[o] \notin OSEventTbl[e]
  BY <1>1, OwnerFacts
<1> HIDE DEF prio
<1>3. /\ PrioMapOK'
      /\ R \subseteq {OSTCBPrio'[u] : u \in AllTask} /\ IdlePrio \in R
      /\ \A u \in AllTask : OSTCBPrio'[u] \in R <=> OSTCBPrio[u] \in OSRdyTbl
      /\ \A e \in Event :
           /\ OSEventTbl[e] \subseteq {OSTCBPrio'[u] : u \in Task}
           /\ \A u \in Task : OSTCBPrio'[u] \in OSEventTbl[e] <=> OSTCBPrio[u] \in OSEventTbl[e]
  BY <1>1, <1>2, Renumbered DEF IInv, TypeInv
<1> HIDE DEF R
<1>4. OSTCBPrio'[t] = OSTCBPrio[t]
  BY <1>t, <1>1 DEF IInv, TypeInv, CoreTypeInv, TypeOK
<1>5. \A u \in AllTask : OSTCBPrio'[u] = OSTCBPrio[t] <=> u = t
  BY <1>t, <1>3, <1>4 DEF PrioMapOK
<1>6. /\ OSTCBStat' = [OSTCBStat EXCEPT ![t] = @ \cup {"PEND"}]
      /\ OSTCBStatPend' = [OSTCBStatPend EXCEPT ![t] = "OK"]
      /\ OSTCBDly' = [OSTCBDly EXCEPT ![t] = n]
      /\ OSTCBEventPtr' = [OSTCBEventPtr EXCEPT ![t] = m]
      /\ pc' = [pc EXCEPT ![t] = "pendsched"]
      /\ pevent' = [pevent EXCEPT ![t] = m]
      /\ UNCHANGED <<swVars, nestVars>>
  BY DEF OSMutexPend
<1>7. /\ OSTCBStat'[t] = {"PEND"} /\ pc'[t] = "pendsched" /\ pevent'[t] = m
      /\ \A u \in AllTask : u # t =>
           /\ OSTCBStat'[u] = OSTCBStat[u] /\ OSTCBStatPend'[u] = OSTCBStatPend[u]
           /\ OSTCBDly'[u] = OSTCBDly[u] /\ pc'[u] = pc[u] /\ pevent'[u] = pevent[u]
  BY <1>t, <1>1, <1>6 DEF IInv, TypeInv, CoreTypeInv, TypeOK
<1>8. CoreTypeInv'
  <2>1. PrioInv'
    <3>1. IdlePrio # OSTCBPrio[t]
      BY TaskPrios DEF IInv, TypeInv, CoreTypeInv, PrioInv
    <3> QED
      BY <1>1, <1>3, <3>1 DEF PrioInv
  <2>2. SwTypeOK'
    BY <1>6 DEF IInv, TypeInv, CoreTypeInv, TypeOK, SwTypeOK, swVars
  <2>3. RestTypeOK'
    BY <1>t, <1>1, <1>6
    DEF IInv, TypeInv, CoreTypeInv, TypeOK, RestTypeOK, nestVars, Flag, PendResult, Pc
  <2> QED
    BY <2>1, <2>2, <2>3, TypedByParts
<1>9. KernelInv'
  BY <1>1, <1>4, <1>6, <1>7
  DEF IInv, KernelInv, CurInv, Stale, NestInv, LockInv, SchedInv, Running, swVars, nestVars
<1>10. /\ InPendCall(t)' /\ ~InPendCall(t)
       /\ \A u \in Task : u # t => (InPendCall(u)' <=> InPendCall(u))
  BY <1>t, <1>1, <1>7 DEF InPendCall
<1>11. ReadyInv'
  <2> SUFFICES ASSUME NEW u \in AllTask
               PROVE  OSTCBPrio'[u] \in OSRdyTbl' <=> OSTCBStat'[u] = {} /\ OSTCBDly'[u] = 0
    BY DEF ReadyInv
  <2>1. OSTCBPrio'[u] \in OSRdyTbl' <=> OSTCBPrio[u] \in OSRdyTbl /\ u # t
    BY <1>1, <1>3, <1>5
  <2> QED
    BY <1>7, <2>1 DEF IInv, ListInv, ReadyInv
<1>12. WaitInv'
  <2> SUFFICES ASSUME NEW e \in Event
               PROVE  /\ OSEventTbl'[e] \subseteq {OSTCBPrio'[u] : u \in Task}
                      /\ \A u \in Task : OSTCBPrio'[u] \in OSEventTbl'[e] <=> Waits(u, e)'
    BY DEF WaitInv
  <2>1. OSEventTbl'[e] = IF e = m THEN OSEventTbl[e] \cup {OSTCBPrio[t]} ELSE OSEventTbl[e]
    BY <1>1 DEF IInv, TypeInv, CoreTypeInv, TypeOK
  <2>2. OSEventTbl'[e] \subseteq {OSTCBPrio'[u] : u \in Task}
    BY <1>3, <1>4, <2>1
  <2>3. ASSUME NEW u \in Task
        PROVE  OSTCBPrio'[u] \in OSEventTbl'[e] <=> Waits(u, e)'
    <3>1. OSTCBPrio[u] \in OSEventTbl[e] <=> Waits(u, e)
      BY DEF IInv, ListInv, WaitInv
    <3>2. OSTCBPrio'[u] \in OSEventTbl'[e] <=> Waits(u, e) \/ (u = t /\ e = m)
      BY <1>t, <1>3, <1>5, <2>1, <3>1
    <3>3. u # t => (Waits(u, e)' <=> Waits(u, e))
      BY <1>t, <1>7, <1>10 DEF Waits
    <3>4. ~Waits(t, e) /\ (Waits(t, e)' <=> e = m)
      BY <1>7, <1>10 DEF Waits
    <3>5. u = t => (Waits(u, e)' <=> Waits(t, e)') /\ (Waits(u, e) <=> Waits(t, e))
      BY DEF Waits, InPendCall
    <3> QED
      BY <3>2, <3>3, <3>4, <3>5
  <2> QED
    BY <2>2, <2>3
<1>13. PendInv'
  <2> SUFFICES ASSUME NEW u \in Task
               PROVE  /\ "PEND" \in OSTCBStat'[u] => InPendCall(u)'
                      /\ InPendCall(u)' => pevent'[u] \in Event
                      /\ InPendCall(u)' /\ "PEND" \notin OSTCBStat'[u] => OSTCBDly'[u] = 0
    BY DEF PendInv
  <2>1. CASE u = t
    BY <1>t, <1>7, <2>1 DEF InPendCall
  <2>2. CASE u # t
    BY <1>t, <1>7, <1>10, <2>2 DEF IInv, ListInv, PendInv
  <2> QED
    BY <2>1, <2>2
<1> QED
  BY <1>8, <1>9, <1>11, <1>12, <1>13 DEF ListInv

LEMMA PendKeeps ==
  ASSUME Careful, IInv, NEW t \in Task, NEW m \in Mutex, NEW n \in 0..MaxTicks,
         OSMutexPend(t, m, n)
  PROVE  IInv'
<1> DEFINE o == Owner(m)
           raise == RaisesOwner(t, m)
           prio == IF raise THEN OSMutexPCP[m] ELSE OSTCBPrio[o]
<1>t. t \in AllTask /\ m \in Event /\ \A u \in Task : u \in AllTask
  BY MutexAssumption DEF AllTask
<1>1. /\ Running(t) /\ pc[t] = "task" /\ ~Owns(t) /\ OSTCBPrio[t] = InitPrio[t]
      /\ Owned(m) /\ o \in Task /\ o # t /\ OSTCBStat[t] = {}
      /\ HasCeiling(m) => OSMutexPCP[m] < OSTCBPrio[t]
      /\ raise => WithCeiling(m) /\ ~Raised(m)
      /\ OSTCBPrio' = [OSTCBPrio EXCEPT ![o] = prio]
      /\ OSEventTbl' = [OSEventTbl EXCEPT ![m] = @ \cup {OSTCBPrio[t]}]
  BY PendFacts
<1>2. /\ PrioTbl' = IF raise THEN [PrioTbl EXCEPT ![OSMutexPCP[m]] = o] ELSE PrioTbl
      /\ OSTCBStat' = [OSTCBStat EXCEPT ![t] = @ \cup {"PEND"}]
      /\ OSTCBStatPend' = [OSTCBStatPend EXCEPT ![t] = "OK"]
      /\ OSTCBDly' = [OSTCBDly EXCEPT ![t] = n]
      /\ pc' = [pc EXCEPT ![t] = "pendsched"]
      /\ pevent' = [pevent EXCEPT ![t] = m]
      /\ OSMutexPCP' = OSMutexPCP /\ OSOwnerPrio' = OSOwnerPrio
      /\ OSEventPtr' = OSEventPtr /\ inside' = inside
  BY DEF OSMutexPend, Owner, ecbVars
<1>3. /\ OSTCBStat'[t] = {"PEND"} /\ pc'[t] = "pendsched" /\ pevent'[t] = m
      /\ \A u \in AllTask : u # t =>
           /\ OSTCBStat'[u] = OSTCBStat[u] /\ OSTCBStatPend'[u] = OSTCBStatPend[u]
           /\ OSTCBDly'[u] = OSTCBDly[u] /\ pc'[u] = pc[u] /\ pevent'[u] = pevent[u]
      /\ \A u \in Task : u # o => OSTCBPrio'[u] = OSTCBPrio[u]
      /\ OSTCBPrio'[o] = prio
  BY <1>t, <1>1, <1>2 DEF IInv, TypeInv, CoreTypeInv, TypeOK
<1>4. \A k \in Mutex : OSEventTbl'[k] = IF k = m THEN OSEventTbl[k] \cup {OSTCBPrio[t]}
                                                 ELSE OSEventTbl[k]
  BY <1>t, <1>1, MutexAssumption DEF IInv, TypeInv, CoreTypeInv, TypeOK
<1>5. CoreTypeInv' /\ KernelInv' /\ ListInv'
  BY PendKeepsCore
<1>6. EcbTypeOK'
  <2>1. PrioTbl' \in [AllPrio -> AllTask \cup {NoTask, Reserved}]
    BY <1>t, <1>1, <1>2 DEF IInv, TypeInv, EcbTypeOK
  <2> QED
    BY <1>2, <2>1 DEF IInv, TypeInv, EcbTypeOK
<1>7. /\ \A k \in Mutex : /\ Owner(k)' = Owner(k) /\ (Owned(k)' <=> Owned(k))
                          /\ (Exists(k)' <=> Exists(k)) /\ (HasCeiling(k)' <=> HasCeiling(k))
                          /\ (WithCeiling(k)' <=> WithCeiling(k))
      /\ \A u \in Task : Owns(u)' <=> Owns(u)
  BY <1>2 DEF Owner, Owned, Exists, HasCeiling, WithCeiling, Owns
<1>8. \A k \in Mutex : Owned(k) /\ k # m => /\ Owner(k) \in Task /\ Owner(k) # o
                                            /\ OSTCBPrio'[Owner(k)] = OSTCBPrio[Owner(k)]
  BY <1>1, <1>3, OwnerFacts DEF IInv, MutexInv, OwnerInv
<1>9. /\ \A k \in Mutex : k # m => (Raised(k)' <=> Raised(k))
      /\ Raised(m)' <=> Raised(m) \/ raise
      /\ raise => prio = OSMutexPCP[m]
      /\ ~raise => prio = OSTCBPrio[o]
  <2>1. \A k \in Mutex : k # m => (Raised(k)' <=> Raised(k))
    BY <1>2, <1>7, <1>8 DEF Raised, WasRaised, Owned, Owner, HasCeiling
  <2>2. Raised(m)' <=> Raised(m) \/ raise
    BY <1>1, <1>2, <1>3, <1>7 DEF Raised, WasRaised, Owned, HasCeiling, RaisesOwner, WithCeiling, Owner
  <2> QED
    BY <2>1, <2>2
<1>10. OwnerInv'
  <2>1. ASSUME NEW k \in Mutex, Owned(k)
        PROVE  OwnerOK(k)'
    <3>1. /\ OwnerOK(k) /\ Owner(k) \in Task /\ Owner(k) \in AllTask /\ Owner(k) # t
      BY <1>1, <2>1, OwnerFacts DEF IInv, MutexInv, OwnerInv
    <3>2. OSTCBPrio'[Owner(k)] = OSOwnerPrio[k] \/ Raised(k)'
      BY <1>3, <1>8, <1>9, <2>1, <3>1 DEF OwnerOK
    <3>3. /\ OSTCBStat'[Owner(k)] = {} /\ OSTCBDly'[Owner(k)] = 0
          /\ InPendCall(Owner(k))' => pevent'[Owner(k)] = k /\ OSTCBStatPend'[Owner(k)] = "OK"
      BY <1>3, <1>7, <3>1 DEF OwnerOK, InPendCall
    <3> QED
      BY <1>2, <1>7, <3>1, <3>2, <3>3 DEF OwnerOK, InPendCall
  <2> QED
    BY <1>2, <1>7, <2>1 DEF IInv, MutexInv, OwnerInv
<1>11. WaitersInv'
  <2> SUFFICES ASSUME NEW k \in Mutex
               PROVE  /\ OSEventTbl'[k] # {} => Owned(k)'
                      /\ Raised(k)' => OSEventTbl'[k] # {}
                      /\ HasCeiling(k)' => \A p \in OSEventTbl'[k] :
                           OSMutexPCP'[k] < p /\ OSTCBPrio'[Owner(k)'] <= p
    BY DEF WaitersInv
  <2>0. /\ OSEventTbl[k] # {} => Owned(k)
        /\ Raised(k) => OSEventTbl[k] # {}
        /\ HasCeiling(k) => \A p \in OSEventTbl[k] :
             OSMutexPCP[k] < p /\ OSTCBPrio[Owner(k)] <= p
    BY DEF IInv, MutexInv, WaitersInv
  <2>1. CASE k # m
    BY <1>2, <1>4, <1>7, <1>8, <1>9, <2>0, <2>1
  <2>2. CASE k = m
    <3>1. OSEventTbl'[m] = OSEventTbl[m] \cup {OSTCBPrio[t]}
      BY <1>4
    <3>2. ASSUME HasCeiling(m), NEW p \in OSEventTbl'[m]
          PROVE  OSMutexPCP[m] < p /\ prio <= p
      <4>1. OSMutexPCP[m] < p
        BY <1>1, <2>0, <2>2, <3>1, <3>2
      <4>2. /\ OSMutexPCP[m] \in Nat /\ OSTCBPrio[o] \in Nat /\ InitPrio[o] \in Nat
            /\ OSTCBPrio[t] \in Nat
        BY <1>1, <1>t, <3>2, OwnerFacts, CeilingFacts, InitPrioFacts, PrioFacts
        DEF IInv, TypeInv, CoreTypeInv, PrioInv, PrioMapOK
      <4>3. p \in Nat
        BY <3>1, <3>2, <4>2, WaiterTyped, <1>t DEF IInv, TypeInv
      <4>4. CASE raise
        BY <1>9, <4>1, <4>2, <4>3, <4>4
      <4>5. CASE ~raise
        <5>1. CASE p \in OSEventTbl[m]
          BY <1>9, <2>0, <2>2, <3>2, <4>5, <5>1
        <5>2. CASE p = OSTCBPrio[t]
          <6>1. OSTCBPrio[o] <= OSMutexPCP[m] \/ OSOwnerPrio[m] <= OSTCBPrio[t]
            BY <1>1, <3>2, <4>2, <4>5, OwnerFacts DEF RaisesOwner, Owner
          <6>2. OSTCBPrio[o] = OSOwnerPrio[m] \/ OSTCBPrio[o] = OSMutexPCP[m]
            BY <1>1 DEF IInv, MutexInv, OwnerInv, OwnerOK, Raised, WasRaised
          <6>3. OSOwnerPrio[m] \in Nat
            BY <1>1, <4>2, OwnerFacts
          <6> QED
            BY <1>9, <4>1, <4>2, <4>5, <5>2, <6>1, <6>2, <6>3
        <5> QED
          BY <3>1, <3>2, <5>1, <5>2
      <4> QED
        BY <4>1, <4>4, <4>5
    <3> QED
      BY <1>1, <1>2, <1>3, <1>7, <2>2, <3>1, <3>2
  <2> QED
    BY <2>1, <2>2
<1>12. PendersInv'
  <2> SUFFICES ASSUME NEW u \in Task, InPendCall(u)'
               PROVE  /\ pevent'[u] \in Mutex
                      /\ Waits(u, pevent[u])' => "SUSPEND" \notin OSTCBStat'[u]
                      /\ "PEND" \notin OSTCBStat'[u] /\ OSTCBStatPend'[u] = "OK"
                           => Owner(pevent[u])' = u
    BY DEF PendersInv
  <2>1. CASE u = t
    BY <1>3, <2>1
  <2>2. CASE u # t
    <3>1. /\ InPendCall(u) /\ pevent'[u] = pevent[u] /\ OSTCBStat'[u] = OSTCBStat[u]
          /\ OSTCBStatPend'[u] = OSTCBStatPend[u]
          /\ Waits(u, pevent[u])' => Waits(u, pevent[u])
      BY <1>t, <1>3, <2>2 DEF InPendCall, Waits
    <3> QED
      BY <1>7, <3>1 DEF IInv, MutexInv, PendersInv
  <2> QED
    BY <2>1, <2>2
<1>13. EntriesInv'
  <2>1. CASE ~raise
    BY <1>2, <1>7, <1>9, <2>1 DEF IInv, MutexInv, EntriesInv
  <2>2. CASE raise
    <3>1. OSMutexPCP[m] \in AllPrio /\ WithCeiling(m) /\ \A u \in AllTask : InitOSTCBPrio[u] # OSMutexPCP[m]
      BY <1>1, <2>2, CeilingFacts DEF IInv, TypeInv
    <3>2. /\ PrioTbl'[OSMutexPCP[m]] = o
          /\ \A p \in AllPrio : p # OSMutexPCP[m] => PrioTbl'[p] = PrioTbl[p]
      BY <1>2, <2>2, <3>1 DEF IInv, TypeInv, EcbTypeOK
    <3>3. \A u \in AllTask : PrioTbl'[InitOSTCBPrio[u]] = u
      BY <3>1, <3>2, PrioFacts DEF IInv, MutexInv, EntriesInv
    <3>4. \A k \in Mutex : WithCeiling(k) /\ k # m =>
            /\ OSMutexPCP[k] \in AllPrio /\ OSMutexPCP[k] # OSMutexPCP[m]
            /\ PrioTbl'[OSMutexPCP[k]] = IF Raised(k) THEN Owner(k) ELSE Reserved
      BY <3>1, <3>2, CeilingFacts DEF IInv, TypeInv, MutexInv, EntriesInv
    <3>5. \A k \in Mutex : WithCeiling(k)' =>
            PrioTbl'[OSMutexPCP'[k]] = IF Raised(k)' THEN Owner(k)' ELSE Reserved
      <4> TAKE k \in Mutex
      <4>1. CASE k = m
        BY <1>2, <1>7, <1>9, <2>2, <3>2, <4>1
      <4>2. CASE k # m
        BY <1>2, <1>7, <1>9, <3>4, <4>2
      <4> QED
        BY <4>1, <4>2
    <3> QED
      BY <1>2, <1>7, <3>3, <3>5 DEF IInv, MutexInv, EntriesInv
  <2> QED
    BY <2>1, <2>2
<1>14. PriorityRestored'
  <2>1. Owns(o)
    BY <1>1, OwnerFacts
  <2> QED
    BY <1>3, <1>7, <2>1 DEF IInv, MutexInv, PriorityRestored
<1>15. InsideInv'
  BY <1>2, <1>7 DEF IInv, MutexInv, InsideInv
<1> QED
  BY <1>5, <1>6, <1>10, <1>11, <1>12, <1>13, <1>14, <1>15 DEF IInv, TypeInv, MutexInv


-----------------------------------------------------------------------------
(* The owner is restored and waiters are woken: OSMutexPost, OSMutexDel.    *)

Released(m, ps, result) ==
  /\ Restore(Owner(m), m)
  /\ EventTaskRdy(m, ps, result, RestoredRdyTbl(Owner(m), m))

Woken(ps) == {u \in Task : OSTCBPrio[u] \in ps}

\* Raised or not, the owner is at its own priority afterwards; those who are
\* woken are the tasks at the priorities taken out of the list, all ready.
ReleaseEffect(m, ps, result) ==
  LET o == Owner(m) IN
  /\ o \in Task /\ OSTCBPrio[o] \in OSRdyTbl
  /\ OSTCBPrio' = [OSTCBPrio EXCEPT ![o] = InitPrio[o]]
  /\ OSPrioCur' = IF Raised(m) THEN InitPrio[o] ELSE OSPrioCur
  /\ OSRdyTbl' = ((OSRdyTbl \ {OSTCBPrio[o]}) \cup {InitPrio[o]}) \cup ps
  /\ OSEventTbl' = [OSEventTbl EXCEPT ![m] = @ \ ps]
  /\ \A u \in Woken(ps) :
       /\ Waits(u, m) /\ ~Owns(u) /\ u # o /\ InitPrio[u] = OSTCBPrio[u]
       /\ OSTCBStat'[u] = {} /\ OSTCBStatPend'[u] = result /\ OSTCBDly'[u] = 0
  /\ \A u \in AllTask \ Woken(ps) :
       /\ OSTCBStat'[u] = OSTCBStat[u] /\ OSTCBStatPend'[u] = OSTCBStatPend[u]
       /\ OSTCBDly'[u] = OSTCBDly[u]

LEMMA ReleaseFacts ==
  ASSUME IInv, NEW m \in Mutex, Owned(m), NEW ps \in SUBSET OSEventTbl[m], NEW result,
         Released(m, ps, result)
  PROVE  ReleaseEffect(m, ps, result)
<1> DEFINE o == Owner(m)
<1>1. /\ o \in Task /\ o \in AllTask /\ Owns(o) /\ OSOwnerPrio[m] = InitPrio[o]
      /\ OSTCBPrio[o] \in OSRdyTbl
  BY OwnerFacts
<1>2. OSTCBPrio[o] = InitPrio[o] \/ Raised(m)
  BY <1>1 DEF IInv, MutexInv, OwnerInv, OwnerOK
<1>f. OSTCBPrio = [u \in AllTask |-> OSTCBPrio[u]]
  BY DEF IInv, TypeInv, CoreTypeInv, TypeOK
<1>3. /\ OSTCBPrio' = [OSTCBPrio EXCEPT ![o] = InitPrio[o]]
      /\ OSPrioCur' = IF Raised(m) THEN InitPrio[o] ELSE OSPrioCur
  <2>1. CASE Raised(m)
    BY <1>1, <2>1 DEF Released, Restore, Raised
  <2>2. CASE ~Raised(m)
    BY <1>1, <1>2, <1>f, <2>2 DEF Released, Restore, Raised
  <2> QED
    BY <2>1, <2>2
<1>4. RestoredRdyTbl(o, m) = (OSRdyTbl \ {OSTCBPrio[o]}) \cup {InitPrio[o]}
  <2>1. CASE Raised(m)
    BY <1>1, <2>1 DEF RestoredRdyTbl, OSMutex_RdyAtPrio, Raised
  <2>2. CASE ~Raised(m)
    BY <1>1, <1>2, <2>2 DEF RestoredRdyTbl, Raised
  <2> QED
    BY <2>1, <2>2
<1>5. \A p \in ps : \E w \in Task :
        /\ PrioTbl[p] = w /\ OSTCBPrio[w] = p /\ InitPrio[w] = p
        /\ Waits(w, m) /\ ~Owns(w) /\ "SUSPEND" \notin OSTCBStat[w]
  BY WaiterFacts
<1>6. {PrioTbl[p] : p \in ps} = Woken(ps)
  <2>1. \A u \in Woken(ps) : u \in {PrioTbl[p] : p \in ps}
    <3> TAKE u \in Woken(ps)
    <3>1. u \in Task /\ u \in AllTask /\ OSTCBPrio[u] \in ps
      BY DEF Woken, AllTask
    <3>2. PrioTbl[OSTCBPrio[u]] = u
      BY <3>1, EntriesFind DEF IInv, TypeInv, CoreTypeInv, PrioInv, PrioMapOK, MutexInv
    <3> QED
      BY <3>1, <3>2
  <2> QED
    BY <1>5, <2>1 DEF Woken
<1>7. EventTaskRdy(m, ps, result, (OSRdyTbl \ {OSTCBPrio[o]}) \cup {InitPrio[o]})
  BY <1>4 DEF Released
<1>8. /\ OSEventTbl' = [OSEventTbl EXCEPT ![m] = @ \ ps]
      /\ OSRdyTbl' = ((OSRdyTbl \ {OSTCBPrio[o]}) \cup {InitPrio[o]})
                       \cup {p \in ps : "SUSPEND" \notin OSTCBStat[PrioTbl[p]] \ {"PEND"}}
      /\ \A u \in AllTask : u \in Woken(ps) =>
           /\ OSTCBStat'[u] = OSTCBStat[u] \ {"PEND"}
           /\ OSTCBStatPend'[u] = result /\ OSTCBDly'[u] = 0
      /\ \A u \in AllTask : u \notin Woken(ps) =>
           /\ OSTCBStat'[u] = OSTCBStat[u] /\ OSTCBStatPend'[u] = OSTCBStatPend[u]
           /\ OSTCBDly'[u] = OSTCBDly[u]
  BY <1>6, <1>7 DEF EventTaskRdy
<1>9. {p \in ps : "SUSPEND" \notin OSTCBStat[PrioTbl[p]] \ {"PEND"}} = ps
  BY <1>5
<1>10. ASSUME NEW u \in Woken(ps)
       PROVE  /\ Waits(u, m) /\ ~Owns(u) /\ u # o /\ InitPrio[u] = OSTCBPrio[u]
              /\ OSTCBStat'[u] = {} /\ OSTCBStatPend'[u] = result /\ OSTCBDly'[u] = 0
  <2>1. PICK p \in ps : u = PrioTbl[p]
    BY <1>6
  <2>2. /\ Waits(u, m) /\ ~Owns(u) /\ InitPrio[u] = OSTCBPrio[u]
        /\ "SUSPEND" \notin OSTCBStat[u] /\ u \in AllTask
    BY <1>5, <2>1 DEF AllTask
  <2>3. OSTCBStat[u] \subseteq {"PEND", "SUSPEND"}
    BY <2>2 DEF IInv, TypeInv, CoreTypeInv, TypeOK, Flag
  <2> QED
    BY <1>1, <1>8, <2>2, <2>3
<1> QED
  BY <1>1, <1>3, <1>8, <1>9, <1>10 DEF ReleaseEffect

LEMMA ReleaseLists ==
  ASSUME IInv, NEW m \in Mutex, Owned(m), NEW ps \in SUBSET OSEventTbl[m],
         NEW result \in {"OK", "ABORT"}, Released(m, ps, result), pevent' = pevent,
         \A u \in Task : InPendCall(u)' <=> InPendCall(u)
  PROVE  PrioInv' /\ ListInv'
<1> DEFINE o == Owner(m)
           R == (OSRdyTbl \ {OSTCBPrio[o]}) \cup {InitPrio[o]}
<1>t. m \in Event /\ \A u \in Task : u \in AllTask
  BY MutexAssumption DEF AllTask
<1>1. /\ o \in Task /\ OSTCBPrio[o] \in OSRdyTbl
      /\ OSTCBPrio' = [OSTCBPrio EXCEPT ![o] = InitPrio[o]]
      /\ OSRdyTbl' = R \cup ps
      /\ OSEventTbl' = [OSEventTbl EXCEPT ![m] = @ \ ps]
      /\ \A u \in Woken(ps) :
           /\ Waits(u, m) /\ u # o
           /\ OSTCBStat'[u] = {} /\ OSTCBStatPend'[u] = result /\ OSTCBDly'[u] = 0
      /\ \A u \in AllTask \ Woken(ps) :
           /\ OSTCBStat'[u] = OSTCBStat[u] /\ OSTCBStatPend'[u] = OSTCBStatPend[u]
           /\ OSTCBDly'[u] = OSTCBDly[u]
  <2>1. ReleaseEffect(m, ps, result)
    BY ReleaseFacts
  <2> QED
    BY <2>1 DEF ReleaseEffect
<1>2. \A e \in Event : OSTCBPrio[o] \notin OSEventTbl[e]
  BY <1>1, OwnerFacts
<1>3. InitPrio[o] \in AllPrio /\ (InitPrio[o] = OSTCBPrio[o] \/ \A u \in AllTask : OSTCBPrio[u] # InitPrio[o])
  <2>1. CASE Raised(m)
    BY <1>1, <2>1, FreshInit, InitPrioFacts
  <2>2. CASE ~Raised(m)
    BY <1>1, <2>2, InitPrioFacts DEF IInv, MutexInv, OwnerInv, OwnerOK
  <2> QED
    BY <2>1, <2>2
<1>4. /\ PrioMapOK'
      /\ R \subseteq {OSTCBPrio'[u] : u \in AllTask} /\ IdlePrio \in R
      /\ \A u \in AllTask : OSTCBPrio'[u] \in R <=> OSTCBPrio[u] \in OSRdyTbl
      /\ \A e \in Event :
           /\ OSEventTbl[e] \subseteq {OSTCBPrio'[u] : u \in Task}
           /\ \A u \in Task : OSTCBPrio'[u] \in OSEventTbl[e] <=> OSTCBPrio[u] \in OSEventTbl[e]
  BY <1>1, <1>2, <1>3, Renumbered DEF IInv, TypeInv
<1> HIDE DEF R
<1>5. PrioInv'
  <2>1. ps \subseteq {OSTCBPrio'[u] : u \in AllTask}
    BY <1>t, <1>4
  <2> QED
    BY <1>1, <1>4, <2>1 DEF PrioInv
<1>6. \A u \in Task : OSTCBPrio'[u] \in ps <=> u \in Woken(ps)
  <2> TAKE u \in Task
  <2>1. CASE u = o
    BY <1>1, <1>2, <1>4, <1>t, <2>1 DEF Woken
  <2>2. CASE u # o
    BY <1>1, <1>t, <2>2 DEF Woken, IInv, TypeInv, CoreTypeInv, TypeOK
  <2> QED
    BY <2>1, <2>2
<1>7. OSTCBPrio'[IdleTask] \notin ps /\ IdleTask \notin Woken(ps)
  <2>1. \A u \in Task : OSTCBPrio[u] # IdlePrio
    BY TaskPrios DEF IInv, TypeInv, CoreTypeInv, PrioInv
  <2>2. IdlePrio \notin OSEventTbl[m]
    BY <1>t, <2>1 DEF IInv, ListInv, WaitInv
  <2> QED
    BY <1>4, <2>2, CoreAssumption DEF PrioMapOK, Woken
<1>8. ReadyInv'
  <2> SUFFICES ASSUME NEW u \in AllTask
               PROVE  OSTCBPrio'[u] \in OSRdyTbl' <=> OSTCBStat'[u] = {} /\ OSTCBDly'[u] = 0
    BY DEF ReadyInv
  <2>1. OSTCBPrio'[u] \in OSRdyTbl' <=> OSTCBPrio[u] \in OSRdyTbl \/ u \in Woken(ps)
    BY <1>1, <1>4, <1>6, <1>7 DEF AllTask
  <2>2. OSTCBPrio[u] \in OSRdyTbl <=> OSTCBStat[u] = {} /\ OSTCBDly[u] = 0
    BY DEF IInv, ListInv, ReadyInv
  <2> QED
    BY <1>1, <2>1, <2>2
<1>9. WaitInv'
  <2> SUFFICES ASSUME NEW e \in Event
               PROVE  /\ OSEventTbl'[e] \subseteq {OSTCBPrio'[u] : u \in Task}
                      /\ \A u \in Task : OSTCBPrio'[u] \in OSEventTbl'[e] <=> Waits(u, e)'
    BY DEF WaitInv
  <2>1. OSEventTbl'[e] = IF e = m THEN OSEventTbl[e] \ ps ELSE OSEventTbl[e]
    BY <1>1 DEF IInv, TypeInv, CoreTypeInv, TypeOK
  <2>2. ASSUME NEW u \in Task
        PROVE  OSTCBPrio'[u] \in OSEventTbl'[e] <=> Waits(u, e)'
    <3>1. OSTCBPrio'[u] \in OSEventTbl[e] <=> Waits(u, e)
      BY <1>4 DEF IInv, ListInv, WaitInv
    <3>2. CASE u \in Woken(ps)
      <4>1. OSTCBStat'[u] = {} /\ OSTCBStatPend'[u] = result /\ Waits(u, m)
        BY <1>1, <3>2
      <4>2. ~Waits(u, e)'
        BY <4>1 DEF Waits
      <4>3. e # m => ~Waits(u, e)
        BY <4>1 DEF Waits
      <4> QED
        BY <1>6, <2>1, <3>1, <3>2, <4>2, <4>3
    <3>3. CASE u \notin Woken(ps)
      <4>1. Waits(u, e)' <=> Waits(u, e)
        BY <1>1, <1>t, <3>3 DEF Waits
      <4> QED
        BY <1>6, <2>1, <3>1, <3>3, <4>1
    <3> QED
      BY <3>2, <3>3
  <2> QED
    BY <1>4, <2>1, <2>2
<1>10. PendInv'
  <2> SUFFICES ASSUME NEW u \in Task
               PROVE  /\ "PEND" \in OSTCBStat'[u] => InPendCall(u)'
                      /\ InPendCall(u)' => pevent'[u] \in Event
                      /\ InPendCall(u)' /\ "PEND" \notin OSTCBStat'[u] => OSTCBDly'[u] = 0
    BY DEF PendInv
  <2>1. CASE u \in Woken(ps)
    BY <1>1, <1>t, <2>1 DEF IInv, ListInv, PendInv
  <2>2. CASE u \notin Woken(ps)
    BY <1>1, <1>t, <2>2 DEF IInv, ListInv, PendInv
  <2> QED
    BY <2>1, <2>2
<1> QED
  BY <1>5, <1>8, <1>9, <1>10 DEF ListInv


\* What OSMutexPost and OSMutexDel have in common, for the kernel's variables:
\* a caller that has woken somebody has OS_Sched still to call.
ReleaseStep(t, m, ps, result) ==
  /\ Running(t) /\ pc[t] = "task"
  /\ Released(m, ps, result)
  /\ pc' = IF OSEventTbl[m] # {} THEN [pc EXCEPT ![t] = "sched"] ELSE pc
  /\ UNCHANGED <<OSTCBCur, OSPrioHighRdy, OSTCBHighRdy, pendSV, nestVars, pevent>>

LEMMA ReleasePendCalls ==
  ASSUME CoreTypeInv, NEW t \in Task, NEW m, NEW ps, NEW result, ReleaseStep(t, m, ps, result)
  PROVE  /\ \A u \in Task : InPendCall(u)' <=> InPendCall(u)
         /\ pc' \in [AllTask -> Pc] /\ ~InPendCall(t) /\ pc'[t] \in {"task", "sched"}
BY DEF ReleaseStep, CoreTypeInv, TypeOK, InPendCall, AllTask, Pc

LEMMA ReleaseTyped ==
  ASSUME IInv, NEW t \in Task, NEW m \in Mutex, Owned(m), NEW ps \in SUBSET OSEventTbl[m],
         NEW result \in {"OK", "ABORT"}, ReleaseStep(t, m, ps, result)
  PROVE  CoreTypeInv' /\ ListInv'
<1>1. /\ \A u \in Task : InPendCall(u)' <=> InPendCall(u)
      /\ pc' \in [AllTask -> Pc]
  BY ReleasePendCalls DEF IInv, TypeInv
<1>2. PrioInv' /\ ListInv'
  BY <1>1, ReleaseLists DEF ReleaseStep
<1>3. ReleaseEffect(m, ps, result)
  BY ReleaseFacts DEF ReleaseStep
<1>4. SwTypeOK'
  BY <1>3, InitPrioFacts
  DEF ReleaseEffect, ReleaseStep, IInv, TypeInv, CoreTypeInv, TypeOK, SwTypeOK
<1>5. RestTypeOK'
  <2>1. EventTaskRdy(m, ps, result, RestoredRdyTbl(Owner(m), m)) /\ result \in PendResult
    BY DEF ReleaseStep, Released, PendResult
  <2>2. 0 \in 0..MaxTicks
    BY CoreAssumption
  <2>3. /\ OSTCBStat' \in [AllTask -> SUBSET Flag]
        /\ OSTCBStatPend' \in [AllTask -> PendResult]
        /\ OSTCBDly' \in [AllTask -> 0..MaxTicks]
        /\ OSTCBEventPtr' \in [AllTask -> Event \cup {NoEvent}]
        /\ OSEventTbl' \in [Event -> SUBSET AllPrio]
    BY <2>1, <2>2 DEF EventTaskRdy, IInv, TypeInv, CoreTypeInv, TypeOK
  <2> QED
    BY <1>1, <2>3 DEF ReleaseStep, nestVars, IInv, TypeInv, CoreTypeInv, TypeOK, RestTypeOK
<1> QED
  BY <1>2, <1>4, <1>5, TypedByParts

\* OSPrioCur takes the number of the restored owner.  That is the running task
\* or one the running task is above: then OSPrioCur is stale until OS_Sched.
LEMMA ReleaseKernel ==
  ASSUME IInv, NEW t \in Task, NEW m \in Mutex, Owned(m), NEW ps \in SUBSET OSEventTbl[m],
         NEW result \in {"OK", "ABORT"}, ReleaseStep(t, m, ps, result),
         Owner(m) = t \/ OSLockNesting = 0
  PROVE  KernelInv'
<1> DEFINE o == Owner(m)
<1>t. t \in AllTask /\ \A u \in Task : u \in AllTask
  BY DEF AllTask
<1>1. /\ Running(t) /\ pc[t] = "task"
      /\ pc' = IF OSEventTbl[m] # {} THEN [pc EXCEPT ![t] = "sched"] ELSE pc
      /\ UNCHANGED <<OSTCBCur, OSPrioHighRdy, OSTCBHighRdy, pendSV, nestVars>>
  BY DEF ReleaseStep
<1>2. ReleaseEffect(m, ps, result)
  BY ReleaseFacts DEF ReleaseStep
<1>3. /\ o \in Task /\ o \in AllTask
      /\ OSTCBPrio' = [OSTCBPrio EXCEPT ![o] = InitPrio[o]]
      /\ OSPrioCur' = IF Raised(m) THEN InitPrio[o] ELSE OSPrioCur
      /\ OSRdyTbl' = ((OSRdyTbl \ {OSTCBPrio[o]}) \cup {InitPrio[o]}) \cup ps
      /\ OSTCBPrio[o] \in OSRdyTbl
  BY <1>2, <1>t DEF ReleaseEffect
<1>4. /\ OSTCBPrio'[o] = InitPrio[o]
      /\ \A u \in AllTask : u # o => OSTCBPrio'[u] = OSTCBPrio[u]
      /\ ~Raised(m) => OSTCBPrio[o] = InitPrio[o] /\ OSTCBPrio' = OSTCBPrio
  BY <1>3 DEF IInv, TypeInv, CoreTypeInv, TypeOK, MutexInv, OwnerInv, OwnerOK
<1>5. OSPrioCur = OSTCBPrio[t] /\ OSTCBCur = t /\ ~pendSV /\ isr = "none"
  BY <1>1 DEF IInv, KernelInv, CurInv, Stale, Running
<1>6. pc'[t] = IF OSEventTbl[m] # {} THEN "sched" ELSE "task"
  BY <1>1, <1>t DEF IInv, TypeInv, CoreTypeInv, TypeOK
<1>7. OSEventTbl[m] = {} => /\ ~Raised(m) /\ OSRdyTbl' = OSRdyTbl
                            /\ OSTCBPrio' = OSTCBPrio /\ OSPrioCur' = OSPrioCur
  <2>1. ASSUME OSEventTbl[m] = {}
        PROVE  ps = {} /\ ~Raised(m)
    BY <2>1 DEF IInv, MutexInv, WaitersInv
  <2> QED
    BY <1>3, <1>4, <2>1
<1>8. OSPrioCur' = OSTCBPrio'[t] \/ Stale'
  <2>1. CASE o = t
    BY <1>3, <1>4, <1>5, <2>1
  <2>2. CASE o # t /\ ~Raised(m)
    BY <1>3, <1>4, <1>5, <2>2
  <2>3. CASE o # t /\ Raised(m)
    <3>1. OSLockNesting = 0 /\ OSEventTbl[m] # {}
      BY <1>7, <2>3
    <3>2. OSTCBPrio[t] <= OSTCBPrio[o]
      BY <1>1, <1>3, <3>1, RunningIsHighest
    <3>3. OSTCBPrio[o] < InitPrio[o]
      BY <2>3, OwnerFacts DEF Raised, WasRaised, Owned
    <3>4. OSTCBPrio[t] \in Nat /\ OSTCBPrio[o] \in Nat /\ InitPrio[o] \in Nat
      BY <1>t, <1>3, InitPrioFacts, PrioFacts DEF IInv, TypeInv, CoreTypeInv, PrioInv, PrioMapOK
    <3>5. OSTCBPrio'[t] < OSPrioCur'
      BY <1>3, <1>4, <1>t, <2>3, <3>2, <3>3, <3>4
    <3>6. OSTCBPrio'[t] \in OSRdyTbl'
      <4>1. OSTCBPrio[t] \in OSRdyTbl
        BY <1>1, <3>1, RunningIsHighest
      <4>2. OSTCBPrio[t] # OSTCBPrio[o]
        BY <1>t, <1>3, <2>3 DEF IInv, TypeInv, CoreTypeInv, PrioInv, PrioMapOK
      <4> QED
        BY <1>3, <1>4, <1>t, <2>3, <4>1, <4>2
    <3> QED
      BY <1>1, <1>5, <1>6, <3>1, <3>5, <3>6 DEF Stale, nestVars
  <2> QED
    BY <2>1, <2>2, <2>3
<1> QED
  BY <1>1, <1>5, <1>6, <1>7, <1>8
  DEF IInv, KernelInv, CurInv, NestInv, LockInv, SchedInv, nestVars

\* What a release leaves alone: the other mutexes and their owners.
LEMMA ReleaseOthers ==
  ASSUME IInv, NEW t \in Task, NEW m \in Mutex, Owned(m), NEW ps \in SUBSET OSEventTbl[m],
         NEW result, ReleaseStep(t, m, ps, result),
         NEW k \in Mutex, k # m, Owned(k),
         OSMutexPCP'[k] = OSMutexPCP[k], OSOwnerPrio'[k] = OSOwnerPrio[k],
         OSEventPtr'[k] = OSEventPtr[k]
  PROVE  /\ OwnerOK(k)' /\ OSTCBPrio'[Owner(k)] = OSTCBPrio[Owner(k)]
         /\ Raised(k)' <=> Raised(k)
<1>1. /\ Owner(k) \in Task /\ Owner(k) \in AllTask /\ Owner(k) # Owner(m)
      /\ OwnerOK(k) /\ \A e \in Event : ~Waits(Owner(k), e)
  BY OwnerFacts DEF IInv, MutexInv, OwnerInv
<1>2. ReleaseEffect(m, ps, result)
  BY ReleaseFacts DEF ReleaseStep
<1>3. Owner(k) \notin Woken(ps)
  BY <1>1, <1>2, MutexAssumption DEF ReleaseEffect
<1>4. /\ OSTCBPrio'[Owner(k)] = OSTCBPrio[Owner(k)]
      /\ OSTCBStat'[Owner(k)] = OSTCBStat[Owner(k)]
      /\ OSTCBStatPend'[Owner(k)] = OSTCBStatPend[Owner(k)]
      /\ OSTCBDly'[Owner(k)] = OSTCBDly[Owner(k)]
  BY <1>1, <1>2, <1>3 DEF ReleaseEffect, IInv, TypeInv, CoreTypeInv, TypeOK
<1>5. /\ Owner(k)' = Owner(k) /\ (Exists(k)' <=> Exists(k)) /\ (HasCeiling(k)' <=> HasCeiling(k))
  BY DEF Owner, Exists, HasCeiling
<1>6. Raised(k)' <=> Raised(k)
  BY <1>4, <1>5 DEF Raised, WasRaised, Owner, HasCeiling
<1>7. (InPendCall(Owner(k))' <=> InPendCall(Owner(k))) /\ pevent' = pevent
  BY <1>1, <1>5, ReleasePendCalls DEF ReleaseStep, IInv, TypeInv
<1>8. OwnerOK(k)'
  BY <1>1, <1>4, <1>5, <1>6, <1>7 DEF OwnerOK, InPendCall
<1> QED
  BY <1>4, <1>6, <1>8


\* The entries of OSTCBPrioTbl after a release: the one at the ceiling changes,
\* and no other.
LEMMA ReleaseEntries ==
  ASSUME IInv, NEW m \in Mutex, Owned(m), NEW c,
         PrioTbl' = RestoredPrioTbl(Owner(m), m, c)
  PROVE  /\ WithCeiling(m) => PrioTbl'[OSMutexPCP[m]] = c
         /\ \A u \in AllTask : PrioTbl'[InitOSTCBPrio[u]] = u
         /\ \A k \in Mutex : k # m /\ WithCeiling(k) =>
              PrioTbl'[OSMutexPCP[k]] = IF Raised(k) THEN Owner(k) ELSE Reserved
         /\ c \in AllTask \cup {NoTask, Reserved}
              => PrioTbl' \in [AllPrio -> AllTask \cup {NoTask, Reserved}]
<1> DEFINE o == Owner(m)
<1>1. /\ o \in Task /\ o \in AllTask /\ OSOwnerPrio[m] = InitPrio[o]
      /\ InitOSTCBPrio[o] = InitPrio[o]
      /\ HasCeiling(m) => WithCeiling(m)
      /\ WithCeiling(m) => HasCeiling(m)
  BY OwnerFacts, InitPrioFacts DEF WithCeiling
<1>2. \A u \in AllTask : InitOSTCBPrio[u] \in AllPrio /\ PrioTbl[InitOSTCBPrio[u]] = u
  BY PrioFacts DEF IInv, MutexInv, EntriesInv
<1>3. \A p \in AllPrio : PrioTbl'[p] = IF HasCeiling(m) /\ p = OSMutexPCP[m] THEN c ELSE PrioTbl[p]
  <2> TAKE p \in AllPrio
  <2>1. CASE HasCeiling(m) /\ p = OSMutexPCP[m]
    <3>1. p # OSOwnerPrio[m]
      BY <1>1, <2>1, CeilingFacts DEF IInv, TypeInv
    <3> QED
      BY <2>1, <3>1 DEF RestoredPrioTbl
  <2>2. CASE ~(HasCeiling(m) /\ p = OSMutexPCP[m]) /\ WasRaised(o, m) /\ p = OSOwnerPrio[m]
    <3>1. PrioTbl'[p] = o
      BY <2>2 DEF RestoredPrioTbl
    <3>2. PrioTbl[p] = o
      BY <1>1, <1>2, <2>2
    <3> QED
      BY <2>2, <3>1, <3>2
  <2>3. CASE ~(HasCeiling(m) /\ p = OSMutexPCP[m]) /\ ~(WasRaised(o, m) /\ p = OSOwnerPrio[m])
    BY <2>3 DEF RestoredPrioTbl
  <2> QED
    BY <2>1, <2>2, <2>3
<1>4. PrioTbl' = [p \in AllPrio |-> PrioTbl'[p]]
  BY DEF RestoredPrioTbl
<1>5. WithCeiling(m) => PrioTbl'[OSMutexPCP[m]] = c
  BY <1>1, <1>3, CeilingFacts DEF IInv, TypeInv
<1>6. \A u \in AllTask : PrioTbl'[InitOSTCBPrio[u]] = u
  BY <1>1, <1>2, <1>3, CeilingFacts DEF IInv, TypeInv
<1>7. \A k \in Mutex : k # m /\ WithCeiling(k) =>
        PrioTbl'[OSMutexPCP[k]] = IF Raised(k) THEN Owner(k) ELSE Reserved
  BY <1>1, <1>3, CeilingFacts DEF IInv, TypeInv, MutexInv, EntriesInv
<1>8. ASSUME c \in AllTask \cup {NoTask, Reserved}
      PROVE  PrioTbl' \in [AllPrio -> AllTask \cup {NoTask, Reserved}]
  BY <1>3, <1>4, <1>8 DEF IInv, TypeInv, EcbTypeOK
<1> QED
  BY <1>5, <1>6, <1>7, <1>8

\* OSMutexDel of a mutex nobody waits for looks at nothing but the ceiling.
LEMMA DelOfUnawaited ==
  ASSUME IInv, NEW t \in Task, NEW m \in Mutex, OSMutexDel(t, m), OSEventTbl[m] = {}
  PROVE  OSMutexDelNoPend(t, m)
<1> DEFINE o == OSEventPtr[m]
<1>1. ~WasRaised(o, m)
  BY DEF IInv, MutexInv, WaitersInv, Raised, Owner
<1>2. OSTCBPrio' = OSTCBPrio /\ OSPrioCur' = OSPrioCur
  BY <1>1 DEF OSMutexDel, Restore
<1>3. EventTaskRdy(m, {}, "ABORT", OSRdyTbl)
  BY <1>1 DEF OSMutexDel, RestoredRdyTbl
<1>4. UNCHANGED <<OSTCBDly, OSTCBStat, OSTCBStatPend, OSRdyTbl, OSEventTbl, OSTCBEventPtr>>
  BY <1>3 DEF EventTaskRdy, IInv, TypeInv, CoreTypeInv, TypeOK
<1>5. UNCHANGED coreVars
  BY <1>2, <1>4 DEF OSMutexDel, coreVars, swVars, nestVars, tcbVars, callVars
<1>6. PrioTbl' = IF HasCeiling(m) THEN [PrioTbl EXCEPT ![OSMutexPCP[m]] = NoTask] ELSE PrioTbl
  BY <1>1 DEF OSMutexDel, RestoredPrioTbl, IInv, TypeInv, EcbTypeOK
<1> QED
  BY <1>5, <1>6 DEF OSMutexDel, OSMutexDelNoPend

LEMMA DelKeeps ==
  ASSUME Careful, IInv, NEW t \in Task, NEW m \in Mutex, OSMutexDel(t, m)
  PROVE  IInv'
<1>1. CASE OSEventTbl[m] = {}
  BY <1>1, DelOfUnawaited, DelNoPendKeeps
<1>2. CASE OSEventTbl[m] # {}
  <2> DEFINE o == Owner(m)
             ps == OSEventTbl[m]
  <2>t. \A u \in Task : u \in AllTask
    BY DEF AllTask
  <2>1. Owned(m) /\ OSLockNesting = 0 /\ o \in Task
    BY <1>2, OwnerFacts DEF OSMutexDel, IInv, MutexInv, WaitersInv
  <2>2. ReleaseStep(t, m, ps, "ABORT") /\ pevent' = pevent
    BY <1>2 DEF OSMutexDel, ReleaseStep, Released, InTask, Owner
  <2>3. CoreTypeInv' /\ ListInv' /\ KernelInv'
    BY <2>1, <2>2, ReleaseTyped, ReleaseKernel
  <2>4. ReleaseEffect(m, ps, "ABORT")
    BY <2>1, <2>2, ReleaseFacts DEF ReleaseStep
  <2>5. /\ OSMutexPCP'[m] = Available /\ OSOwnerPrio'[m] = Available
        /\ OSEventPtr'[m] = NoTask /\ inside'[m] = {}
        /\ \A k \in Mutex : k # m =>
             /\ OSMutexPCP'[k] = OSMutexPCP[k] /\ OSOwnerPrio'[k] = OSOwnerPrio[k]
             /\ OSEventPtr'[k] = OSEventPtr[k] /\ inside'[k] = inside[k]
    BY DEF OSMutexDel, IInv, TypeInv, EcbTypeOK
  <2>6. PrioTbl' = RestoredPrioTbl(Owner(m), m, NoTask)
    BY DEF OSMutexDel, Owner
  <2>7. EcbTypeOK'
    BY <2>1, <2>6, ReleaseEntries DEF OSMutexDel, IInv, TypeInv, EcbTypeOK
  <2>8. /\ \A k \in Mutex : k # m => /\ Owner(k)' = Owner(k) /\ (Owned(k)' <=> Owned(k))
                                     /\ (Exists(k)' <=> Exists(k)) /\ (HasCeiling(k)' <=> HasCeiling(k))
                                     /\ (WithCeiling(k)' <=> WithCeiling(k))
        /\ ~Owned(m)' /\ ~Raised(m)' /\ ~WithCeiling(m)' /\ Owner(m)' = NoTask
    BY <2>5 DEF Owner, Owned, Exists, HasCeiling, WithCeiling, Raised, WasRaised
  <2>9. ASSUME NEW k \in Mutex, k # m, Owned(k)
        PROVE  /\ OwnerOK(k)' /\ OSTCBPrio'[Owner(k)] = OSTCBPrio[Owner(k)]
               /\ Raised(k)' <=> Raised(k)
    BY <2>1, <2>2, <2>5, <2>9, ReleaseOthers
  <2>10. \A k \in Mutex : k # m => (Raised(k)' <=> Raised(k))
    BY <2>8, <2>9 DEF Raised, WasRaised, Owned, Owner
  <2>11. OwnerInv'
    <3>1. \A k \in Mutex : OSOwnerPrio'[k] = Available <=> ~Owned(k)'
      BY <2>5, <2>8 DEF IInv, MutexInv, OwnerInv
    <3>2. \A k \in Mutex : Owned(k)' => k # m /\ Owned(k)
      BY <2>8
    <3>3. \A k \in Mutex : Owned(k)' => OwnerOK(k)'
      BY <2>9, <3>2
    <3>4. \A k, n \in Mutex : Owned(k)' /\ Owner(k)' = Owner(n)' => k = n
      <4> SUFFICES ASSUME NEW k \in Mutex, NEW n \in Mutex, Owned(k)', Owner(k)' = Owner(n)'
                   PROVE  k = n
        OBVIOUS
      <4>1. Owned(n)'
        BY DEF Owned
      <4> QED
        BY <2>8, <3>2, <4>1 DEF IInv, MutexInv, OwnerInv
    <3> QED
      BY <3>1, <3>3, <3>4 DEF OwnerInv
  <2>12. \A k \in Mutex : OSEventTbl'[k] = IF k = m THEN {} ELSE OSEventTbl[k]
    BY <2>4, MutexAssumption DEF ReleaseEffect, IInv, TypeInv, CoreTypeInv, TypeOK
  <2>13. WaitersInv'
    <3> SUFFICES ASSUME NEW k \in Mutex, k # m
                 PROVE  /\ OSEventTbl'[k] # {} => Owned(k)'
                        /\ Raised(k)' => OSEventTbl'[k] # {}
                        /\ HasCeiling(k)' => \A p \in OSEventTbl'[k] :
                             OSMutexPCP'[k] < p /\ OSTCBPrio'[Owner(k)'] <= p
      BY <2>8, <2>12 DEF WaitersInv
    <3>1. /\ OSEventTbl[k] # {} => Owned(k)
          /\ Raised(k) => OSEventTbl[k] # {}
          /\ HasCeiling(k) => \A p \in OSEventTbl[k] :
               OSMutexPCP[k] < p /\ OSTCBPrio[Owner(k)] <= p
      BY DEF IInv, MutexInv, WaitersInv
    <3> QED
      BY <2>5, <2>8, <2>9, <2>10, <2>12, <3>1
  <2>14. PendersInv'
    <3> SUFFICES ASSUME NEW u \in Task, InPendCall(u)'
                 PROVE  /\ pevent'[u] \in Mutex
                        /\ Waits(u, pevent[u])' => "SUSPEND" \notin OSTCBStat'[u]
                        /\ "PEND" \notin OSTCBStat'[u] /\ OSTCBStatPend'[u] = "OK"
                             => Owner(pevent[u])' = u
      BY DEF PendersInv
    <3>1. InPendCall(u) /\ pevent' = pevent
      BY <2>2, ReleasePendCalls DEF IInv, TypeInv
    <3>2. pevent[u] \in Mutex
      BY <3>1 DEF IInv, MutexInv, PendersInv
    <3>3. CASE u \in Woken(ps)
      BY <2>4, <3>1, <3>2, <3>3 DEF ReleaseEffect, Waits
    <3>4. CASE u \notin Woken(ps)
      <4>1. pevent[u] # m
        BY <2>t, <3>4 DEF OSMutexDel, MayDelete, Woken
      <4>2. OSTCBStat'[u] = OSTCBStat[u] /\ OSTCBStatPend'[u] = OSTCBStatPend[u]
        BY <2>4, <2>t, <3>4 DEF ReleaseEffect
      <4>3. Waits(u, pevent[u])' => Waits(u, pevent[u])
        BY <3>1, <4>2 DEF Waits
      <4> QED
        BY <2>8, <3>1, <3>2, <4>1, <4>2, <4>3 DEF IInv, MutexInv, PendersInv
    <3> QED
      BY <3>3, <3>4
  <2>15. EntriesInv'
    <3>1. /\ \A u \in AllTask : PrioTbl'[InitOSTCBPrio[u]] = u
          /\ \A k \in Mutex : k # m /\ WithCeiling(k) =>
               PrioTbl'[OSMutexPCP[k]] = IF Raised(k) THEN Owner(k) ELSE Reserved
      BY <2>1, <2>6, ReleaseEntries
    <3> QED
      BY <2>5, <2>8, <2>10, <3>1 DEF IInv, MutexInv, EntriesInv
  <2>16. PriorityRestored'
    <3> SUFFICES ASSUME NEW u \in Task, ~Owns(u)'
                 PROVE  OSTCBPrio'[u] = InitPrio[u]
      BY DEF PriorityRestored
    <3>1. CASE u = o
      BY <2>4, <2>t, <3>1 DEF ReleaseEffect, IInv, TypeInv, CoreTypeInv, TypeOK
    <3>2. CASE u # o
      <4>1. ~Owns(u)
        BY <2>5, <3>2 DEF Owns, Owner
      <4>2. OSTCBPrio'[u] = OSTCBPrio[u]
        BY <2>4, <2>t, <3>2 DEF ReleaseEffect, IInv, TypeInv, CoreTypeInv, TypeOK
      <4> QED
        BY <4>1, <4>2 DEF IInv, MutexInv, PriorityRestored
    <3> QED
      BY <3>1, <3>2
  <2>17. InsideInv'
    BY <2>5, <2>8 DEF IInv, MutexInv, InsideInv
  <2> QED
    BY <2>3, <2>7, <2>11, <2>13, <2>14, <2>15, <2>16, <2>17 DEF IInv, TypeInv, MutexInv
<1> QED
  BY <1>1, <1>2


\* Who owns the mutex after a post: the most urgent of those who waited, or
\* nobody.
LEMMA PostOwner ==
  ASSUME IInv, NEW t \in Task, NEW m \in Mutex, OSMutexPost(t, m)
  PROVE  LET ps == IF OSEventTbl[m] = {} THEN {} ELSE {Highest(OSEventTbl[m])} IN
         /\ Owned(m) /\ Owner(m) = t /\ ps \in SUBSET OSEventTbl[m]
         /\ ReleaseStep(t, m, ps, "OK") /\ pevent' = pevent
         /\ OSEventTbl[m] = {} => OSEventPtr'[m] = NoTask /\ OSOwnerPrio'[m] = Available
         /\ OSEventTbl[m] # {} =>
              /\ OSEventPtr'[m] \in Woken(ps) /\ Woken(ps) = {OSEventPtr'[m]}
              /\ OSOwnerPrio'[m] = InitPrio[OSEventPtr'[m]]
              /\ OSTCBPrio[OSEventPtr'[m]] = InitPrio[OSEventPtr'[m]]
              /\ InitPrio[OSEventPtr'[m]] \in OSEventTbl[m]
              /\ \A q \in OSEventTbl[m] : InitPrio[OSEventPtr'[m]] <= q
<1> DEFINE ps == IF OSEventTbl[m] = {} THEN {} ELSE {Highest(OSEventTbl[m])}
<1>1. Owned(m) /\ Owner(m) = t
  BY InitPrioFacts DEF OSMutexPost, Owned, Owner
<1>2. OSEventTbl[m] # {} => /\ Highest(OSEventTbl[m]) \in OSEventTbl[m]
                            /\ \A q \in OSEventTbl[m] : Highest(OSEventTbl[m]) <= q
  BY WaiterTyped, HighestIsLeast, MutexAssumption DEF IInv, TypeInv
<1>3. ps \in SUBSET OSEventTbl[m]
  BY <1>2
<1>4. ReleaseStep(t, m, ps, "OK") /\ pevent' = pevent
  BY <1>1 DEF OSMutexPost, ReleaseStep, Released, InTask, Owner
<1>5. OSEventTbl[m] = {} => OSEventPtr'[m] = NoTask /\ OSOwnerPrio'[m] = Available
  BY DEF OSMutexPost, IInv, TypeInv, EcbTypeOK
<1>6. ASSUME OSEventTbl[m] # {}
      PROVE  /\ OSEventPtr'[m] \in Woken(ps) /\ Woken(ps) = {OSEventPtr'[m]}
             /\ OSOwnerPrio'[m] = InitPrio[OSEventPtr'[m]]
             /\ OSTCBPrio[OSEventPtr'[m]] = InitPrio[OSEventPtr'[m]]
             /\ InitPrio[OSEventPtr'[m]] \in OSEventTbl[m]
             /\ \A q \in OSEventTbl[m] : InitPrio[OSEventPtr'[m]] <= q
  <2> DEFINE hp == Highest(OSEventTbl[m])
  <2>1. hp \in OSEventTbl[m]
    BY <1>2, <1>6
  <2>2. PICK w \in Task : PrioTbl[hp] = w /\ OSTCBPrio[w] = hp /\ InitPrio[w] = hp
    BY <2>1, WaiterFacts
  <2>3. OSEventPtr'[m] = w /\ OSOwnerPrio'[m] = hp
    BY <1>6, <2>2 DEF OSMutexPost, IInv, TypeInv, EcbTypeOK
  <2>4. ps = {hp}
    BY <1>6
  <2>5. \A u \in Task : OSTCBPrio[u] = hp => u = w
    BY <2>2 DEF IInv, TypeInv, CoreTypeInv, PrioInv, PrioMapOK, AllTask
  <2>6. Woken(ps) = {w}
    BY <2>2, <2>4, <2>5 DEF Woken
  <2> QED
    BY <1>2, <1>6, <2>1, <2>2, <2>3, <2>6
<1> QED
  BY <1>1, <1>3, <1>4, <1>5, <1>6

LEMMA PostKeeps ==
  ASSUME IInv, NEW t \in Task, NEW m \in Mutex, OSMutexPost(t, m)
  PROVE  IInv'
<1> DEFINE w == OSEventPtr'[m]
           ps == IF OSEventTbl[m] = {} THEN {} ELSE {Highest(OSEventTbl[m])}
<1>t. (\A u \in Task : u \in AllTask) /\ m \in Event
  BY MutexAssumption DEF AllTask
<1>1. /\ Owned(m) /\ Owner(m) = t /\ ps \in SUBSET OSEventTbl[m]
      /\ ReleaseStep(t, m, ps, "OK") /\ pevent' = pevent
      /\ OSEventTbl[m] = {} => w = NoTask /\ OSOwnerPrio'[m] = Available
      /\ OSEventTbl[m] # {} =>
           /\ w \in Woken(ps) /\ Woken(ps) = {w}
           /\ OSOwnerPrio'[m] = InitPrio[w] /\ OSTCBPrio[w] = InitPrio[w]
           /\ InitPrio[w] \in OSEventTbl[m]
           /\ \A q \in OSEventTbl[m] : InitPrio[w] <= q
  BY PostOwner
<1> HIDE DEF ps
<1>2. CoreTypeInv' /\ ListInv' /\ KernelInv'
  BY <1>1, ReleaseTyped, ReleaseKernel
<1>3. ReleaseEffect(m, ps, "OK")
  BY <1>1, ReleaseFacts DEF ReleaseStep
<1>4. /\ OSMutexPCP' = OSMutexPCP
      /\ \A k \in Mutex : k # m =>
           /\ OSOwnerPrio'[k] = OSOwnerPrio[k]
           /\ OSEventPtr'[k] = OSEventPtr[k] /\ inside'[k] = inside[k]
      /\ inside'[m] = inside[m] \ {t}
      /\ PrioTbl' = RestoredPrioTbl(Owner(m), m, Reserved)
  BY <1>1 DEF OSMutexPost, IInv, TypeInv, EcbTypeOK
<1>5. OSEventTbl[m] # {} =>
        /\ w \in Task /\ w # t /\ ~Owns(w) /\ w # NoTask /\ Waits(w, m)
        /\ OSTCBStat'[w] = {} /\ OSTCBStatPend'[w] = "OK" /\ OSTCBDly'[w] = 0
        /\ OSTCBPrio'[w] = InitPrio[w]
  <2> SUFFICES ASSUME OSEventTbl[m] # {}
               PROVE  /\ w \in Task /\ w # t /\ ~Owns(w) /\ w # NoTask /\ Waits(w, m)
                      /\ OSTCBStat'[w] = {} /\ OSTCBStatPend'[w] = "OK" /\ OSTCBDly'[w] = 0
                      /\ OSTCBPrio'[w] = InitPrio[w]
    OBVIOUS
  <2>1. w \in Woken(ps) /\ OSTCBPrio[w] = InitPrio[w] /\ w \in Task
    BY <1>1 DEF Woken
  <2>2. /\ w # t /\ ~Owns(w) /\ Waits(w, m)
        /\ OSTCBStat'[w] = {} /\ OSTCBStatPend'[w] = "OK" /\ OSTCBDly'[w] = 0
    BY <1>1, <1>3, <2>1 DEF ReleaseEffect
  <2>3. OSTCBPrio'[w] = InitPrio[w]
    BY <1>1, <1>3, <1>t, <2>1, <2>2 DEF ReleaseEffect, IInv, TypeInv, CoreTypeInv, TypeOK
  <2> QED
    BY <2>1, <2>2, <2>3, InitPrioFacts
<1>6. EcbTypeOK'
  <2>1. PrioTbl' \in [AllPrio -> AllTask \cup {NoTask, Reserved}]
    BY <1>1, <1>4, ReleaseEntries
  <2>2. w \in Task \cup {NoTask} /\ OSOwnerPrio'[m] \in AllPrio \cup {Available}
    BY <1>1, <1>5, InitPrioFacts
  <2>3. /\ OSOwnerPrio' = [OSOwnerPrio EXCEPT ![m] = OSOwnerPrio'[m]]
        /\ OSEventPtr' = [OSEventPtr EXCEPT ![m] = w]
    BY DEF OSMutexPost, IInv, TypeInv, EcbTypeOK
  <2>4. /\ OSOwnerPrio' \in [Mutex -> AllPrio \cup {Available}]
        /\ OSEventPtr' \in [Mutex -> Task \cup {NoTask}]
    BY <2>2, <2>3 DEF IInv, TypeInv, EcbTypeOK
  <2>5. inside' \in [Mutex -> SUBSET Task]
    BY DEF OSMutexPost, IInv, TypeInv, EcbTypeOK
  <2> QED
    BY <1>4, <2>1, <2>4, <2>5 DEF IInv, TypeInv, EcbTypeOK
<1>7. /\ \A k \in Mutex : /\ (Exists(k)' <=> Exists(k)) /\ (HasCeiling(k)' <=> HasCeiling(k))
                          /\ (WithCeiling(k)' <=> WithCeiling(k))
      /\ \A k \in Mutex : k # m => Owner(k)' = Owner(k) /\ (Owned(k)' <=> Owned(k))
      /\ Owner(m)' = w /\ (Owned(m)' <=> OSEventTbl[m] # {})
  BY <1>1, <1>4, <1>5 DEF Owner, Owned, Exists, HasCeiling, WithCeiling
<1>8. Exists(m) /\ (HasCeiling(m) => WithCeiling(m)) /\ (WithCeiling(m) => HasCeiling(m))
  BY <1>1, OwnerFacts DEF WithCeiling
<1>9. /\ ~Raised(m)'
      /\ HasCeiling(m) /\ OSEventTbl[m] # {} => OSMutexPCP[m] < InitPrio[w]
  <2>1. HasCeiling(m) /\ OSEventTbl[m] # {} => OSMutexPCP[m] < InitPrio[w]
    BY <1>1 DEF IInv, MutexInv, WaitersInv
  <2>2. HasCeiling(m) /\ OSEventTbl[m] # {} => OSMutexPCP[m] # InitPrio[w]
    BY <1>5, <1>8, CeilingFacts, InitPrioFacts DEF IInv, TypeInv
  <2>3. ~Raised(m)'
    BY <1>1, <1>4, <1>5, <1>7, <2>2 DEF Raised, WasRaised
  <2> QED
    BY <2>1, <2>3
<1>10. ASSUME NEW k \in Mutex, k # m, Owned(k)
       PROVE  /\ OwnerOK(k)' /\ OSTCBPrio'[Owner(k)] = OSTCBPrio[Owner(k)]
              /\ Raised(k)' <=> Raised(k)
  BY <1>1, <1>4, <1>10, ReleaseOthers
<1>11. \A k \in Mutex : k # m => (Raised(k)' <=> Raised(k))
  BY <1>7, <1>10 DEF Raised, WasRaised, Owned, Owner
<1>12. OwnerInv'
  <2>1. OSEventTbl[m] # {} => OwnerOK(m)'
    BY <1>1, <1>4, <1>5, <1>7, <1>8, <1>9 DEF OwnerOK, Waits
  <2>2. \A k \in Mutex : Owned(k)' => OwnerOK(k)'
    BY <1>7, <1>10, <2>1
  <2>3. \A k \in Mutex : OSOwnerPrio'[k] = Available <=> ~Owned(k)'
    BY <1>1, <1>4, <1>5, <1>7, InitPrioFacts DEF IInv, MutexInv, OwnerInv
  <2>4. \A k, n \in Mutex : Owned(k)' /\ Owner(k)' = Owner(n)' => k = n
    <3> SUFFICES ASSUME NEW k \in Mutex, NEW n \in Mutex, Owned(k)', Owner(k)' = Owner(n)'
                 PROVE  k = n
      OBVIOUS
    <3>1. Owned(n)'
      BY DEF Owned
    <3>2. \A j \in Mutex : j # m /\ OSEventTbl[m] # {} => Owner(j) # w
      BY <1>5 DEF Owns, Owner
    <3> QED
      BY <1>7, <3>1, <3>2 DEF IInv, MutexInv, OwnerInv
  <2> QED
    BY <2>2, <2>3, <2>4 DEF OwnerInv
<1>13. \A k \in Mutex : OSEventTbl'[k] = IF k = m THEN OSEventTbl[k] \ ps ELSE OSEventTbl[k]
  BY <1>3, MutexAssumption DEF ReleaseEffect, IInv, TypeInv, CoreTypeInv, TypeOK
<1>14. WaitersInv'
  <2> SUFFICES ASSUME NEW k \in Mutex
               PROVE  /\ OSEventTbl'[k] # {} => Owned(k)'
                      /\ Raised(k)' => OSEventTbl'[k] # {}
                      /\ HasCeiling(k)' => \A p \in OSEventTbl'[k] :
                           OSMutexPCP'[k] < p /\ OSTCBPrio'[Owner(k)'] <= p
    BY DEF WaitersInv
  <2>1. /\ OSEventTbl[k] # {} => Owned(k)
        /\ Raised(k) => OSEventTbl[k] # {}
        /\ HasCeiling(k) => \A p \in OSEventTbl[k] :
             OSMutexPCP[k] < p /\ OSTCBPrio[Owner(k)] <= p
    BY DEF IInv, MutexInv, WaitersInv
  <2>2. CASE k = m
    BY <1>1, <1>4, <1>5, <1>7, <1>9, <1>13, <2>1, <2>2
  <2>3. CASE k # m
    BY <1>4, <1>7, <1>10, <1>11, <1>13, <2>1, <2>3
  <2> QED
    BY <2>2, <2>3
<1>15. PendersInv'
  <2> SUFFICES ASSUME NEW u \in Task, InPendCall(u)'
               PROVE  /\ pevent'[u] \in Mutex
                      /\ Waits(u, pevent[u])' => "SUSPEND" \notin OSTCBStat'[u]
                      /\ "PEND" \notin OSTCBStat'[u] /\ OSTCBStatPend'[u] = "OK"
                           => Owner(pevent[u])' = u
    BY DEF PendersInv
  <2>1. InPendCall(u) /\ pevent' = pevent /\ u # t
    BY <1>1, ReleasePendCalls DEF IInv, TypeInv
  <2>2. pevent[u] \in Mutex
    BY <2>1 DEF IInv, MutexInv, PendersInv
  <2>3. CASE u \in Woken(ps)
    <3>1. OSEventTbl[m] # {} /\ u = w
      BY <1>1, <2>3 DEF Woken
    <3> QED
      BY <1>5, <1>7, <2>1, <2>2, <3>1 DEF Waits
  <2>4. CASE u \notin Woken(ps)
    <3>1. OSTCBStat'[u] = OSTCBStat[u] /\ OSTCBStatPend'[u] = OSTCBStatPend[u]
      BY <1>3, <1>t, <2>4 DEF ReleaseEffect
    <3>2. Waits(u, pevent[u])' => Waits(u, pevent[u])
      BY <2>1, <3>1 DEF Waits
    <3>3. "PEND" \notin OSTCBStat[u] /\ OSTCBStatPend[u] = "OK" => pevent[u] # m /\ Owner(pevent[u]) = u
      BY <1>1, <2>1 DEF IInv, MutexInv, PendersInv
    <3> QED
      BY <1>7, <2>1, <2>2, <3>1, <3>2, <3>3 DEF IInv, MutexInv, PendersInv
  <2> QED
    BY <2>3, <2>4
<1>16. EntriesInv'
  <2>1. /\ WithCeiling(m) => PrioTbl'[OSMutexPCP[m]] = Reserved
        /\ \A u \in AllTask : PrioTbl'[InitOSTCBPrio[u]] = u
        /\ \A k \in Mutex : k # m /\ WithCeiling(k) =>
             PrioTbl'[OSMutexPCP[k]] = IF Raised(k) THEN Owner(k) ELSE Reserved
    BY <1>1, <1>4, ReleaseEntries
  <2>2. \A k \in Mutex : WithCeiling(k)' =>
          PrioTbl'[OSMutexPCP'[k]] = IF Raised(k)' THEN Owner(k)' ELSE Reserved
    BY <1>4, <1>7, <1>9, <1>11, <2>1
  <2> QED
    BY <1>4, <1>7, <2>1, <2>2 DEF IInv, MutexInv, EntriesInv
<1>17. PriorityRestored'
  <2> SUFFICES ASSUME NEW u \in Task, ~Owns(u)'
               PROVE  OSTCBPrio'[u] = InitPrio[u]
    BY DEF PriorityRestored
  <2>1. CASE u = t
    BY <1>1, <1>3, <1>t, <2>1 DEF ReleaseEffect, IInv, TypeInv, CoreTypeInv, TypeOK
  <2>2. CASE u # t
    <3>1. ~Owns(u)
      BY <1>1, <1>4, <2>2 DEF Owns, Owner
    <3>2. OSTCBPrio'[u] = OSTCBPrio[u]
      BY <1>1, <1>3, <1>t, <2>2 DEF ReleaseEffect, IInv, TypeInv, CoreTypeInv, TypeOK
    <3> QED
      BY <3>1, <3>2 DEF IInv, MutexInv, PriorityRestored
  <2> QED
    BY <2>1, <2>2
<1>18. InsideInv'
  BY <1>1, <1>4, <1>7 DEF IInv, MutexInv, InsideInv
<1> QED
  BY <1>2, <1>6, <1>12, <1>14, <1>15, <1>16, <1>17, <1>18 DEF IInv, TypeInv, MutexInv


-----------------------------------------------------------------------------
(* Every step keeps the invariant.                                          *)

LEMMA TickTyped ==
  ASSUME IInv, Tick
  PROVE  CoreTypeInv' /\ KernelInv' /\ ListInv'
<1>1. UNCHANGED <<OSRdyTbl, swVars, OSTCBPrio, tcbVars, OSEventTbl, callVars>> /\ SysTickEnter
  BY DEF Tick
<1>2. CoreTypeInv'
  <2>1. PrioInv' /\ SwTypeOK'
    BY <1>1 DEF IInv, TypeInv, CoreTypeInv, TypeOK, PrioInv, PrioMapOK, SwTypeOK, swVars
  <2>2. RestTypeOK'
    BY <1>1 DEF IInv, TypeInv, CoreTypeInv, TypeOK, RestTypeOK, SysTickEnter, tcbVars, callVars
  <2> QED
    BY <2>1, <2>2, TypedByParts
<1>3. KernelInv'
  BY <1>1, SysTickEnterKernel DEF IInv
<1>4. ListInv'
  <2>1. /\ UNCHANGED <<OSRdyTbl, OSTCBPrio, OSTCBStat, OSTCBStatPend, OSTCBDly, OSEventTbl, pevent>>
        /\ \A t \in Task : InPendCall(t)' <=> InPendCall(t)
    BY <1>1 DEF tcbVars, callVars, InPendCall
  <2> QED
    BY <2>1, SameLists DEF IInv, TypeInv
<1> QED
  BY <1>2, <1>3, <1>4

LEMMA NextKeeps ==
  ASSUME Careful, IInv, [Next]_mutexVars
  PROVE  IInv'
<1> DEFINE Rest == <<PrioTbl, ecbVars, inside>>
<1>e. ASSUME UNCHANGED Rest
      PROVE  EcbTypeOK'
  BY <1>e DEF IInv, TypeInv, EcbTypeOK, ecbVars
<1>1. CASE Kernel /\ UNCHANGED Rest
  <2>1. CoreTypeInv' /\ KernelInv' /\ ListInv'
    <3>1. CASE Tick
      BY <3>1, TickTyped
    <3>2. CASE PendSV_Handler \/ OSTimeTick \/ SysTickExit
      BY <3>2, HandlersTyped, HandlersKernel, HandlersLists DEF IInv, TypeInv
    <3> QED
      BY <1>1, <3>1, <3>2 DEF Kernel
  <2> QED
    BY <1>1, <1>e, <2>1, KernelMutexes DEF IInv, TypeInv
<1>2. ASSUME NEW t \in Task, Core(t), UNCHANGED Rest
      PROVE  IInv'
  <2>1. CoreTask(t)
    BY <1>2 DEF Core, CoreTask
  <2>2. CoreTypeInv' /\ KernelInv' /\ ListInv'
    BY <2>1, CoreTaskTyped, CoreTaskKernel, CoreTaskLists DEF IInv, TypeInv
  <2> QED
    BY <1>2, <1>e, <2>2, CoreMutexes DEF IInv, TypeInv
<1>3. ASSUME NEW t \in Task, MutexTask(t)
      PROVE  IInv'
  BY <1>3, PendEndKeeps, CreateKeeps, TakeKeeps, PendKeeps, PostKeeps, DelKeeps,
     DelNoPendKeeps
  DEF MutexTask
<1>4. CASE UNCHANGED mutexVars
  <2>1. UNCHANGED coreVars /\ UNCHANGED Rest
    BY <1>4 DEF mutexVars
  <2>2. CoreTypeInv' /\ KernelInv' /\ ListInv'
    BY <2>1, SameKernel
  <2>3. MutexInv'
    BY <2>1, SameMutexes
    DEF coreVars, tcbVars, callVars, InPendCall, Waits, IInv, MutexInv, PendersInv
  <2> QED
    BY <1>e, <2>1, <2>2, <2>3 DEF IInv, TypeInv
<1> QED
  BY <1>1, <1>2, <1>3, <1>4 DEF Next

LEMMA AlwaysIInv ==
  ASSUME Careful
  PROVE  Spec => []IInv
<1>1. IInv /\ [Next]_mutexVars => IInv'
  BY NextKeeps
<1> QED
  BY <1>1, InitOK, PTL DEF Spec

-----------------------------------------------------------------------------
(* What the invariant gives.                                                *)

LEMMA OneUser ==
  ASSUME IInv
  PROVE  MutualExclusion
BY DEF IInv, MutexInv, InsideInv, Owner, MutualExclusion

LEMMA WaitersAreServed ==
  ASSUME IInv
  PROVE  NoInversion
BY DEF IInv, MutexInv, WaitersInv, Owner, NoInversion

LEMMA EntriesOK ==
  ASSUME IInv
  PROVE  PrioTblOK
<1>1. \A t \in AllTask : PrioTbl[OSTCBPrio[t]] = t
  BY EntriesFind DEF IInv, TypeInv, CoreTypeInv, PrioInv, PrioMapOK, MutexInv
<1>2. \A m \in Mutex : Exists(m) /\ HasCeiling(m) =>
        PrioTbl[OSMutexPCP[m]] \in {Reserved, OSEventPtr[m]}
  BY DEF IInv, MutexInv, EntriesInv, WithCeiling, Owner
<1>3. \A t, u \in AllTask : OSTCBPrio[t] = OSTCBPrio[u] => t = u
  BY DEF IInv, TypeInv, CoreTypeInv, PrioInv, PrioMapOK
<1> QED
  BY <1>1, <1>2, <1>3 DEF PrioTblOK

\* The types, of the kernel's variables too.
THEOREM MutexTyped ==
  ASSUME Careful
  PROVE  Spec => []MutexTypeOK
<1>1. IInv => MutexTypeOK
  BY TypeInvImplies DEF IInv
<1> QED
  BY <1>1, AlwaysIInv, PTL

\* What a mutex protects is used by its owner alone, whatever the pends that
\* time out, the posts and the deletions of mutexes do in between.
THEOREM MutexesExclude ==
  ASSUME Careful
  PROVE  Spec => []MutualExclusion
BY OneUser, AlwaysIInv, PTL

\* No task waits for an owner that is less urgent than itself and has not been
\* raised.
THEOREM NeverInverted ==
  ASSUME Careful
  PROVE  Spec => []NoInversion
BY WaitersAreServed, AlwaysIInv, PTL

\* Every task that owns no mutex has the priority it was created with: each
\* way a mutex can be given up restores its owner.
THEOREM PriorityAlwaysRestored ==
  ASSUME Careful
  PROVE  Spec => []PriorityRestored
<1>1. IInv => PriorityRestored
  BY DEF IInv, MutexInv
<1> QED
  BY <1>1, AlwaysIInv, PTL

\* OSTCBPrioTbl finds every task at its present priority, and every ceiling is
\* reserved or taken by the owner it was lent to.
THEOREM PrioTblAlwaysOK ==
  ASSUME Careful
  PROVE  Spec => []PrioTblOK
BY EntriesOK, AlwaysIInv, PTL

\* The ready list, the wait lists and the scheduler keep their promises while
\* mutexes change the priorities they are ordered by.
THEOREM ListsAlwaysOK ==
  ASSUME Careful
  PROVE  Spec => []ListsOK
<1>1. IInv => ListsOK
  BY LayersGiveLists DEF IInv, TypeInv, ListsOK
<1> QED
  BY <1>1, AlwaysIInv, PTL

=============================================================================
