----------------------------- MODULE OSPoolProof ------------------------------
(***************************************************************************)
(* Theorems about mailboxes, queues and the memory partition used with     *)
(* them (OSPool), for every number of tasks, events, blocks and slots.     *)
(***************************************************************************)
EXTENDS OSPool, OSCoreProof, SequenceTheorems, FiniteSetTheorems

-----------------------------------------------------------------------------
(* What the services do to the kernel's variables: one of four things.      *)

\* An event that is not in use has no waiters: OSQDel and OSMboxDel empty the
\* list, and OSQCreate finds it empty.
UnusedInv == \A e \in Event : OSEventType[e] = "UNUSED" => OSEventTbl[e] = {}

\* Waiters of e are told r and, if it is OK, given a message.
Wakes(t, e, ps, msg, r) ==
  /\ InTask(t)
  /\ ps \subseteq OSEventTbl[e]
  /\ MsgRdy(e, ps, msg, r)
  /\ \/ r = "OK" /\ msg \in Msg
     \/ r = "ABORT" /\ msg = Null
  /\ pc' \in {pc, [pc EXCEPT ![t] = "sched"]}
  /\ UNCHANGED <<swVars, nestVars, OSTCBPrio, pevent>>

Quiet == UNCHANGED <<coreVars, OSTCBMsg>>

Blocks(t, e, n) == /\ OSEventType[e] # "UNUSED"
                   /\ PendWaits(t, e, n)
                   /\ UNCHANGED <<swVars, nestVars, OSTCBMsg>>

Returns(t) == /\ PendEnds(t)
              /\ OSTCBEventPtr' = [OSTCBEventPtr EXCEPT ![t] = NoEvent]
              /\ OSTCBMsg' = [OSTCBMsg EXCEPT ![t] = Null]
              /\ UNCHANGED <<swVars, nestVars>>

KernelPart(t) ==
  \/ Quiet
  \/ Returns(t)
  \/ \E e \in Event, n \in 0..MaxTicks : Blocks(t, e, n)
  \/ \E e \in Event : \E msg, r : \E ps \in SUBSET OSEventTbl[e] : Wakes(t, e, ps, msg, r)

LEMMA PostPart ==
  ASSUME CoreTypeInv, NEW t \in Task, NEW e \in Event, NEW msg \in Msg, NEW opt,
         PostOpt(t, e, msg, opt)
  PROVE  KernelPart(t)
<1> DEFINE ps == IF "BROADCAST" \in opt THEN OSEventTbl[e] ELSE {Highest(OSEventTbl[e])}
<1>1. CASE OSEventTbl[e] # {}
  <2>1. ps \in SUBSET OSEventTbl[e]
    BY <1>1, WaiterTyped
  <2>2. /\ MsgRdy(e, ps, msg, "OK")
        /\ pc' \in {pc, [pc EXCEPT ![t] = "sched"]}
        /\ InTask(t)
        /\ UNCHANGED <<swVars, nestVars, OSTCBPrio, pevent>>
    BY <1>1 DEF PostOpt, Calls
  <2>3. Wakes(t, e, ps, msg, "OK")
    BY <2>1, <2>2 DEF Wakes
  <2> QED
    BY <2>1, <2>3 DEF KernelPart
<1>2. CASE OSEventTbl[e] = {}
  BY <1>2 DEF PostOpt, KernelPart, Quiet, coreVars, callVars
<1> QED
  BY <1>1, <1>2

LEMMA AbortPart ==
  ASSUME CoreTypeInv, NEW t \in Task, NEW e \in Event, NEW opt, PendAbort(t, e, opt)
  PROVE  KernelPart(t)
<1> DEFINE ps == IF opt = "BROADCAST" THEN OSEventTbl[e] ELSE {Highest(OSEventTbl[e])}
<1>1. ps \in SUBSET OSEventTbl[e]
  BY WaiterTyped DEF PendAbort
<1>2. Wakes(t, e, ps, Null, "ABORT")
  BY <1>1 DEF PendAbort, Calls, Wakes
<1> QED
  BY <1>1, <1>2 DEF KernelPart

LEMMA KernelParts ==
  ASSUME CoreTypeInv, UnusedInv, NEW t \in Task, PoolTask(t)
  PROVE  KernelPart(t)
<1>1. CASE GetBlock(t)
  BY <1>1 DEF GetBlock, msgVars, KernelPart, Quiet
<1>2. CASE ReturnMsg(t)
  BY <1>2 DEF ReturnMsg, PendEnd, KernelPart, Returns, PendEnds
<1>3. ASSUME NEW b \in Block, PutBlock(t, b)
      PROVE  KernelPart(t)
  BY <1>3 DEF PutBlock, msgVars, KernelPart, Quiet
<1>4. ASSUME NEW e \in Event, TakeMsg(t, e) \/ Flush(t, e)
      PROVE  KernelPart(t)
  BY <1>4 DEF TakeMsg, Flush, PendTake, Accept, OSQFlush, KernelPart, Quiet
<1>5. ASSUME NEW e \in Event, DeleteChan(t, e)
      PROVE  KernelPart(t)
  <2>1. PICK opt \in {"NO_PEND", "ALWAYS"} : Delete(t, e, opt)
    BY <1>5 DEF DeleteChan
  <2>2. Wakes(t, e, OSEventTbl[e], Null, "ABORT")
    BY <2>1 DEF Delete, Calls, Wakes
  <2> QED
    BY <2>2 DEF KernelPart
<1>6. ASSUME NEW e \in Event, NEW type \in {"MBOX", "Q"}, CreateChan(t, e, type)
      PROVE  KernelPart(t)
  <2>1. PICK msg : Create(t, e, type, msg)
    BY <1>6 DEF CreateChan
  <2>2. OSEventTbl[e] = {}
    BY <2>1 DEF Create, UnusedInv
  <2>3. OSEventTbl' = OSEventTbl
    BY <2>1, <2>2 DEF Create, CoreTypeInv, TypeOK
  <2> QED
    BY <2>1, <2>3 DEF Create, KernelPart, Quiet, coreVars
<1>7. ASSUME NEW e \in Event, NEW b \in Block, NEW opt, PostBlock(t, e, b, opt)
      PROVE  KernelPart(t)
  BY <1>7, PostPart, PoolAssumption DEF PostBlock
<1>8. ASSUME NEW e \in Event, NEW opt, PostNote(t, e, opt)
      PROVE  KernelPart(t)
  BY <1>8, PostPart, PoolAssumption DEF PostNote
<1>9. ASSUME NEW e \in Event, NEW n \in 0..MaxTicks, PendWait(t, e, n)
      PROVE  KernelPart(t)
  <2>1. Blocks(t, e, n)
    BY <1>9 DEF PendWait, Calls, InTask, Blocks, PendWaits
  <2> QED
    BY <2>1 DEF KernelPart
<1>10. ASSUME NEW e \in Event, NEW opt, PendAbort(t, e, opt)
       PROVE  KernelPart(t)
  BY <1>10, AbortPart
<1> QED
  BY <1>1, <1>2, <1>3, <1>4, <1>5, <1>6, <1>7, <1>8, <1>9, <1>10 DEF PoolTask

-----------------------------------------------------------------------------
(* The scheduler.  OS_POST_OPT_NO_SCHED lets a less urgent task go on, so   *)
(* that the running task is ready, but need not be the most urgent one.     *)

RunInv ==
  /\ ~pendSV => OSPrioCur = OSTCBPrio[OSTCBCur]
  /\ pendSV => OSPrioHighRdy = OSTCBPrio[OSTCBHighRdy]
  /\ NestInv /\ OSLockNesting = 0
  /\ isr = "none" =>
       /\ pendSV => OSPrioHighRdy \in OSRdyTbl
       /\ ~pendSV /\ pc[OSTCBCur] \in {"task", "wake"} => OSTCBPrio[OSTCBCur] \in OSRdyTbl

\* A reschedule leaves the task that runs, or the one a switch is due to, ready.
LEMMA SwitchRuns ==
  ASSUME CoreTypeInv, RunInv, UNCHANGED <<OSTCBPrio, OSRdyTbl>>, SwitchToHighest
  PROVE  /\ ~pendSV' => /\ OSPrioCur' = OSTCBPrio'[OSTCBCur']
                        /\ OSTCBPrio'[OSTCBCur'] \in OSRdyTbl'
         /\ pendSV' => /\ OSPrioHighRdy' = OSTCBPrio'[OSTCBHighRdy']
                       /\ OSPrioHighRdy' \in OSRdyTbl'
<1>1. CurInv
  BY DEF RunInv, CurInv
<1>2. /\ CurInv'
      /\ OSPrioHighRdy' = Highest(OSRdyTbl')
      /\ ~pendSV' => OSPrioCur' = OSTCBPrio'[OSTCBCur'] /\ OSPrioCur' = Highest(OSRdyTbl')
  BY <1>1, SwitchKernel
<1>3. Highest(OSRdyTbl') \in OSRdyTbl'
  <2>1. OSRdyTbl \subseteq Nat /\ OSRdyTbl # {}
    BY PrioFacts DEF CoreTypeInv, TypeOK, PrioInv
  <2> QED
    BY <2>1, HighestIsLeast
<1> QED
  BY <1>2, <1>3 DEF CurInv

LEMMA InitRuns ==
  ASSUME CoreInit
  PROVE  CoreTypeInv /\ RunInv /\ ListInv
<1>1. CoreTypeInv /\ KernelInv /\ ListInv
  BY CoreInitTyped, CoreInitKernel, CoreInitLists
<1>2. OSRdyTbl = {OSTCBPrio[t] : t \in AllTask} /\ pc[OSTCBCur] = "task"
  BY <1>1 DEF CoreInit, CoreTypeInv, TypeOK
<1>3. OSTCBPrio[OSTCBCur] \in OSRdyTbl
  BY <1>1, <1>2 DEF CoreTypeInv, TypeOK
<1>4. OSPrioCur = OSTCBPrio[OSTCBCur]
  BY <1>1, <1>2 DEF CoreInit, KernelInv, CurInv, Stale
<1> QED
  BY <1>1, <1>3, <1>4 DEF RunInv, KernelInv, CoreInit

LEMMA TaskRuns ==
  ASSUME CoreTypeInv, RunInv, ListInv, NEW t \in Task, KernelPart(t)
  PROVE  RunInv'
<1> USE DEF CoreTypeInv, TypeOK
<1>t. t \in AllTask
  BY DEF AllTask
<1>1. CASE Quiet
  BY <1>1 DEF Quiet, coreVars, swVars, nestVars, callVars, RunInv, NestInv
<1>2. CASE Returns(t)
  BY <1>2, <1>t DEF Returns, PendEnds, Running, swVars, nestVars, RunInv, NestInv
<1>3. ASSUME NEW e \in Event, NEW n \in 0..MaxTicks, Blocks(t, e, n)
      PROVE  RunInv'
  BY <1>3, <1>t DEF Blocks, PendWaits, Running, swVars, nestVars, RunInv, NestInv
<1>4. ASSUME NEW e \in Event, NEW msg, NEW r, NEW ps, Wakes(t, e, ps, msg, r)
      PROVE  RunInv'
  <2>1. OSRdyTbl \subseteq OSRdyTbl'
    BY <1>4 DEF Wakes, MsgRdy, OS_EventTaskRdy
  <2>2. /\ UNCHANGED <<swVars, nestVars, OSTCBPrio>>
        /\ OSTCBCur = t /\ pc[t] = "task" /\ ~pendSV /\ isr = "none"
    BY <1>4 DEF Wakes, InTask, Running
  <2> QED
    BY <2>1, <2>2 DEF swVars, nestVars, RunInv, NestInv
<1> QED
  BY <1>1, <1>2, <1>3, <1>4 DEF KernelPart

LEMMA KernelRuns ==
  ASSUME CoreTypeInv, RunInv, Kernel
  PROVE  RunInv'
<1> USE DEF CoreTypeInv, TypeOK
<1>1. CASE PendSV_Handler
  BY <1>1 DEF PendSV_Handler, nestVars, RunInv, NestInv
<1>2. CASE MsgTick
  BY <1>2 DEF MsgTick, SysTickEnter, swVars, RunInv, NestInv
<1>3. CASE OSTimeTick
  BY <1>3 DEF OSTimeTick, swVars, RunInv, NestInv
<1>4. CASE SysTickExit
  <2>1. /\ OSIntNesting = 1 /\ OSLockNesting = 0 /\ isr' = "none" /\ OSLockNesting' = 0
        /\ UNCHANGED <<OSTCBPrio, OSRdyTbl>>
    BY <1>4 DEF SysTickExit, RunInv, NestInv
  <2>2. OSIntNesting' = 0 /\ SwitchToHighest
    BY <1>4, <2>1 DEF SysTickExit, OSIntExit
  <2> QED
    BY <2>1, <2>2, SwitchRuns DEF RunInv, NestInv
<1>5. ASSUME NEW t \in Task, OS_Sched(t)
      PROVE  RunInv'
  <2>1. /\ OSIntNesting = 0 /\ OSLockNesting = 0 /\ isr = "none"
        /\ UNCHANGED <<OSTCBPrio, OSRdyTbl, nestVars>>
    BY <1>5 DEF OS_Sched, Running, RunInv, NestInv
  <2>2. SwitchToHighest
    BY <1>5, <2>1 DEF OS_Sched
  <2> QED
    BY <2>1, <2>2, SwitchRuns DEF RunInv, NestInv, nestVars
<1> QED
  BY <1>1, <1>2, <1>3, <1>4, <1>5 DEF Kernel

-----------------------------------------------------------------------------
(* Types and lists of the kernel                                            *)

LEMMA TaskTyped ==
  ASSUME CoreTypeInv, NEW t \in Task, KernelPart(t)
  PROVE  CoreTypeInv'
<1>t. t \in AllTask
  BY DEF AllTask
<1>1. CASE Quiet
  BY <1>1 DEF Quiet, coreVars, swVars, nestVars, tcbVars, callVars, CoreTypeInv, TypeOK,
              PrioInv, PrioMapOK
<1>2. CASE Returns(t)
  <2>1. PrioInv' /\ SwTypeOK'
    BY <1>2 DEF Returns, PendEnds, CoreTypeInv, PrioInv, PrioMapOK, TypeOK, SwTypeOK, swVars
  <2>2. OSEventTbl' \in [Event -> SUBSET AllPrio]
    BY <1>2 DEF Returns, PendEnds, OS_EventTaskRemove, CoreTypeInv, TypeOK
  <2>3. RestTypeOK'
    BY <1>2, <2>2
    DEF Returns, PendEnds, CoreTypeInv, TypeOK, RestTypeOK, nestVars, PendResult, Pc
  <2> QED
    BY <2>1, <2>3, TypedByParts
<1>3. ASSUME NEW e \in Event, NEW n \in 0..MaxTicks, Blocks(t, e, n)
      PROVE  CoreTypeInv'
  <2>1. SwTypeOK'
    BY <1>3 DEF Blocks, CoreTypeInv, TypeOK, SwTypeOK, swVars
  <2>2. OSRdyTbl' = OSRdyTbl \ {OSTCBPrio[t]} /\ OSTCBPrio' = OSTCBPrio
    BY <1>3 DEF Blocks, PendWaits, OS_EventTaskWait
  <2>3. PrioInv'
    BY <2>2, ReadyListTyped DEF CoreTypeInv, PrioInv, PrioMapOK
  <2>4. OSTCBPrio[t] \in AllPrio
    BY <1>t DEF CoreTypeInv, TypeOK
  <2>5. RestTypeOK'
    BY <1>3, <2>4 DEF Blocks, PendWaits, OS_EventTaskWait, CoreTypeInv, TypeOK, RestTypeOK,
       nestVars, PendResult, Pc, Flag
  <2> QED
    BY <2>1, <2>3, <2>5, TypedByParts
<1>4. ASSUME NEW e \in Event, NEW msg, NEW r, NEW ps, Wakes(t, e, ps, msg, r)
      PROVE  CoreTypeInv'
  <2>1. r \in PendResult /\ OS_EventTaskRdy(e, ps, r) /\ OSTCBPrio' = OSTCBPrio
    BY <1>4 DEF Wakes, MsgRdy, PendResult
  <2>2. WakeTypeOK'
    BY <2>1, TaskRdyTyped
  <2>3. SwTypeOK'
    BY <1>4 DEF Wakes, CoreTypeInv, TypeOK, SwTypeOK, swVars
  <2>4. pc' \in [AllTask -> Pc]
    BY <1>4 DEF Wakes, CoreTypeInv, TypeOK, Pc
  <2>5. RestTypeOK'
    BY <1>4, <2>2, <2>4 DEF Wakes, WakeTypeOK, CoreTypeInv, TypeOK, RestTypeOK, nestVars
  <2> QED
    BY <2>2, <2>3, <2>5, TypedByParts DEF WakeTypeOK
<1> QED
  BY <1>1, <1>2, <1>3, <1>4 DEF KernelPart

LEMMA KernelTyped ==
  ASSUME CoreTypeInv, Kernel
  PROVE  CoreTypeInv'
<1>1. CASE MsgTick
  <2>1. (OSIntNesting + 1) % 256 \in Nat
    BY DEF CoreTypeInv, TypeOK
  <2> QED
    BY <1>1, <2>1 DEF MsgTick, SysTickEnter, swVars, tcbVars, callVars, CoreTypeInv, TypeOK,
       PrioInv, PrioMapOK
<1> QED
  BY <1>1, HandlersTyped, OS_SchedTyped DEF Kernel

LEMMA TaskLists ==
  ASSUME CoreTypeInv, RunInv, ListInv, NEW t \in Task, KernelPart(t)
  PROVE  ListInv'
<1>t. \A u \in Task : u \in AllTask
  BY DEF AllTask
<1>1. CASE Quiet
  BY <1>1, SameLists DEF Quiet, coreVars, tcbVars, callVars, InPendCall
<1>2. CASE Returns(t)
  <2>1. OSTCBPrio[t] \in OSRdyTbl
    BY <1>2 DEF Returns, PendEnds, Running, RunInv
  <2> QED
    BY <1>2, <2>1, ReturnLists DEF Returns
<1>3. ASSUME NEW e \in Event, NEW n \in 0..MaxTicks, Blocks(t, e, n)
      PROVE  ListInv'
  BY <1>3, PendWaitLists DEF Blocks
<1>4. ASSUME NEW e \in Event, NEW msg, NEW r, NEW ps \in SUBSET OSEventTbl[e],
             Wakes(t, e, ps, msg, r)
      PROVE  ListInv'
  <2>1. \A u \in Task : InPendCall(u)' <=> InPendCall(u)
    BY <1>4, <1>t DEF Wakes, InTask, InPendCall, CoreTypeInv, TypeOK
  <2>2. r \in {"OK", "ABORT"} /\ OS_EventTaskRdy(e, ps, r) /\ UNCHANGED <<OSTCBPrio, pevent>>
    BY <1>4 DEF Wakes, MsgRdy
  <2> QED
    BY <2>1, <2>2, WakeKeepsLists
<1> QED
  BY <1>1, <1>2, <1>3, <1>4 DEF KernelPart

LEMMA KernelLists ==
  ASSUME CoreTypeInv, ListInv, Kernel
  PROVE  ListInv'
<1>1. CASE MsgTick
  BY <1>1, SameLists DEF MsgTick, tcbVars, callVars, InPendCall
<1>2. ASSUME NEW t \in Task, OS_Sched(t)
      PROVE  ListInv'
  BY <1>2, CoreTaskLists DEF CoreTask
<1> QED
  BY <1>1, <1>2, HandlersLists DEF Kernel

-----------------------------------------------------------------------------
(* The message a task finds in its TCB                                      *)

Given(t) == InPendCall(t) /\ "PEND" \notin OSTCBStat[t] /\ OSTCBStatPend[t] = "OK"

\* A task has a message in its TCB exactly between the post that gave it one
\* and its return from the pend; a timeout recorded before does not count.
GivenInv ==
  /\ OSTCBMsg \in [AllTask -> Msg \cup {Null}]
  /\ \A t \in Task : Given(t) <=> OSTCBMsg[t] # Null

LEMMA TaskGiven ==
  ASSUME CoreTypeInv, RunInv, ListInv, GivenInv, NEW t \in Task, KernelPart(t)
  PROVE  GivenInv'
<1> USE DEF CoreTypeInv, TypeOK
<1>t. \A u \in Task : u \in AllTask
  BY DEF AllTask
<1>1. CASE Quiet
  BY <1>1 DEF Quiet, coreVars, tcbVars, callVars, GivenInv, Given, InPendCall
<1>2. CASE Returns(t)
  BY <1>2, <1>t DEF Returns, PendEnds, GivenInv, Given, InPendCall
<1>3. ASSUME NEW e \in Event, NEW n \in 0..MaxTicks, Blocks(t, e, n)
      PROVE  GivenInv'
  BY <1>3, <1>t DEF Blocks, PendWaits, OS_EventTaskWait, GivenInv, Given, InPendCall
<1>4. ASSUME NEW e \in Event, NEW msg, NEW r, NEW ps \in SUBSET OSEventTbl[e],
             Wakes(t, e, ps, msg, r)
      PROVE  GivenInv'
  <2>1. \A u \in Task : InPendCall(u)' <=> InPendCall(u)
    BY <1>4, <1>t DEF Wakes, InTask, InPendCall
  <2>2. OSTCBMsg' = [u \in AllTask |-> IF OSTCBPrio[u] \in ps THEN msg ELSE OSTCBMsg[u]]
    BY <1>4 DEF Wakes, MsgRdy
  <2>3. OSTCBMsg' \in [AllTask -> Msg \cup {Null}]
    BY <1>4, <2>2 DEF Wakes, GivenInv
  <2>4. ASSUME NEW u \in Task
        PROVE  Given(u)' <=> OSTCBMsg'[u] # Null
    <3>1. CASE OSTCBPrio[u] \in ps
      <4>1. "PEND" \notin OSTCBStat'[u] /\ OSTCBStatPend'[u] = r /\ OSTCBMsg'[u] = msg
        BY <1>4, <1>t, <2>2, <3>1 DEF Wakes, MsgRdy, OS_EventTaskRdy
      <4>2. InPendCall(u)
        BY <3>1 DEF ListInv, WaitInv, Waits
      <4> QED
        BY <1>4, <2>1, <4>1, <4>2, MsgAssumption DEF Wakes, Given
    <3>2. CASE OSTCBPrio[u] \notin ps
      <4>1. /\ OSTCBStat'[u] = OSTCBStat[u] /\ OSTCBStatPend'[u] = OSTCBStatPend[u]
            /\ OSTCBMsg'[u] = OSTCBMsg[u]
        BY <1>4, <1>t, <2>2, <3>2 DEF Wakes, MsgRdy, OS_EventTaskRdy
      <4> QED
        BY <2>1, <4>1 DEF Given, GivenInv
    <3> QED
      BY <3>1, <3>2
  <2> QED
    BY <2>3, <2>4 DEF GivenInv
<1> QED
  BY <1>1, <1>2, <1>3, <1>4 DEF KernelPart

\* A timeout makes no task one that was given a message, and takes none back.
LEMMA KernelGiven ==
  ASSUME CoreTypeInv, ListInv, GivenInv, Kernel, OSTCBMsg' = OSTCBMsg
  PROVE  GivenInv'
<1> USE DEF CoreTypeInv, TypeOK
<1>t. \A u \in Task : u \in AllTask
  BY DEF AllTask
<1>1. CASE PendSV_Handler \/ MsgTick \/ SysTickExit
  BY <1>1 DEF PendSV_Handler, MsgTick, SysTickExit, tcbVars, callVars, GivenInv, Given, InPendCall
<1>2. ASSUME NEW t \in Task, OS_Sched(t)
      PROVE  GivenInv'
  <2>1. \A u \in Task : InPendCall(u)' <=> InPendCall(u)
    BY <1>2, <1>t DEF OS_Sched, InPendCall
  <2> QED
    BY <1>2, <2>1 DEF OS_Sched, tcbVars, GivenInv, Given
<1>3. CASE OSTimeTick
  <2>1. PICK T \in SUBSET Task : DlyEnds(T) /\ \A t \in T : OSTCBDly[t] # 0
    BY <1>3 DEF OSTimeTick
  <2>2. ASSUME NEW u \in Task
        PROVE  Given(u)' <=> Given(u)
    <3>1. InPendCall(u)' <=> InPendCall(u)
      BY <1>3 DEF OSTimeTick, callVars, InPendCall
    <3>2. CASE u \in T
      <4>1. InPendCall(u) => "PEND" \in OSTCBStat[u]
        BY <2>1, <3>2 DEF ListInv, PendInv
      <4>2. InPendCall(u) => OSTCBStatPend'[u] = "TO"
        BY <1>t, <2>1, <3>2, <4>1 DEF DlyEnds
      <4> QED
        BY <3>1, <4>1, <4>2 DEF Given
    <3>3. CASE u \notin T
      BY <1>t, <2>1, <3>1, <3>3 DEF DlyEnds, Given
    <3> QED
      BY <3>2, <3>3
  <2> QED
    BY <2>2 DEF GivenInv
<1> QED
  BY <1>1, <1>2, <1>3 DEF Kernel

-----------------------------------------------------------------------------
(* The ring of a queue and the pointer of a mailbox as one sequence         *)

Pointer == Msg \cup {Null}

StoreTypeOK ==
  /\ OSEventType \in [Event -> {"UNUSED", "MBOX", "Q"}]
  /\ OSEventPtr \in [Event -> Pointer]
  /\ OSQTbl \in [Event -> Ring]
  /\ OSQIn \in [Event -> 0..QSize - 1]
  /\ OSQOut \in [Event -> 0..QSize - 1]
  /\ OSQEntries \in [Event -> 0..QSize]

\* OSQIn is OSQEntries slots behind OSQOut.
RingInv == \A e \in Event : IsQueue(e) => OSQIn[e] = (OSQOut[e] + OSQEntries[e]) % QSize

StoreInv == StoreTypeOK /\ RingInv

\* A pointer that leaves the array at one end comes in at the other.
LEMMA Wraps ==
  ASSUME NEW o \in 0..QSize - 1, NEW k \in 0..QSize
  PROVE  /\ (o + k) % QSize = IF o + k < QSize THEN o + k ELSE o + k - QSize
         /\ (o + k) % QSize \in 0..QSize - 1
<1>0. QSize \in Nat /\ QSize > 0 /\ o \in Nat /\ k \in Nat /\ o + k \in Nat /\ o < QSize /\ k <= QSize
  BY MsgAssumption
<1> DEFINE q == (o + k) \div QSize
           r == (o + k) % QSize
<1>1. r \in 0..QSize - 1 /\ q \in Int
  BY <1>0
<1>2. \A m, n : m = q /\ n = r => o + k = QSize * m + n
  BY <1>0
<1>3. q \in Int /\ r \in 0..QSize - 1 /\ o + k = QSize * q + r
  BY <1>1, <1>2
<1> USE <1>0
<1> HIDE DEF q, r
<1>4. q = 0 \/ q = 1
  <2>1. q >= 0
    <3>1. ASSUME q <= -1 PROVE FALSE
      <4>1. QSize * q <= QSize * (-1)
        BY <1>3, <3>1
      <4> QED
        BY <1>3, <4>1
    <3> QED
      BY <1>3, <3>1
  <2>2. q <= 1
    <3>1. ASSUME q >= 2 PROVE FALSE
      <4>1. QSize * q >= QSize * 2
        BY <1>3, <3>1
      <4> QED
        BY <1>3, <4>1
    <3> QED
      BY <1>3, <3>1
  <2> QED
    BY <1>3, <2>1, <2>2
<1>5. r = IF o + k < QSize THEN o + k ELSE o + k - QSize
  BY <1>3, <1>4
<1> QED
  BY <1>1, <1>5 DEF r

LEMMA Steps ==
  ASSUME NEW i \in 0..QSize - 1
  PROVE  /\ Next1(i) \in 0..QSize - 1 /\ Next1(i) = (i + 1) % QSize
         /\ Prev1(i) \in 0..QSize - 1
<1>1. 1 \in 0..QSize /\ QSize \in Nat
  BY MsgAssumption
<1>2. (i + 1) % QSize = IF i + 1 < QSize THEN i + 1 ELSE i + 1 - QSize
  BY <1>1, Wraps
<1> QED
  BY <1>1, <1>2 DEF Next1, Prev1

LEMMA ContentsOf ==
  ASSUME NEW e \in Event
  PROVE  /\ OSEventType[e] = "UNUSED" => Contents(e) = <<>>
         /\ IsMbox(e) => Contents(e) = IF OSEventPtr[e] = Null THEN <<>> ELSE <<OSEventPtr[e]>>
         /\ IsQueue(e) => Contents(e) =
              [i \in 1..OSQEntries[e] |-> OSQTbl[e][(OSQOut[e] + i - 1) % QSize]]
BY DEF Contents, IsMbox, IsQueue

LEMMA ContentsOfNext ==
  ASSUME NEW e \in Event
  PROVE  /\ OSEventType'[e] = "UNUSED" => Contents(e)' = <<>>
         /\ IsMbox(e)' => Contents(e)' = IF OSEventPtr'[e] = Null THEN <<>>
                                                                  ELSE <<OSEventPtr'[e]>>
         /\ IsQueue(e)' => Contents(e)' =
              [i \in 1..OSQEntries'[e] |-> OSQTbl'[e][(OSQOut'[e] + i - 1) % QSize]]
BY DEF Contents, IsMbox, IsQueue

\* The i-th message of a queue.
LEMMA SlotTyped ==
  ASSUME StoreTypeOK, NEW e \in Event, NEW i \in 1..OSQEntries[e]
  PROVE  /\ (OSQOut[e] + i - 1) % QSize \in 0..QSize - 1
         /\ OSQTbl[e][(OSQOut[e] + i - 1) % QSize] \in Pointer
<1>1. i - 1 \in 0..QSize /\ OSQOut[e] \in 0..QSize - 1 /\ OSQOut[e] + i - 1 = OSQOut[e] + (i - 1)
  BY MsgAssumption DEF StoreTypeOK
<1>2. (OSQOut[e] + i - 1) % QSize \in 0..QSize - 1
  BY <1>1, Wraps
<1> QED
  BY <1>2 DEF StoreTypeOK, Ring, Pointer

LEMMA ContentsTyped ==
  ASSUME StoreTypeOK, NEW e \in Event
  PROVE  /\ Contents(e) \in Seq(Pointer)
         /\ IsQueue(e) => Len(Contents(e)) = OSQEntries[e]
         /\ IsMbox(e) => Len(Contents(e)) = IF OSEventPtr[e] = Null THEN 0 ELSE 1
         /\ OSEventType[e] # "UNUSED" => (HasMsg(e) <=> Contents(e) # <<>>)
<1>1. CASE OSEventType[e] = "UNUSED"
  <2>1. Contents(e) = <<>> /\ ~IsQueue(e) /\ ~IsMbox(e)
    BY <1>1, ContentsOf DEF IsQueue, IsMbox
  <2> QED
    BY <1>1, <2>1
<1>2. CASE IsMbox(e)
  <2>1. /\ Contents(e) = IF OSEventPtr[e] = Null THEN <<>> ELSE <<OSEventPtr[e]>>
        /\ OSEventPtr[e] \in Pointer /\ ~IsQueue(e)
        /\ HasMsg(e) <=> OSEventPtr[e] # Null
    BY <1>2, ContentsOf DEF IsQueue, IsMbox, HasMsg, StoreTypeOK
  <2>2. CASE OSEventPtr[e] = Null
    <3>1. Contents(e) = <<>>
      BY <2>1, <2>2
    <3> QED
      BY <2>1, <2>2, <3>1
  <2>3. CASE OSEventPtr[e] # Null
    <3>1. Contents(e) = <<OSEventPtr[e]>>
      BY <2>1, <2>3
    <3>2. Contents(e) \in Seq(Pointer) /\ Len(Contents(e)) = 1 /\ Contents(e) # <<>>
      BY <2>1, <3>1
    <3> QED
      BY <2>1, <2>3, <3>2
  <2> QED
    BY <2>2, <2>3
<1>3. CASE IsQueue(e)
  <2>1. /\ Contents(e) = [i \in 1..OSQEntries[e] |-> OSQTbl[e][(OSQOut[e] + i - 1) % QSize]]
        /\ OSQEntries[e] \in Nat
    BY <1>3, ContentsOf DEF StoreTypeOK
  <2>2. \A i \in 1..OSQEntries[e] : OSQTbl[e][(OSQOut[e] + i - 1) % QSize] \in Pointer
    BY SlotTyped
  <2>3. Contents(e) \in Seq(Pointer) /\ Len(Contents(e)) = OSQEntries[e]
    BY <2>1, <2>2
  <2>4. Contents(e) = <<>> <=> OSQEntries[e] = 0
    BY <2>3
  <2> QED
    BY <1>3, <2>1, <2>3, <2>4 DEF IsQueue, IsMbox, HasMsg
<1> QED
  BY <1>1, <1>2, <1>3 DEF StoreTypeOK, IsMbox, IsQueue


\* Two different positions are two different slots.
LEMMA SlotsApart ==
  ASSUME NEW o \in 0..QSize - 1, NEW i \in 0..QSize - 1, NEW j \in 0..QSize - 1,
         (o + i) % QSize = (o + j) % QSize
  PROVE  i = j
<1>1. QSize \in Nat /\ i \in 0..QSize /\ j \in 0..QSize
  BY MsgAssumption
<1>2. /\ (o + i) % QSize = IF o + i < QSize THEN o + i ELSE o + i - QSize
      /\ (o + j) % QSize = IF o + j < QSize THEN o + j ELSE o + j - QSize
  BY <1>1, Wraps
<1> QED
  BY <1>1, <1>2

LEMMA FromNext ==
  ASSUME NEW o \in 0..QSize - 1, NEW k \in 0..QSize - 1
  PROVE  (Next1(o) + k) % QSize = (o + (k + 1)) % QSize
<1>1. QSize \in Nat /\ k \in 0..QSize /\ k + 1 \in 0..QSize /\ Next1(o) \in 0..QSize - 1
  BY MsgAssumption, Steps
<1>2. (Next1(o) + k) % QSize = IF Next1(o) + k < QSize THEN Next1(o) + k
                                                      ELSE Next1(o) + k - QSize
  BY <1>1, Wraps
<1>3. (o + (k + 1)) % QSize = IF o + (k + 1) < QSize THEN o + (k + 1) ELSE o + (k + 1) - QSize
  BY <1>1, Wraps
<1> QED
  BY <1>1, <1>2, <1>3 DEF Next1

LEMMA FromPrev ==
  ASSUME NEW o \in 0..QSize - 1, NEW k \in 0..QSize - 1
  PROVE  (Prev1(o) + (k + 1)) % QSize = (o + k) % QSize
<1>1. QSize \in Nat /\ Prev1(o) \in 0..QSize - 1
  BY MsgAssumption, Steps
<1>2. Next1(Prev1(o)) = o
  BY <1>1 DEF Next1, Prev1
<1> QED
  BY <1>1, <1>2, FromNext

\* Position p of a queue.
Slot(e, p) == (OSQOut[e] + (p - 1)) % QSize

QueueView(e) ==
  /\ Contents(e) \in Seq(Pointer)
  /\ Len(Contents(e)) = OSQEntries[e]
  /\ \A p \in 1..OSQEntries[e] : Contents(e)[p] = OSQTbl[e][Slot(e, p)]

LEMMA QueueContents == StoreTypeOK => \A e \in Event : IsQueue(e) => QueueView(e)
<1> SUFFICES ASSUME StoreTypeOK, NEW e \in Event, IsQueue(e)
             PROVE  QueueView(e)
  OBVIOUS
<1>1. Contents(e) \in Seq(Pointer) /\ Len(Contents(e)) = OSQEntries[e]
  BY ContentsTyped
<1>2. Contents(e) = [i \in 1..OSQEntries[e] |-> OSQTbl[e][(OSQOut[e] + i - 1) % QSize]]
  BY ContentsOf
<1>3. ASSUME NEW p \in 1..OSQEntries[e]
      PROVE  OSQOut[e] + p - 1 = OSQOut[e] + (p - 1)
  BY DEF StoreTypeOK
<1> QED
  BY <1>1, <1>2, <1>3 DEF Slot, QueueView

LEMMA QueueContentsNext == StoreTypeOK' => \A e \in Event : IsQueue(e)' => QueueView(e)'
<1>1. (StoreTypeOK => \A e \in Event : IsQueue(e) => QueueView(e))'
  BY QueueContents, PTL
<1> QED
  BY <1>1


-----------------------------------------------------------------------------
(* What the services do to the sequence *)

LEMMA SameContents ==
  ASSUME NEW e \in Event, OSEventType'[e] = OSEventType[e], OSEventPtr'[e] = OSEventPtr[e],
         OSQTbl'[e] = OSQTbl[e], OSQOut'[e] = OSQOut[e], OSQEntries'[e] = OSQEntries[e]
  PROVE  Contents(e)' = Contents(e)
BY DEF Contents, IsMbox, IsQueue

\* All events but e keep their messages.
Others(e) == \A f \in Event : f # e => Contents(f)' = Contents(f)

LEMMA RemoveEffect ==
  ASSUME StoreInv, NEW e \in Event, OSEventType[e] # "UNUSED", HasMsg(e),
         Remove(e), OSEventType' = OSEventType
  PROVE  /\ StoreInv' /\ Others(e)
         /\ Contents(e) # <<>> /\ FirstMsg(e) = Contents(e)[1]
         /\ Contents(e)' = Tail(Contents(e))
<1> USE DEF StoreInv, StoreTypeOK
<1>1. CASE IsMbox(e)
  <2>1. /\ OSEventPtr' = [OSEventPtr EXCEPT ![e] = Null] /\ UNCHANGED qVars
        /\ OSEventPtr[e] # Null /\ FirstMsg(e) = OSEventPtr[e]
    BY <1>1 DEF Remove, HasMsg, FirstMsg
  <2>2. Contents(e) = <<OSEventPtr[e]>> /\ Contents(e)' = <<>>
    BY <1>1, <2>1, ContentsOf, ContentsOfNext DEF IsMbox
  <2>3. StoreInv'
    BY <2>1 DEF qVars, Pointer, RingInv, IsQueue
  <2>4. Others(e)
    BY <2>1, SameContents DEF qVars, Others
  <2>5. Contents(e) # <<>> /\ Contents(e)[1] = OSEventPtr[e] /\ Tail(Contents(e)) = <<>>
    BY <2>2
  <2> QED
    BY <2>1, <2>2, <2>3, <2>4, <2>5
<1>2. CASE ~IsMbox(e)
  <2> DEFINE n == OSQEntries[e]
             o == OSQOut[e]
  <2>1. IsQueue(e) /\ IsQueue(e)'
    BY <1>2 DEF IsQueue, IsMbox
  <2>2. n \in 1..QSize /\ o \in 0..QSize - 1 /\ QSize \in Nat \ {0}
    BY <1>2, MsgAssumption DEF HasMsg
  <2>3. /\ OSQOut' = [OSQOut EXCEPT ![e] = Next1(o)]
        /\ OSQTbl' = [OSQTbl EXCEPT ![e] = [OSQTbl[e] EXCEPT ![o] = Null]]
        /\ OSQEntries' = [OSQEntries EXCEPT ![e] = n - 1]
        /\ UNCHANGED <<OSEventPtr, OSQIn>>
    BY <1>2 DEF Remove, boxVars
  <2>4. Next1(o) \in 0..QSize - 1
    BY <2>2, Steps
  <2>5. StoreTypeOK'
    BY <2>2, <2>3, <2>4 DEF Ring
  <2>6. RingInv'
    <3>1. (Next1(o) + (n - 1)) % QSize = (o + n) % QSize
      <4>1. n - 1 \in 0..QSize - 1 /\ (n - 1) + 1 = n
        BY <2>2
      <4> QED
        BY <2>2, <4>1, FromNext
    <3> QED
      BY <2>3, <3>1 DEF RingInv, IsQueue
  <2>7. QueueView(e) /\ QueueView(e)'
    BY <2>1, <2>5, QueueContents, QueueContentsNext
  <2>8. OSQEntries'[e] = n - 1
    BY <2>3
  <2>9. Contents(e) # <<>> /\ Contents(e)[1] = FirstMsg(e)
    <3>1. Len(Contents(e)) # 0 /\ Contents(e)[1] = OSQTbl[e][Slot(e, 1)]
      BY <2>2, <2>7 DEF QueueView
    <3>2. Slot(e, 1) = o
      <4>1. (o + 0) % QSize = o
        BY <2>2, Wraps
      <4> QED
        BY <4>1 DEF Slot
    <3> QED
      BY <1>2, <3>1, <3>2 DEF FirstMsg
  <2>10. /\ Tail(Contents(e)) \in Seq(Pointer) /\ Len(Tail(Contents(e))) = n - 1
         /\ \A i \in 1..n - 1 : Tail(Contents(e))[i] = Contents(e)[i + 1]
    BY <2>2, <2>7, <2>9, HeadTailProperties DEF QueueView
  <2>11. ASSUME NEW i \in 1..n - 1
         PROVE  Contents(e)'[i] = Tail(Contents(e))[i]
    <3>1. i - 1 \in 0..QSize - 1 /\ i \in 0..QSize - 1 /\ i - 1 + 1 = i /\ 0 \in 0..QSize - 1
      BY <2>2
    <3>2. Slot(e, i)' = (o + i) % QSize
      <4>1. (Next1(o) + (i - 1)) % QSize = (o + (i - 1 + 1)) % QSize
        BY <2>2, <3>1, FromNext
      <4> QED
        BY <2>3, <3>1, <4>1 DEF Slot
    <3>3. Slot(e, i + 1) = (o + i) % QSize
      <4>1. i + 1 - 1 = i
        OBVIOUS
      <4> QED
        BY <4>1 DEF Slot
    <3>4. (o + i) % QSize # o /\ (o + i) % QSize \in 0..QSize - 1
      <4>1. (o + 0) % QSize = o
        BY <2>2, Wraps
      <4>2. i \in 0..QSize
        BY <2>2
      <4>3. (o + i) % QSize \in 0..QSize - 1
        BY <2>2, <4>2, Wraps
      <4> QED
        BY <2>2, <3>1, <4>1, <4>3, SlotsApart
    <3>5. OSQTbl'[e][(o + i) % QSize] = OSQTbl[e][(o + i) % QSize]
      BY <2>3, <3>4 DEF Ring
    <3>6. Contents(e)'[i] = OSQTbl'[e][(o + i) % QSize]
      BY <2>7, <2>8, <3>2 DEF QueueView
    <3>7. Contents(e)[i + 1] = OSQTbl[e][(o + i) % QSize]
      BY <2>2, <2>7, <3>3 DEF QueueView
    <3> QED
      BY <2>10, <3>5, <3>6, <3>7
  <2>12. Contents(e)' = Tail(Contents(e))
    <3>1. Contents(e)' \in Seq(Pointer) /\ Len(Contents(e)') = n - 1
      BY <2>7, <2>8 DEF QueueView
    <3> QED
      BY <2>10, <2>11, <3>1, SeqEqual
  <2>13. Others(e)
    BY <2>3, SameContents DEF Others
  <2> QED
    BY <2>5, <2>6, <2>9, <2>12, <2>13
<1> QED
  BY <1>1, <1>2


LEMMA InsertEffect ==
  ASSUME StoreInv, NEW e \in Event, OSEventType[e] # "UNUSED", ~IsFull(e), NEW msg \in Msg,
         Insert(e, msg), OSEventType' = OSEventType
  PROVE  /\ StoreInv' /\ Others(e)
         /\ Contents(e)' = Append(Contents(e), msg)
         /\ Len(Contents(e)) < IF IsMbox(e) THEN 1 ELSE QSize
<1> USE DEF StoreInv, StoreTypeOK
<1>1. CASE IsMbox(e)
  <2>1. /\ OSEventPtr' = [OSEventPtr EXCEPT ![e] = msg] /\ UNCHANGED qVars
        /\ OSEventPtr[e] = Null /\ msg # Null
    BY <1>1, MsgAssumption DEF Insert, IsFull
  <2>2. Contents(e) = <<>> /\ Contents(e)' = <<msg>>
    BY <1>1, <2>1, ContentsOf, ContentsOfNext DEF IsMbox
  <2>3. StoreInv'
    BY <2>1 DEF qVars, Pointer, RingInv, IsQueue
  <2>4. Others(e)
    BY <2>1, SameContents DEF qVars, Others
  <2>5. Contents(e)' = Append(Contents(e), msg) /\ Len(Contents(e)) = 0
    BY <2>2
  <2> QED
    BY <1>1, <2>3, <2>4, <2>5
<1>2. CASE ~IsMbox(e)
  <2> DEFINE n == OSQEntries[e]
             o == OSQOut[e]
             h == OSQIn[e]
  <2>1. IsQueue(e) /\ IsQueue(e)'
    BY <1>2 DEF IsQueue, IsMbox
  <2>2. n \in 0..QSize - 1 /\ o \in 0..QSize - 1 /\ QSize \in Nat \ {0}
    BY <1>2, MsgAssumption DEF IsFull
  <2>3. /\ OSQIn' = [OSQIn EXCEPT ![e] = Next1(h)]
        /\ OSQTbl' = [OSQTbl EXCEPT ![e] = [OSQTbl[e] EXCEPT ![h] = msg]]
        /\ OSQEntries' = [OSQEntries EXCEPT ![e] = n + 1]
        /\ UNCHANGED <<OSEventPtr, OSQOut>>
    BY <1>2 DEF Insert, boxVars
  <2>4. h \in 0..QSize - 1 /\ h = (o + n) % QSize /\ Next1(h) \in 0..QSize - 1
    BY <2>1, Steps DEF RingInv
  <2>5. StoreTypeOK'
    BY <2>2, <2>3, <2>4 DEF Ring
  <2>6. RingInv'
    <3>1. Next1(h) = (o + (n + 1)) % QSize
      <4>1. /\ n \in 0..QSize /\ n + 1 \in 0..QSize
        BY <2>2
      <4>2. h = IF o + n < QSize THEN o + n ELSE o + n - QSize
        BY <2>2, <2>4, <4>1, Wraps
      <4>3. (o + (n + 1)) % QSize = IF o + (n + 1) < QSize THEN o + (n + 1)
                                                          ELSE o + (n + 1) - QSize
        BY <2>2, <4>1, Wraps
      <4> QED
        BY <2>2, <4>2, <4>3 DEF Next1
    <3> QED
      BY <2>3, <3>1 DEF RingInv, IsQueue
  <2>7. QueueView(e) /\ QueueView(e)'
    BY <2>1, <2>5, QueueContents, QueueContentsNext
  <2>8. OSQEntries'[e] = n + 1
    BY <2>3
  <2>9. msg \in Pointer
    BY DEF Pointer
  <2>10. /\ Append(Contents(e), msg) \in Seq(Pointer)
         /\ Len(Append(Contents(e), msg)) = n + 1
         /\ \A i \in 1..n + 1 : Append(Contents(e), msg)[i] = IF i <= n THEN Contents(e)[i] ELSE msg
    BY <2>2, <2>7, <2>9, AppendProperties DEF QueueView
  <2>11. ASSUME NEW i \in 1..n + 1
         PROVE  Contents(e)'[i] = Append(Contents(e), msg)[i]
    <3>1. i - 1 \in 0..QSize - 1 /\ i - 1 \in 0..QSize /\ n \in 0..QSize - 1
      BY <2>2
    <3>2. Slot(e, i)' = (o + (i - 1)) % QSize /\ Slot(e, i) = (o + (i - 1)) % QSize
      BY <2>3 DEF Slot
    <3>3. (o + (i - 1)) % QSize \in 0..QSize - 1
      BY <2>2, <3>1, Wraps
    <3>4. Contents(e)'[i] = OSQTbl'[e][(o + (i - 1)) % QSize]
      BY <2>7, <2>8, <3>2 DEF QueueView
    <3>5. CASE i = n + 1
      <4>1. i - 1 = n
        BY <2>2, <3>5
      <4>2. OSQTbl'[e][h] = msg
        BY <2>3, <2>4 DEF Ring
      <4> QED
        <5>1. Contents(e)'[i] = msg
          BY <2>4, <3>4, <4>1, <4>2
        <5>2. ~(i <= n) /\ Append(Contents(e), msg)[i] = msg
          BY <2>2, <2>10, <3>5
        <5> QED
          BY <5>1, <5>2
    <3>6. CASE i # n + 1
      <4>1. i \in 1..n /\ i - 1 # n
        BY <2>2, <3>6
      <4>2. (o + (i - 1)) % QSize # h
        BY <2>2, <2>4, <3>1, <4>1, SlotsApart
      <4>3. OSQTbl'[e][(o + (i - 1)) % QSize] = OSQTbl[e][(o + (i - 1)) % QSize]
        BY <2>3, <3>3, <4>2 DEF Ring
      <4>4. Contents(e)[i] = OSQTbl[e][(o + (i - 1)) % QSize]
        BY <2>7, <3>2, <4>1 DEF QueueView
      <4> QED
        BY <2>10, <3>4, <4>1, <4>3, <4>4
    <3> QED
      BY <3>5, <3>6
  <2>12. Contents(e)' = Append(Contents(e), msg)
    <3>1. Contents(e)' \in Seq(Pointer) /\ Len(Contents(e)') = n + 1
      BY <2>7, <2>8 DEF QueueView
    <3> QED
      BY <2>10, <2>11, <3>1, SeqEqual
  <2>13. Others(e)
    BY <2>3, SameContents DEF Others
  <2>14. Len(Contents(e)) < QSize
    BY <2>2, <2>7 DEF QueueView
  <2> QED
    BY <1>2, <2>5, <2>6, <2>12, <2>13, <2>14
<1> QED
  BY <1>1, <1>2

LEMMA InsertFrontEffect ==
  ASSUME StoreInv, NEW e \in Event, IsQueue(e), ~IsFull(e), NEW msg \in Msg,
         InsertFront(e, msg), OSEventType' = OSEventType
  PROVE  /\ StoreInv' /\ Others(e)
         /\ Contents(e)' = <<msg>> \o Contents(e)
         /\ Len(Contents(e)) < QSize
<1> USE DEF StoreInv, StoreTypeOK
<1> DEFINE n == OSQEntries[e]
           o == OSQOut[e]
           m == Prev1(o)
<1>1. IsQueue(e)'
  BY DEF IsQueue
<1>2. n \in 0..QSize - 1 /\ o \in 0..QSize - 1 /\ QSize \in Nat \ {0}
  BY MsgAssumption DEF IsFull, IsMbox, IsQueue
<1>3. m \in 0..QSize - 1
  BY <1>2, Steps
<1>4. /\ OSQOut' = [OSQOut EXCEPT ![e] = m]
      /\ OSQTbl' = [OSQTbl EXCEPT ![e] = [OSQTbl[e] EXCEPT ![m] = msg]]
      /\ OSQEntries' = [OSQEntries EXCEPT ![e] = n + 1]
      /\ UNCHANGED <<OSEventPtr, OSQIn>>
  BY DEF InsertFront, boxVars
<1>5. StoreTypeOK'
  BY <1>2, <1>3, <1>4 DEF Ring
<1>6. RingInv'
  <2>1. (m + (n + 1)) % QSize = (o + n) % QSize
    BY <1>2, FromPrev
  <2> QED
    BY <1>4, <2>1 DEF RingInv, IsQueue
<1>7. QueueView(e) /\ QueueView(e)'
  BY <1>1, <1>5, QueueContents, QueueContentsNext
<1>8. OSQEntries'[e] = n + 1
  BY <1>4
<1>9. <<msg>> \in Seq(Pointer) /\ Len(<<msg>>) = 1 /\ <<msg>>[1] = msg
  BY DEF Pointer
<1>10. /\ <<msg>> \o Contents(e) \in Seq(Pointer)
       /\ Len(<<msg>> \o Contents(e)) = n + 1
       /\ \A i \in 1..n + 1 :
            (<<msg>> \o Contents(e))[i] = IF i <= 1 THEN msg ELSE Contents(e)[i - 1]
  <2>1. Contents(e) \in Seq(Pointer) /\ Len(Contents(e)) = n /\ 1 + n = n + 1
    BY <1>2, <1>7 DEF QueueView
  <2> HIDE DEF n
  <2>2. /\ <<msg>> \o Contents(e) \in Seq(Pointer)
        /\ Len(<<msg>> \o Contents(e)) = Len(<<msg>>) + Len(Contents(e))
        /\ \A i \in 1..Len(<<msg>>) + Len(Contents(e)) :
             (<<msg>> \o Contents(e))[i] = IF i <= Len(<<msg>>) THEN <<msg>>[i]
                                                     ELSE Contents(e)[i - Len(<<msg>>)]
    BY <1>9, <2>1, ConcatProperties
  <2>3. \A i \in 1..1 + n : (<<msg>> \o Contents(e))[i] = IF i <= 1 THEN <<msg>>[i]
                                                     ELSE Contents(e)[i - 1]
    BY <1>9, <2>1, <2>2
  <2>4. \A i \in 1..n + 1 : (<<msg>> \o Contents(e))[i] = IF i <= 1 THEN msg
                                                     ELSE Contents(e)[i - 1]
    BY <2>1, <2>3
  <2> QED
    BY <1>9, <2>1, <2>2, <2>4
<1>11. ASSUME NEW i \in 1..n + 1
       PROVE  Contents(e)'[i] = (<<msg>> \o Contents(e))[i]
  <2>1. Slot(e, i)' = (m + (i - 1)) % QSize
    BY <1>4 DEF Slot
  <2>2. Contents(e)'[i] = OSQTbl'[e][(m + (i - 1)) % QSize]
    BY <1>7, <1>8, <2>1 DEF QueueView
  <2>3. (m + 0) % QSize = m
    BY <1>2, <1>3, Wraps
  <2>4. CASE i = 1
    <3>1. i - 1 = 0
      BY <2>4
    <3>2. OSQTbl'[e][m] = msg
      BY <1>3, <1>4 DEF Ring
    <3>3. Contents(e)'[i] = msg
      BY <2>2, <2>3, <3>1, <3>2
    <3> QED
      BY <1>10, <2>4, <3>3
  <2>5. CASE i # 1
    <3>1. /\ i - 1 \in 1..n /\ i - 2 \in 0..QSize - 1 /\ i - 2 + 1 = i - 1 /\ i - 1 - 1 = i - 2
          /\ i - 1 \in 0..QSize - 1 /\ i - 1 # 0 /\ 0 \in 0..QSize - 1 /\ i - 1 \in 0..QSize
          /\ ~(i <= 1)
      BY <1>2, <2>5
    <3>2. (m + (i - 2 + 1)) % QSize = (o + (i - 2)) % QSize
      BY <1>2, <3>1, FromPrev
    <3>3. Slot(e, i - 1) = (m + (i - 1)) % QSize
      BY <3>1, <3>2 DEF Slot
    <3>4. (m + (i - 1)) % QSize \in 0..QSize - 1
      BY <1>3, <3>1, Wraps
    <3>5. (m + (i - 1)) % QSize # m
      BY <1>3, <2>3, <3>1, SlotsApart
    <3>6. OSQTbl'[e][(m + (i - 1)) % QSize] = OSQTbl[e][(m + (i - 1)) % QSize]
      BY <1>4, <3>4, <3>5 DEF Ring
    <3>7. Contents(e)[i - 1] = OSQTbl[e][(m + (i - 1)) % QSize]
      BY <1>7, <3>1, <3>3 DEF QueueView
    <3> QED
      BY <1>10, <2>2, <3>1, <3>6, <3>7
  <2> QED
    BY <2>4, <2>5
<1>12. Contents(e)' = <<msg>> \o Contents(e)
  <2>1. Contents(e)' \in Seq(Pointer) /\ Len(Contents(e)') = n + 1
    BY <1>7, <1>8 DEF QueueView
  <2> QED
    BY <1>10, <1>11, <2>1, SeqEqual
<1>13. Others(e)
  BY <1>4, SameContents DEF Others
<1>14. Len(Contents(e)) < QSize
  BY <1>2, <1>7 DEF QueueView
<1> QED
  BY <1>5, <1>6, <1>12, <1>13, <1>14


LEMMA FlushEffect ==
  ASSUME StoreInv, NEW t \in Task, NEW e \in Event, OSQFlush(t, e)
  PROVE  /\ StoreInv' /\ Others(e)
         /\ Contents(e)' = <<>>
<1> USE DEF StoreInv, StoreTypeOK
<1>1. /\ IsQueue(e) /\ QSize \in Nat \ {0} /\ EmptyRing \in Ring
      /\ OSQIn' = [OSQIn EXCEPT ![e] = 0]
      /\ OSQOut' = [OSQOut EXCEPT ![e] = 0]
      /\ OSQEntries' = [OSQEntries EXCEPT ![e] = 0]
      /\ OSQTbl' = [OSQTbl EXCEPT ![e] = EmptyRing]
      /\ UNCHANGED <<OSEventType, OSEventPtr>>
  BY MsgAssumption DEF OSQFlush, boxVars, EmptyRing, Ring
<1>2. StoreTypeOK'
  BY <1>1
<1>3. RingInv'
  <2>1. 0 \in 0..QSize - 1 /\ 0 \in 0..QSize /\ QSize \in Nat
    BY <1>1
  <2>2. (0 + 0) % QSize = IF 0 + 0 < QSize THEN 0 + 0 ELSE 0 + 0 - QSize
    BY <2>1, Wraps
  <2>3. (0 + 0) % QSize = 0
    BY <1>1, <2>2
  <2> QED
    BY <1>1, <2>3 DEF RingInv, IsQueue
<1>4. Contents(e)' = <<>>
  <2>1. QueueView(e)'
    BY <1>1, <1>2, QueueContentsNext DEF IsQueue
  <2>2. Contents(e)' \in Seq(Pointer) /\ Len(Contents(e)') = 0
    BY <1>1, <2>1 DEF QueueView
  <2> QED
    BY <2>2
<1>5. Others(e)
  BY <1>1, SameContents DEF Others
<1> QED
  BY <1>2, <1>3, <1>4, <1>5

LEMMA CreateEffect ==
  ASSUME StoreInv, NEW t \in Task, NEW e \in Event, NEW type \in {"MBOX", "Q"},
         NEW msg \in Pointer, Create(t, e, type, msg)
  PROVE  /\ StoreInv' /\ Others(e)
         /\ Contents(e) = <<>>
         /\ Contents(e)' = IF type = "MBOX" /\ msg # Null THEN <<msg>> ELSE <<>>
<1> USE DEF StoreInv, StoreTypeOK
<1>1. /\ QSize \in Nat \ {0} /\ EmptyRing \in Ring
      /\ OSEventType[e] = "UNUSED"
      /\ OSEventType' = [OSEventType EXCEPT ![e] = type]
      /\ OSEventPtr' = [OSEventPtr EXCEPT ![e] = IF type = "MBOX" THEN msg ELSE Null]
      /\ OSQIn' = [OSQIn EXCEPT ![e] = 0]
      /\ OSQOut' = [OSQOut EXCEPT ![e] = 0]
      /\ OSQEntries' = [OSQEntries EXCEPT ![e] = 0]
      /\ OSQTbl' = [OSQTbl EXCEPT ![e] = EmptyRing]
  BY MsgAssumption DEF Create, EmptyRing, Ring
<1>2. StoreTypeOK'
  BY <1>1 DEF Pointer
<1>3. RingInv'
  <2>1. 0 \in 0..QSize - 1 /\ 0 \in 0..QSize /\ QSize \in Nat
    BY <1>1
  <2>2. (0 + 0) % QSize = IF 0 + 0 < QSize THEN 0 + 0 ELSE 0 + 0 - QSize
    BY <2>1, Wraps
  <2>3. (0 + 0) % QSize = 0
    BY <1>1, <2>2
  <2> QED
    BY <1>1, <2>3 DEF RingInv, IsQueue
<1>4. CASE type = "MBOX"
  <2>1. IsMbox(e)' /\ OSEventPtr'[e] = msg
    BY <1>1, <1>4 DEF IsMbox
  <2>2. Contents(e)' = IF msg = Null THEN <<>> ELSE <<msg>>
    BY <2>1, ContentsOfNext
  <2>3. Contents(e) = <<>>
    BY <1>1, ContentsOf
  <2>4. Others(e)
    BY <1>1, SameContents DEF Others
  <2> QED
    BY <1>2, <1>3, <1>4, <2>2, <2>3, <2>4
<1>5. CASE type = "Q"
  <2>1. QueueView(e)'
    BY <1>1, <1>2, <1>5, QueueContentsNext DEF IsQueue
  <2>2. Contents(e)' \in Seq(Pointer) /\ Len(Contents(e)') = 0
    BY <1>1, <2>1 DEF QueueView
  <2>3. Contents(e)' = <<>> /\ type # "MBOX"
    BY <1>5, <2>2
  <2>4. Contents(e) = <<>>
    BY <1>1, ContentsOf
  <2>5. Others(e)
    BY <1>1, SameContents DEF Others
  <2> QED
    BY <1>2, <1>3, <2>3, <2>4, <2>5
<1> QED
  BY <1>4, <1>5

LEMMA DeleteEffect ==
  ASSUME StoreInv, NEW t \in Task, NEW e \in Event, NEW opt, Delete(t, e, opt)
  PROVE  /\ StoreInv' /\ Others(e)
         /\ OSEventType' = [OSEventType EXCEPT ![e] = "UNUSED"]
         /\ Contents(e)' = <<>>
<1>1. /\ OSEventType' = [OSEventType EXCEPT ![e] = "UNUSED"]
      /\ UNCHANGED <<OSEventPtr, OSQTbl, OSQIn, OSQOut, OSQEntries>>
  BY DEF Delete, storeVars, boxVars, qVars
<1>2. StoreInv'
  BY <1>1 DEF StoreInv, StoreTypeOK, RingInv, IsQueue
<1>3. Contents(e)' = <<>>
  BY <1>1, ContentsOfNext DEF StoreInv, StoreTypeOK
<1>4. Others(e)
  BY <1>1, SameContents DEF Others, StoreInv, StoreTypeOK
<1> QED
  BY <1>1, <1>2, <1>3, <1>4

LEMMA UntouchedStore ==
  ASSUME StoreInv, UNCHANGED <<OSEventType, storeVars>>
  PROVE  StoreInv' /\ \A e \in Event : Contents(e)' = Contents(e)
<1>1. UNCHANGED <<OSEventType, OSEventPtr, OSQTbl, OSQIn, OSQOut, OSQEntries>>
  BY DEF storeVars, boxVars, qVars
<1>2. \A e \in Event : Contents(e)' = Contents(e)
  BY <1>1, SameContents
<1> QED
  BY <1>1, <1>2 DEF StoreInv, StoreTypeOK, RingInv, IsQueue

\* A post hands its message to who waits, or keeps it.
Keeps(e, msg) ==
  /\ OSEventTbl[e] = {} /\ Others(e)
  /\ Contents(e)' \in {Append(Contents(e), msg), <<msg>> \o Contents(e)}
  /\ Len(Contents(e)) < IF IsMbox(e) THEN 1 ELSE QSize
  /\ Quiet

Hands(t, e, msg) ==
  /\ OSEventTbl[e] # {}
  /\ \E ps \in {OSEventTbl[e], {Highest(OSEventTbl[e])}} : Wakes(t, e, ps, msg, "OK")
  /\ \A f \in Event : Contents(f)' = Contents(f)

LEMMA PostEffect ==
  ASSUME CoreTypeInv, StoreInv, NEW t \in Task, NEW e \in Event, NEW msg \in Msg, NEW opt,
         PostOpt(t, e, msg, opt)
  PROVE  /\ StoreInv' /\ OSEventType' = OSEventType /\ OSEventType[e] # "UNUSED"
         /\ Keeps(e, msg) \/ Hands(t, e, msg)
         /\ "BROADCAST" \notin opt /\ OSEventTbl[e] # {} =>
              Wakes(t, e, {Highest(OSEventTbl[e])}, msg, "OK")
<1>1. OSEventType' = OSEventType /\ OSEventType[e] # "UNUSED"
  BY DEF PostOpt, Calls
<1>2. CASE OSEventTbl[e] # {}
  <2> DEFINE ps == IF "BROADCAST" \in opt THEN OSEventTbl[e] ELSE {Highest(OSEventTbl[e])}
  <2>1. Wakes(t, e, ps, msg, "OK")
    <3>1. ps \subseteq OSEventTbl[e]
      BY <1>2, WaiterTyped
    <3>2. /\ MsgRdy(e, ps, msg, "OK")
          /\ pc' \in {pc, [pc EXCEPT ![t] = "sched"]}
          /\ InTask(t)
          /\ UNCHANGED <<swVars, nestVars, OSTCBPrio, pevent>>
      BY <1>2 DEF PostOpt, Calls
    <3> QED
      BY <3>1, <3>2 DEF Wakes
  <2>2. UNCHANGED <<OSEventType, storeVars>>
    BY <1>2 DEF PostOpt
  <2>3. StoreInv' /\ \A f \in Event : Contents(f)' = Contents(f)
    BY <2>2, UntouchedStore
  <2>4. Hands(t, e, msg)
    BY <1>2, <2>1, <2>3 DEF Hands
  <2> QED
    BY <1>1, <2>1, <2>3, <2>4
<1>3. CASE OSEventTbl[e] = {}
  <2>1. /\ ~IsFull(e) /\ Quiet
        /\ IF "FRONT" \in opt /\ IsQueue(e) THEN InsertFront(e, msg) ELSE Insert(e, msg)
    BY <1>3 DEF PostOpt, Quiet, coreVars, callVars
  <2>2. CASE "FRONT" \in opt /\ IsQueue(e)
    <3>1. /\ StoreInv' /\ Others(e)
          /\ Contents(e)' = <<msg>> \o Contents(e)
          /\ Len(Contents(e)) < QSize
      BY <1>1, <2>1, <2>2, InsertFrontEffect
    <3>2. ~IsMbox(e)
      BY <2>2 DEF IsMbox, IsQueue
    <3> QED
      BY <1>1, <1>3, <2>1, <3>1, <3>2 DEF Keeps
  <2>3. CASE ~("FRONT" \in opt /\ IsQueue(e))
    <3>1. /\ StoreInv' /\ Others(e)
          /\ Contents(e)' = Append(Contents(e), msg)
          /\ Len(Contents(e)) < IF IsMbox(e) THEN 1 ELSE QSize
      BY <1>1, <2>1, <2>3, InsertEffect
    <3> QED
      BY <1>1, <1>3, <2>1, <3>1 DEF Keeps
  <2> QED
    BY <2>2, <2>3
<1> QED
  BY <1>2, <1>3

LEMMA TakeEffect ==
  ASSUME StoreInv, NEW t \in Task, NEW e \in Event, PendTake(t, e) \/ Accept(t, e)
  PROVE  /\ StoreInv' /\ Others(e) /\ Quiet /\ OSEventType' = OSEventType
         /\ OSEventType[e] # "UNUSED"
         /\ Contents(e) # <<>> /\ FirstMsg(e) = Contents(e)[1]
         /\ Contents(e)' = Tail(Contents(e))
<1>1. /\ OSEventType[e] # "UNUSED" /\ HasMsg(e) /\ Remove(e) /\ Quiet
      /\ OSEventType' = OSEventType
  BY DEF PendTake, Accept, Calls, Quiet
<1> QED
  BY <1>1, RemoveEffect


-----------------------------------------------------------------------------
(* The invariant of the kernel and the channels *)

ChanInv == /\ CoreTypeInv /\ RunInv /\ ListInv /\ GivenInv
           /\ UnusedInv /\ StoreInv

LEMMA ChanInit == Init => ChanInv
<1> SUFFICES ASSUME Init PROVE ChanInv
  OBVIOUS
<1>1. CoreTypeInv /\ RunInv /\ ListInv
  BY InitRuns DEF Init, MsgInit
<1>2. GivenInv
  BY <1>1 DEF Init, MsgInit, CoreInit, GivenInv, Given, InPendCall, CoreTypeInv, TypeOK, AllTask
<1>3. UnusedInv
  BY DEF Init, MsgInit, CoreInit, UnusedInv
<1>4. StoreInv
  BY MsgAssumption
  DEF Init, MsgInit, StoreInv, StoreTypeOK, RingInv, IsQueue, EmptyRing, Ring, Pointer
<1> QED
  BY <1>1, <1>2, <1>3, <1>4 DEF ChanInv

\* Only a delete and a create change the type of an event.
LEMMA SameTypeUnused ==
  ASSUME CoreTypeInv, UnusedInv, NEW t \in Task, KernelPart(t), OSEventType' = OSEventType
  PROVE  UnusedInv'
<1> USE DEF CoreTypeInv, TypeOK
<1>1. CASE Quiet
  BY <1>1 DEF Quiet, coreVars, UnusedInv
<1>2. CASE Returns(t)
  BY <1>2 DEF Returns, PendEnds, OS_EventTaskRemove, UnusedInv
<1>3. ASSUME NEW e \in Event, NEW n \in 0..MaxTicks, Blocks(t, e, n)
      PROVE  UnusedInv'
  BY <1>3 DEF Blocks, PendWaits, OS_EventTaskWait, UnusedInv
<1>4. ASSUME NEW e \in Event, NEW msg, NEW r, NEW ps, Wakes(t, e, ps, msg, r)
      PROVE  UnusedInv'
  BY <1>4 DEF Wakes, MsgRdy, OS_EventTaskRdy, UnusedInv
<1> QED
  BY <1>1, <1>2, <1>3, <1>4 DEF KernelPart

LEMMA TaskStore ==
  ASSUME ChanInv, NEW t \in Task, PoolTask(t)
  PROVE  UnusedInv' /\ StoreInv'
<1> USE DEF ChanInv
<1>k. KernelPart(t)
  BY KernelParts
<1>s. ASSUME UNCHANGED <<OSEventType, storeVars>>
      PROVE  UnusedInv' /\ StoreInv'
  BY <1>s, <1>k, UntouchedStore, SameTypeUnused
<1>1. CASE GetBlock(t)
  BY <1>1, <1>s DEF GetBlock, msgVars
<1>2. CASE ReturnMsg(t)
  BY <1>2, <1>s DEF ReturnMsg, PendEnd
<1>3. ASSUME NEW b \in Block, PutBlock(t, b)
      PROVE  UnusedInv' /\ StoreInv'
  BY <1>3, <1>s DEF PutBlock, msgVars
<1>4. ASSUME NEW e \in Event, TakeMsg(t, e)
      PROVE  UnusedInv' /\ StoreInv'
  BY <1>4, <1>k, TakeEffect, SameTypeUnused DEF TakeMsg
<1>5. ASSUME NEW e \in Event, Flush(t, e)
      PROVE  UnusedInv' /\ StoreInv'
  BY <1>5, <1>k, FlushEffect, SameTypeUnused DEF Flush, OSQFlush
<1>6. ASSUME NEW e \in Event, DeleteChan(t, e)
      PROVE  UnusedInv' /\ StoreInv'
  <2>1. PICK opt : Delete(t, e, opt)
    BY <1>6 DEF DeleteChan
  <2>2. StoreInv' /\ OSEventType' = [OSEventType EXCEPT ![e] = "UNUSED"]
    BY <2>1, DeleteEffect
  <2>3. OSEventTbl' = [OSEventTbl EXCEPT ![e] = {}]
    BY <2>1 DEF Delete, MsgRdy, OS_EventTaskRdy, CoreTypeInv, TypeOK
  <2> QED
    BY <2>2, <2>3 DEF UnusedInv, StoreInv, StoreTypeOK, CoreTypeInv, TypeOK
<1>7. ASSUME NEW e \in Event, NEW type \in {"MBOX", "Q"}, CreateChan(t, e, type)
      PROVE  UnusedInv' /\ StoreInv'
  <2>1. PICK msg \in {Null, Note} : Create(t, e, type, msg)
    BY <1>7 DEF CreateChan
  <2>2. msg \in Pointer
    BY PoolAssumption DEF Pointer
  <2>3. StoreInv'
    BY <2>1, <2>2, CreateEffect
  <2>4. UnusedInv'
    BY <2>1 DEF Create, UnusedInv, CoreTypeInv, TypeOK, StoreInv, StoreTypeOK
  <2> QED
    BY <2>3, <2>4
<1>8. ASSUME NEW e \in Event, NEW msg \in Msg, NEW opt, PostOpt(t, e, msg, opt)
      PROVE  UnusedInv' /\ StoreInv'
  BY <1>8, <1>k, PostEffect, SameTypeUnused
<1>9. ASSUME NEW e \in Event, NEW b \in Block, NEW opt, PostBlock(t, e, b, opt)
      PROVE  UnusedInv' /\ StoreInv'
  BY <1>9, <1>8, PoolAssumption DEF PostBlock
<1>10. ASSUME NEW e \in Event, NEW opt, PostNote(t, e, opt)
       PROVE  UnusedInv' /\ StoreInv'
  BY <1>10, <1>8, PoolAssumption DEF PostNote
<1>11. ASSUME NEW e \in Event, NEW n \in 0..MaxTicks, PendWait(t, e, n)
       PROVE  UnusedInv' /\ StoreInv'
  BY <1>11, <1>s DEF PendWait
<1>12. ASSUME NEW e \in Event, NEW opt, PendAbort(t, e, opt)
       PROVE  UnusedInv' /\ StoreInv'
  BY <1>12, <1>s DEF PendAbort
<1> QED
  BY <1>1, <1>2, <1>3, <1>4, <1>5, <1>6, <1>7, <1>9, <1>10, <1>11, <1>12 DEF PoolTask

LEMMA KernelLeavesLists ==
  ASSUME Kernel
  PROVE  OSEventTbl' = OSEventTbl /\ OSTCBPrio' = OSTCBPrio
BY DEF Kernel, PendSV_Handler, MsgTick, OSTimeTick, DlyEnds, SysTickExit, OS_Sched, tcbVars

LEMMA ChanNext == ChanInv /\ [Next]_poolVars => ChanInv'
<1> SUFFICES ASSUME ChanInv, [Next]_poolVars PROVE ChanInv'
  OBVIOUS
<1> USE DEF ChanInv
<1>1. CASE UNCHANGED poolVars
  <2>1. /\ UNCHANGED <<coreVars, OSTCBMsg, OSEventType, storeVars>>
    BY <1>1 DEF poolVars, msgVars
  <2>2. CoreTypeInv' /\ RunInv' /\ GivenInv' /\ UnusedInv'
    BY <2>1 DEF coreVars, swVars, nestVars, tcbVars, callVars, CoreTypeInv, TypeOK, PrioInv,
       PrioMapOK, RunInv, NestInv, GivenInv, Given, InPendCall, UnusedInv
  <2>3. ListInv'
    BY <2>1, SameLists DEF coreVars, tcbVars, callVars, InPendCall
  <2> QED
    BY <2>1, <2>2, <2>3, UntouchedStore
<1>2. CASE Kernel /\ UNCHANGED <<OSTCBMsg, OSEventType, storeVars>>
  <2>1. UnusedInv'
    BY <1>2, KernelLeavesLists DEF UnusedInv
  <2> QED
    BY <1>2, <2>1, KernelTyped, KernelRuns, KernelLists, KernelGiven, UntouchedStore
<1>3. ASSUME NEW t \in Task, PoolTask(t)
      PROVE  ChanInv'
  BY <1>3, KernelParts, TaskTyped, TaskRuns, TaskLists, TaskGiven, TaskStore
<1> QED
  BY <1>1, <1>2, <1>3 DEF Next

LEMMA AlwaysChan == Spec => []ChanInv
BY ChanInit, ChanNext, PTL DEF Spec

LEMMA PoolNextKeepsPrio ==
  ASSUME [Next]_poolVars, ChanInv
  PROVE  OSTCBPrio' = OSTCBPrio
<1>1. CASE UNCHANGED poolVars
  BY <1>1 DEF poolVars, msgVars, coreVars
<1>2. ASSUME NEW t \in Task, PoolTask(t)
      PROVE  OSTCBPrio' = OSTCBPrio
  <2>1. KernelPart(t)
    BY <1>2, KernelParts DEF ChanInv
  <2> QED
    BY <2>1 DEF KernelPart, Quiet, coreVars, Returns, PendEnds, Blocks, PendWaits, Wakes
<1> QED
  BY <1>1, <1>2, KernelLeavesLists DEF Next

\* Nothing in OSPool changes a priority.
LEMMA PoolAlwaysFixed == Spec => []FixedPrio
<1>1. Init => FixedPrio
  BY DEF Init, MsgInit, CoreInit, FixedPrio
<1>2. ChanInv /\ FixedPrio /\ [Next]_poolVars => FixedPrio'
  BY PoolNextKeepsPrio DEF FixedPrio
<1> QED
  BY <1>1, <1>2, AlwaysChan, PTL DEF Spec


-----------------------------------------------------------------------------
(* The list of free blocks *)

Free == ListFrom(OSMemFreeList, OSMemNFree)

IsWalk(b, n, f) == f = [i \in 0..n |-> IF i = 0 THEN b
                                       ELSE IF f[i - 1] = Nil THEN Nil ELSE link[f[i - 1]]]

LEMMA NBlksTyped == NBlks \in Nat /\ NBlks > 0
<1>1. NBlks \in Nat
  BY FS_CardinalityType, MemAssumption DEF NBlks
<1>2. NBlks # 0
  BY FS_EmptySet, MemAssumption DEF NBlks
<1> QED
  BY <1>1, <1>2

\* The links can be followed as far as one likes: the recursion of ListFrom
\* defines a function.
LEMMA WalkExists ==
  ASSUME NEW b, NEW n \in Nat
  PROVE  \E f : IsWalk(b, n, f)
<1> USE DEF IsWalk
<1> DEFINE P(m) == \E f : f = [i \in 0..m |-> IF i = 0 THEN b
                                  ELSE IF f[i - 1] = Nil THEN Nil ELSE link[f[i - 1]]]
           Bad == {m \in Nat : ~P(m)}
<1>1. SUFFICES ASSUME Bad # {} PROVE FALSE
  OBVIOUS
<1>2. PICK m \in Bad : \A k \in Bad : m <= k
  <2>1. Bad \subseteq Nat
    OBVIOUS
  <2> HIDE DEF Bad
  <2> QED
    BY <1>1, <2>1, LeastExists
<1>3. m \in Nat /\ ~P(m)
  OBVIOUS
<1>4. CASE m = 0
  <2> DEFINE f == [i \in 0..m |-> b]
  <2>1. f = [i \in 0..m |-> IF i = 0 THEN b
                             ELSE IF f[i - 1] = Nil THEN Nil ELSE link[f[i - 1]]]
    BY <1>4
  <2> QED
    BY <1>3, <2>1
<1>5. CASE m # 0
  <2>1. m - 1 \in Nat /\ ~(m <= m - 1)
    BY <1>3, <1>5
  <2>2. P(m - 1)
    BY <1>2, <2>1
  <2>3. PICK f : f = [i \in 0..m - 1 |-> IF i = 0 THEN b
                                 ELSE IF f[i - 1] = Nil THEN Nil ELSE link[f[i - 1]]]
    BY <2>2
  <2> DEFINE g == [i \in 0..m |-> IF i = 0 THEN b
                                  ELSE IF f[i - 1] = Nil THEN Nil ELSE link[f[i - 1]]]
  <2>4. ASSUME NEW i \in 0..m - 1
        PROVE  g[i] = f[i]
    <3>1. i \in 0..m
      BY <1>3
    <3>2. f[i] = IF i = 0 THEN b ELSE IF f[i - 1] = Nil THEN Nil ELSE link[f[i - 1]]
      BY <2>3
    <3> QED
      BY <3>1, <3>2
  <2>5. ASSUME NEW i \in 0..m, i # 0
        PROVE  g[i - 1] = f[i - 1]
    <3>1. i - 1 \in 0..m - 1
      BY <1>3, <2>5
    <3> QED
      BY <2>4, <3>1
  <2>6. g = [i \in 0..m |-> IF i = 0 THEN b
                            ELSE IF g[i - 1] = Nil THEN Nil ELSE link[g[i - 1]]]
    <3>1. \A i \in 0..m : g[i] = IF i = 0 THEN b
                                 ELSE IF g[i - 1] = Nil THEN Nil ELSE link[g[i - 1]]
      BY <2>5
    <3>2. g = [i \in 0..m |-> g[i]]
      OBVIOUS
    <3> HIDE DEF g
    <3> QED
      BY <3>1, <3>2
  <2> HIDE DEF g
  <2>7. P(m)
    BY <2>6
  <2> QED
    BY <1>3, <2>7
<1> QED
  BY <1>4, <1>5

LEMMA ListSteps ==
  ASSUME NEW b, NEW n \in 0..NBlks
  PROVE  LET s == ListFrom(b, n) IN
         /\ s = [i \in 1..n |-> s[i]]
         /\ n > 0 => s[1] = b
         /\ \A i \in 1..n - 1 : s[i + 1] = IF s[i] = Nil THEN Nil ELSE link[s[i]]
<1> DEFINE at == CHOOSE f : IsWalk(b, NBlks, f)
           s == ListFrom(b, n)
<1>n. NBlks \in Nat
  BY NBlksTyped
<1>1. \E f : IsWalk(b, NBlks, f)
  BY <1>n, WalkExists
<1>2. IsWalk(b, NBlks, at)
  <2>1. PICK f : IsWalk(b, NBlks, f)
    BY <1>1
  <2> QED
    BY <2>1
<1>3. s = [i \in 1..n |-> at[i - 1]]
  BY DEF ListFrom, IsWalk
<1> HIDE DEF at, s
<1>4. \A i \in 0..NBlks : at[i] = IF i = 0 THEN b ELSE IF at[i - 1] = Nil THEN Nil
                                                       ELSE link[at[i - 1]]
  BY <1>2 DEF IsWalk
<1>5. n > 0 => s[1] = b
  BY <1>n, <1>3, <1>4
<1>6. ASSUME NEW i \in 1..n - 1
      PROVE  s[i + 1] = IF s[i] = Nil THEN Nil ELSE link[s[i]]
  <2>1. i \in 1..n /\ i + 1 \in 1..n /\ i + 1 - 1 = i /\ i \in 0..NBlks /\ i # 0
    BY <1>n
  <2>2. s[i + 1] = at[i] /\ s[i] = at[i - 1]
    BY <1>3, <2>1
  <2> QED
    BY <1>4, <2>1, <2>2
<1> QED
  BY <1>3, <1>5, <1>6 DEF s


FreeView ==
  /\ Free = [i \in 1..OSMemNFree |-> Free[i]]
  /\ OSMemNFree > 0 => Free[1] = OSMemFreeList
  /\ \A i \in 1..OSMemNFree - 1 : Free[i + 1] = IF Free[i] = Nil THEN Nil ELSE link[Free[i]]

LEMMA FreeSteps == OSMemNFree \in 0..NBlks => FreeView
BY ListSteps DEF Free, FreeView

LEMMA FreeStepsNext == OSMemNFree' \in 0..NBlks => FreeView'
<1>1. (OSMemNFree \in 0..NBlks => FreeView)'
  BY FreeSteps, PTL
<1> QED
  BY <1>1

\* s is OSMemNFree blocks, each linked to the next, from the head of the list.
Linked(s) ==
  /\ OSMemNFree \in 0..NBlks
  /\ s \in [1..OSMemNFree -> Block]
  /\ OSMemNFree > 0 => s[1] = OSMemFreeList
  /\ \A i \in 1..OSMemNFree - 1 : link[s[i]] = s[i + 1]

LEMMA FreeIs == \A s : Linked(s) => Free = s
<1> SUFFICES ASSUME NEW s, Linked(s) PROVE Free = s
  OBVIOUS
<1> DEFINE n == OSMemNFree
           Bad == {i \in 1..n : Free[i] # s[i]}
<1>1. FreeView
  BY FreeSteps DEF Linked
<1>2. n \in Nat
  BY NBlksTyped DEF Linked
<1>3. SUFFICES ASSUME Bad # {} PROVE FALSE
  <2>1. \A i \in 1..n : Free[i] = s[i]
    BY <1>3
  <2>2. s = [i \in 1..n |-> s[i]]
    BY DEF Linked
  <2> QED
    BY <1>1, <2>1, <2>2 DEF FreeView
<1>4. PICK m \in Bad : \A k \in Bad : m <= k
  <2>1. Bad \subseteq Nat
    BY <1>2
  <2> HIDE DEF Bad
  <2> QED
    BY <1>3, <2>1, LeastExists
<1>5. m \in 1..n /\ Free[m] # s[m]
  OBVIOUS
<1>6. m # 1
  BY <1>1, <1>2, <1>5 DEF FreeView, Linked
<1>7. m - 1 \in 1..n - 1 /\ m - 1 \in 1..n /\ m - 1 + 1 = m /\ ~(m <= m - 1)
  BY <1>2, <1>5, <1>6
<1>8. Free[m - 1] = s[m - 1]
  BY <1>4, <1>7
<1>9. s[m - 1] \in Block /\ s[m - 1] # Nil
  BY <1>7, MemAssumption DEF Linked
<1>10. Free[m - 1 + 1] = link[s[m - 1]]
  BY <1>1, <1>7, <1>8, <1>9 DEF FreeView
<1>11. link[s[m - 1]] = s[m - 1 + 1]
  BY <1>7 DEF Linked
<1> QED
  BY <1>5, <1>7, <1>10, <1>11

LinkedNext(s) ==
  /\ OSMemNFree' \in 0..NBlks
  /\ s \in [1..OSMemNFree' -> Block]
  /\ OSMemNFree' > 0 => s[1] = OSMemFreeList'
  /\ \A i \in 1..OSMemNFree' - 1 : link'[s[i]] = s[i + 1]

LEMMA FreeIsNext == \A s : LinkedNext(s) => Free' = s
<1>1. (\A s : Linked(s) => Free = s)'
  BY FreeIs, PTL
<1> SUFFICES ASSUME NEW s, LinkedNext(s) PROVE Free' = s
  OBVIOUS
<1>2. Linked(s)'
  BY DEF Linked, LinkedNext
<1> QED
  BY <1>1, <1>2

\* The list has OSMemNFree different blocks and ends there.
FreeInv ==
  /\ MemTypeOK
  /\ \A i \in 1..OSMemNFree : Free[i] \in Block
  /\ \A i, j \in 1..OSMemNFree : Free[i] = Free[j] => i = j
  /\ IF OSMemNFree = 0 THEN OSMemFreeList = Nil ELSE link[Free[OSMemNFree]] = Nil

\* What FreeInv gives, and what establishes it in the next state.
LEMMA FreeFacts ==
  ASSUME FreeInv
  PROVE  /\ OSMemNFree \in Nat /\ OSMemNFree \in 0..NBlks /\ NBlks \in Nat
         /\ Free \in [1..OSMemNFree -> Block]
         /\ OSMemNFree > 0 => Free[1] = OSMemFreeList
         /\ \A i \in 1..OSMemNFree - 1 : link[Free[i]] = Free[i + 1]
<1>1. FreeView /\ NBlks \in Nat /\ OSMemNFree \in 0..NBlks
  BY FreeSteps, NBlksTyped DEF FreeInv, MemTypeOK
<1>3. Free \in [1..OSMemNFree -> Block]
  <2>1. \A i \in 1..OSMemNFree : Free[i] \in Block
    BY DEF FreeInv
  <2>2. Free = [i \in 1..OSMemNFree |-> Free[i]]
    BY <1>1 DEF FreeView
  <2> QED
    BY <2>1, <2>2
<1>4. OSMemNFree > 0 => Free[1] = OSMemFreeList
  BY <1>1 DEF FreeView
<1>5. ASSUME NEW i \in 1..OSMemNFree - 1
      PROVE  link[Free[i]] = Free[i + 1]
  <2>1. i \in 1..OSMemNFree
    BY <1>1
  <2>2. Free[i] \in Block /\ Free[i] # Nil
    BY <2>1, MemAssumption DEF FreeInv
  <2> QED
    BY <1>1, <2>2 DEF FreeView
<1> QED
  BY <1>1, <1>3, <1>4, <1>5

LEMMA FreeNext ==
  ASSUME NEW s, LinkedNext(s), MemTypeOK',
         \A i, j \in 1..OSMemNFree' : s[i] = s[j] => i = j,
         IF OSMemNFree' = 0 THEN OSMemFreeList' = Nil ELSE link'[s[OSMemNFree']] = Nil
  PROVE  FreeInv' /\ Free' = s
<1>1. Free' = s
  BY FreeIsNext
<1>2. \A i \in 1..OSMemNFree' : s[i] \in Block
  BY DEF LinkedNext
<1> QED
  BY <1>1, <1>2 DEF FreeInv

LEMMA GetFree ==
  ASSUME FreeInv, OSMemGet
  PROVE  /\ FreeInv' /\ OSMemFreeList = Free[1] /\ OSMemNFree \in Nat \ {0}
         /\ Free' = [i \in 1..OSMemNFree - 1 |-> Free[i + 1]]
<1> DEFINE n == OSMemNFree
           s == [i \in 1..n - 1 |-> Free[i + 1]]
<1>1. /\ n \in Nat \ {0} /\ n \in 0..NBlks /\ NBlks \in Nat
      /\ OSMemFreeList' = link[OSMemFreeList] /\ OSMemNFree' = n - 1 /\ link' = link
      /\ Free \in [1..n -> Block]
      /\ Free[1] = OSMemFreeList
      /\ \A i \in 1..n - 1 : link[Free[i]] = Free[i + 1]
  BY FreeFacts DEF OSMemGet
<1>2. \A i \in 1..n - 1 : i + 1 \in 1..n /\ s[i] = Free[i + 1]
  BY <1>1
<1>3. LinkedNext(s)
  <2>1. s \in [1..n - 1 -> Block]
    BY <1>1, <1>2
  <2>2. n - 1 > 0 => s[1] = link[OSMemFreeList]
    BY <1>1, <1>2
  <2>3. \A i \in 1..n - 1 - 1 : link[s[i]] = s[i + 1]
    BY <1>1, <1>2
  <2> HIDE DEF s
  <2> QED
    BY <1>1, <2>1, <2>2, <2>3 DEF LinkedNext
<1>4. MemTypeOK'
  BY <1>1 DEF FreeInv, MemTypeOK
<1>5. \A i, j \in 1..n - 1 : s[i] = s[j] => i = j
  <2> SUFFICES ASSUME NEW i \in 1..n - 1, NEW j \in 1..n - 1, s[i] = s[j]
               PROVE  i = j
    OBVIOUS
  <2>1. i + 1 = j + 1
    BY <1>2 DEF FreeInv
  <2> QED
    BY <1>1, <2>1
<1>6. IF n - 1 = 0 THEN link[OSMemFreeList] = Nil ELSE link[s[n - 1]] = Nil
  <2>1. link[Free[n]] = Nil
    BY <1>1 DEF FreeInv
  <2>2. CASE n - 1 = 0
    BY <1>1, <2>1, <2>2
  <2>3. CASE n - 1 # 0
    <3>1. n - 1 \in 1..n - 1 /\ n - 1 + 1 = n
      BY <1>1, <2>3
    <3> QED
      BY <1>2, <2>1, <2>3, <3>1
  <2> QED
    BY <2>2, <2>3
<1> HIDE DEF s
<1>7. FreeInv' /\ Free' = s
  BY <1>1, <1>3, <1>4, <1>5, <1>6, FreeNext
<1> QED
  BY <1>1, <1>7 DEF s

LEMMA PutFree ==
  ASSUME FreeInv, NEW b \in Block, \A i \in 1..OSMemNFree : Free[i] # b, OSMemPut(b)
  PROVE  /\ FreeInv' /\ OSMemNFree \in Nat /\ OSMemNFree' = OSMemNFree + 1
         /\ Free' = [i \in 1..OSMemNFree + 1 |-> IF i = 1 THEN b ELSE Free[i - 1]]
<1> DEFINE n == OSMemNFree
           s == [i \in 1..n + 1 |-> IF i = 1 THEN b ELSE Free[i - 1]]
<1>1. /\ n \in Nat /\ n < NBlks /\ NBlks \in Nat
      /\ OSMemFreeList' = b /\ OSMemNFree' = n + 1 /\ link' = [link EXCEPT ![b] = OSMemFreeList]
      /\ Free \in [1..n -> Block]
      /\ n > 0 => Free[1] = OSMemFreeList
      /\ \A i \in 1..n - 1 : link[Free[i]] = Free[i + 1]
      /\ link \in [Block -> Block \cup {Nil}] /\ OSMemFreeList \in Block \cup {Nil}
  BY FreeFacts DEF OSMemPut, FreeInv, MemTypeOK
<1>2. s[1] = b /\ \A i \in 1..n : s[i + 1] = Free[i] /\ link'[Free[i]] = link[Free[i]]
  BY <1>1
<1>s. \A i \in 2..n + 1 : i - 1 \in 1..n /\ s[i] = Free[i - 1]
  BY <1>1
<1>3. LinkedNext(s)
  <2>1. s \in [1..n + 1 -> Block]
    BY <1>1
  <2>2. \A i \in 1..n + 1 - 1 : link'[s[i]] = s[i + 1]
    <3> SUFFICES ASSUME NEW i \in 1..n PROVE link'[s[i]] = s[i + 1]
      BY <1>1
    <3>1. CASE i = 1
      <4>1. n > 0 /\ s[2] = Free[1] /\ link'[b] = OSMemFreeList
        BY <1>1, <1>2, <3>1
      <4> QED
        BY <1>1, <1>2, <3>1, <4>1
    <3>2. CASE i # 1
      <4>1. i - 1 \in 1..n - 1 /\ i \in 2..n + 1 /\ i - 1 + 1 = i
        BY <1>1, <3>2
      <4>2. s[i] = Free[i - 1] /\ link'[Free[i - 1]] = Free[i]
        BY <1>1, <1>2, <1>s, <4>1
      <4> QED
        BY <1>2, <4>2
    <3> QED
      BY <3>1, <3>2
  <2>3. OSMemNFree' \in 0..NBlks
    BY <1>1
  <2> HIDE DEF s
  <2> QED
    BY <1>1, <1>2, <2>1, <2>2, <2>3 DEF LinkedNext
<1>4. MemTypeOK'
  BY <1>1 DEF MemTypeOK
<1>5. \A i, j \in 1..n + 1 : s[i] = s[j] => i = j
  <2> SUFFICES ASSUME NEW i \in 1..n + 1, NEW j \in 1..n + 1, s[i] = s[j], i # j
               PROVE  FALSE
    OBVIOUS
  <2>1. CASE i = 1
    <3>1. j \in 2..n + 1
      BY <1>1, <2>1
    <3> QED
      BY <1>2, <1>s, <2>1, <3>1
  <2>2. CASE j = 1
    <3>1. i \in 2..n + 1
      BY <1>1, <2>2
    <3> QED
      BY <1>2, <1>s, <2>2, <3>1
  <2>3. CASE i # 1 /\ j # 1
    <3>1. i \in 2..n + 1 /\ j \in 2..n + 1
      BY <1>1, <2>3
    <3>2. i - 1 = j - 1
      BY <1>s, <3>1 DEF FreeInv
    <3> QED
      BY <1>1, <3>2
  <2> QED
    BY <2>1, <2>2, <2>3
<1>6. link'[s[n + 1]] = Nil
  <2>1. CASE n = 0
    <3>1. OSMemFreeList = Nil /\ n + 1 = 1
      BY <2>1 DEF FreeInv
    <3> QED
      BY <1>1, <1>2, <3>1
  <2>2. CASE n # 0
    <3>1. n \in 1..n /\ link[Free[n]] = Nil
      BY <1>1, <2>2 DEF FreeInv
    <3> QED
      BY <1>2, <3>1
  <2> QED
    BY <2>1, <2>2
<1>7. n + 1 # 0
  BY <1>1
<1> HIDE DEF s
<1>8. FreeInv' /\ Free' = s
  BY <1>1, <1>3, <1>4, <1>5, <1>6, <1>7, FreeNext
<1> QED
  BY <1>1, <1>8 DEF s

\* The owner of a block writes to it: the list does not go through it.
LEMMA WriteFree ==
  ASSUME FreeInv, NEW b \in Block, \A i \in 1..OSMemNFree : Free[i] # b,
         link' = [link EXCEPT ![b] = Nil], UNCHANGED <<OSMemFreeList, OSMemNFree>>
  PROVE  FreeInv' /\ Free' = Free
<1> DEFINE n == OSMemNFree
           s == Free
<1>1. /\ n \in Nat /\ n \in 0..NBlks /\ NBlks \in Nat
      /\ s \in [1..n -> Block]
      /\ n > 0 => s[1] = OSMemFreeList
      /\ \A i \in 1..n - 1 : link[s[i]] = s[i + 1]
  BY FreeFacts
<1>2. MemTypeOK'
  BY DEF FreeInv, MemTypeOK
<1>3. \A i \in 1..n : link'[s[i]] = link[s[i]]
  BY <1>1 DEF FreeInv, MemTypeOK
<1>4. IF n = 0 THEN OSMemFreeList = Nil ELSE link'[s[n]] = Nil
  <2>1. n # 0 => n \in 1..n
    BY <1>1
  <2> QED
    BY <1>3, <2>1 DEF FreeInv
<1>5. \A i, j \in 1..n : s[i] = s[j] => i = j
  BY DEF FreeInv
<1> HIDE DEF s
<1>6. LinkedNext(s)
  BY <1>1, <1>3 DEF LinkedNext
<1>7. FreeInv' /\ Free' = s
  BY <1>2, <1>4, <1>5, <1>6, FreeNext
<1> QED
  BY <1>7 DEF s

\* OSMemCreate links every block into the list: with as many places as there
\* are blocks, no block comes twice.
LEMMA InitFree ==
  ASSUME MemInit
  PROVE  FreeInv /\ \A b \in Block : \E i \in 1..OSMemNFree : Free[i] = b
<1> DEFINE n == OSMemNFree
<1>1. /\ n = NBlks /\ n \in Nat /\ n > 0 /\ OSMemFreeList \in Block
      /\ link \in [Block -> Block \cup {Nil}]
      /\ FreeBlocks = Block
      /\ link[Free[n]] = Nil
  BY NBlksTyped DEF MemInit, Free
<1>2. Free = [i \in 1..n |-> Free[i]]
  <2>1. OSMemNFree \in 0..NBlks
    BY <1>1
  <2> QED
    BY <2>1, FreeSteps DEF FreeView
<1>3. FreeBlocks = {Free[i] : i \in 1..n}
  BY DEF FreeBlocks, Free
<1>4. \A b \in Block : \E i \in 1..n : Free[i] = b
  BY <1>1, <1>3
<1>5. \A i \in 1..n : Free[i] \in Block
  BY <1>1, <1>3
<1>6. Free \in Surjection(1..n, Block)
  BY <1>2, <1>4, <1>5 DEF Surjection
<1>7. IsFiniteSet(1..n) /\ Cardinality(1..n) = n
  BY <1>1, FS_Interval
<1>8. Free \in Injection(1..n, Block)
  BY <1>1, <1>6, <1>7, FS_SurjSameCardinalityImpliesInj DEF NBlks
<1>9. \A i, j \in 1..n : Free[i] = Free[j] => i = j
  BY <1>8 DEF Injection, IsInjective
<1>10. MemTypeOK
  BY <1>1 DEF MemTypeOK
<1> QED
  BY <1>1, <1>4, <1>5, <1>9, <1>10 DEF FreeInv


-----------------------------------------------------------------------------
(* Where a block is *)

Holds(s, b) == \E i \in 1..Len(s) : s[i] = b
Once(s) == \A i, j \in 1..Len(s) : s[i] = s[j] /\ s[i] \in Block => i = j

LEMMA OnceTail ==
  ASSUME NEW s \in Seq(Pointer), s # <<>>, Once(s)
  PROVE  /\ Once(Tail(s))
         /\ \A b \in Block : Holds(Tail(s), b) <=> Holds(s, b) /\ b # s[1]
<1>1. /\ Len(s) \in Nat \ {0} /\ Len(Tail(s)) = Len(s) - 1
      /\ \A i \in 1..Len(s) - 1 : Tail(s)[i] = s[i + 1]
  BY HeadTailProperties, EmptySeq
<1>2. Once(Tail(s))
  <2> SUFFICES ASSUME NEW i \in 1..Len(s) - 1, NEW j \in 1..Len(s) - 1,
                      Tail(s)[i] = Tail(s)[j], Tail(s)[i] \in Block
               PROVE  i = j
    BY <1>1 DEF Once
  <2>1. i + 1 \in 1..Len(s) /\ j + 1 \in 1..Len(s) /\ s[i + 1] = s[j + 1] /\ s[i + 1] \in Block
    BY <1>1
  <2>2. i + 1 = j + 1
    BY <2>1 DEF Once
  <2> QED
    BY <1>1, <2>2
<1>3. ASSUME NEW b \in Block
      PROVE  Holds(Tail(s), b) <=> Holds(s, b) /\ b # s[1]
  <2>1. ASSUME NEW i \in 1..Len(s) - 1, Tail(s)[i] = b
        PROVE  Holds(s, b) /\ b # s[1]
    <3>1. i + 1 \in 1..Len(s) /\ s[i + 1] = b /\ 1 \in 1..Len(s) /\ i + 1 # 1
      BY <1>1, <2>1
    <3> QED
      BY <3>1 DEF Holds, Once
  <2>2. ASSUME NEW i \in 1..Len(s), s[i] = b, b # s[1]
        PROVE  Holds(Tail(s), b)
    <3>1. i - 1 \in 1..Len(s) - 1 /\ i - 1 + 1 = i
      BY <1>1, <2>2
    <3>2. Tail(s)[i - 1] = b
      BY <1>1, <2>2, <3>1
    <3> QED
      BY <1>1, <3>1, <3>2 DEF Holds
  <2> QED
    BY <1>1, <2>1, <2>2 DEF Holds
<1> QED
  BY <1>2, <1>3

LEMMA OnceAdd ==
  ASSUME NEW s \in Seq(Pointer), NEW m \in Pointer, Once(s), m \in Block => ~Holds(s, m),
         NEW r \in {Append(s, m), <<m>> \o s}
  PROVE  /\ Once(r)
         /\ \A b \in Block : Holds(r, b) <=> Holds(s, b) \/ b = m
<1> DEFINE n == Len(s)
<1>0. n \in Nat
  OBVIOUS
<1>1. CASE r = Append(s, m)
  <2>1. /\ Len(r) = n + 1 /\ r[n + 1] = m
        /\ \A i \in 1..n : r[i] = s[i]
    BY <1>0, <1>1, AppendProperties
  <2>2. Once(r)
    <3> SUFFICES ASSUME NEW i \in 1..n + 1, NEW j \in 1..n + 1, r[i] = r[j], r[i] \in Block
                 PROVE  i = j
      BY <2>1 DEF Once
    <3>1. CASE i \in 1..n /\ j \in 1..n
      BY <2>1, <3>1 DEF Once
    <3>2. CASE i = n + 1 \/ j = n + 1
      BY <1>0, <2>1, <3>2 DEF Holds
    <3> QED
      BY <1>0, <3>1, <3>2
  <2>3. ASSUME NEW b \in Block
        PROVE  Holds(r, b) <=> Holds(s, b) \/ b = m
    <3>1. ASSUME NEW i \in 1..n + 1, r[i] = b
          PROVE  Holds(s, b) \/ b = m
      <4>1. i = n + 1 \/ i \in 1..n
        BY <1>0
      <4> QED
        BY <2>1, <3>1, <4>1 DEF Holds
    <3>2. ASSUME NEW i \in 1..n, s[i] = b
          PROVE  Holds(r, b)
      <4>1. i \in 1..n + 1
        BY <1>0
      <4> QED
        BY <2>1, <3>2, <4>1 DEF Holds
    <3>3. n + 1 \in 1..n + 1
      BY <1>0
    <3>4. ASSUME b = m
          PROVE  Holds(r, b)
      BY <2>1, <3>3, <3>4 DEF Holds
    <3> QED
      BY <2>1, <3>1, <3>2, <3>4 DEF Holds
  <2> QED
    BY <2>2, <2>3
<1>2. CASE r = <<m>> \o s
  <2>1. /\ Len(r) = n + 1 /\ r[1] = m
        /\ \A i \in 2..n + 1 : r[i] = s[i - 1]
    <3>1. <<m>> \in Seq(Pointer) /\ Len(<<m>>) = 1 /\ <<m>>[1] = m
      OBVIOUS
    <3>2. /\ Len(r) = Len(<<m>>) + n
          /\ \A i \in 1..Len(<<m>>) + n : r[i] = IF i <= Len(<<m>>) THEN <<m>>[i]
                                                                    ELSE s[i - Len(<<m>>)]
      BY <1>2, <3>1, ConcatProperties
    <3>3. Len(r) = 1 + n /\ \A i \in 1..1 + n : r[i] = IF i <= 1 THEN <<m>>[i] ELSE s[i - 1]
      BY <3>1, <3>2
    <3> QED
      BY <1>0, <3>1, <3>3
  <2>2. Once(r)
    <3> SUFFICES ASSUME NEW i \in 1..n + 1, NEW j \in 1..n + 1, r[i] = r[j], r[i] \in Block
                 PROVE  i = j
      BY <2>1 DEF Once
    <3>0. \A k \in 2..n + 1 : k - 1 \in 1..n
      BY <1>0
    <3>1. CASE i \in 2..n + 1 /\ j \in 2..n + 1
      <4>1. i - 1 = j - 1
        BY <2>1, <3>0, <3>1 DEF Once
      <4> QED
        BY <1>0, <4>1
    <3>2. CASE i = 1 /\ j \in 2..n + 1
      BY <2>1, <3>0, <3>2 DEF Holds
    <3>3. CASE j = 1 /\ i \in 2..n + 1
      BY <2>1, <3>0, <3>3 DEF Holds
    <3> QED
      BY <1>0, <3>1, <3>2, <3>3
  <2>3. ASSUME NEW b \in Block
        PROVE  Holds(r, b) <=> Holds(s, b) \/ b = m
    <3>1. ASSUME NEW i \in 1..n + 1, r[i] = b
          PROVE  Holds(s, b) \/ b = m
      <4>1. i = 1 \/ (i \in 2..n + 1 /\ i - 1 \in 1..n)
        BY <1>0
      <4> QED
        BY <2>1, <3>1, <4>1 DEF Holds
    <3>2. ASSUME NEW i \in 1..n, s[i] = b
          PROVE  Holds(r, b)
      <4>1. i + 1 \in 2..n + 1 /\ i + 1 - 1 = i /\ i + 1 \in 1..n + 1
        BY <1>0
      <4>2. r[i + 1] = b
        BY <2>1, <3>2, <4>1
      <4> QED
        BY <2>1, <4>1, <4>2 DEF Holds
    <3>3. 1 \in 1..n + 1
      BY <1>0
    <3>4. ASSUME b = m
          PROVE  Holds(r, b)
      BY <2>1, <3>3, <3>4 DEF Holds
    <3> QED
      BY <2>1, <3>1, <3>2, <3>4 DEF Holds
  <2> QED
    BY <2>2, <2>3
<1> QED
  BY <1>1, <1>2

LEMMA OnceShort ==
  /\ Once(<<>>) /\ \A b : ~Holds(<<>>, b)
  /\ \A m : Once(<<m>>) /\ \A b : Holds(<<m>>, b) <=> b = m
BY DEF Once, Holds

IsFree(b)   == \E i \in 1..OSMemNFree : Free[i] = b
HeldBy(b)   == {t \in Task : b \in held[t]}
HandedTo(b) == {t \in Task : OSTCBMsg[t] = b}
KeptIn(b)   == {e \in Event : Holds(Contents(e), b)}

OnlyFree(b)      == IsFree(b) /\ HeldBy(b) = {} /\ HandedTo(b) = {} /\ KeptIn(b) = {} /\ b \notin dropped
OnlyHeld(b, t)   == ~IsFree(b) /\ HeldBy(b) = {t} /\ HandedTo(b) = {} /\ KeptIn(b) = {} /\ b \notin dropped
OnlyHanded(b, t) == ~IsFree(b) /\ HeldBy(b) = {} /\ HandedTo(b) = {t} /\ KeptIn(b) = {} /\ b \notin dropped
OnlyKept(b, e)   == ~IsFree(b) /\ HeldBy(b) = {} /\ HandedTo(b) = {} /\ KeptIn(b) = {e} /\ b \notin dropped
OnlyDropped(b)   == ~IsFree(b) /\ HeldBy(b) = {} /\ HandedTo(b) = {} /\ KeptIn(b) = {} /\ b \in dropped

OneHome(b) == \/ OnlyFree(b) \/ OnlyDropped(b)
              \/ \E t \in Task : OnlyHeld(b, t) \/ OnlyHanded(b, t)
              \/ \E e \in Event : OnlyKept(b, e)

HomeInv ==
  /\ held \in [Task -> SUBSET Block] /\ dropped \subseteq Block
  /\ FreeInv
  /\ \A e \in Event : Once(Contents(e))
  /\ \A b \in Block : OneHome(b)


LEMMA HomeOf ==
  ASSUME NEW b, OneHome(b)
  PROVE  /\ IsFree(b) => OnlyFree(b)
         /\ b \in dropped => OnlyDropped(b)
         /\ \A t \in Task : b \in held[t] => OnlyHeld(b, t)
         /\ \A t \in Task : OSTCBMsg[t] = b => OnlyHanded(b, t)
         /\ \A e \in Event : Holds(Contents(e), b) => OnlyKept(b, e)
<1>1. /\ \A t \in Task : b \in held[t] <=> t \in HeldBy(b)
      /\ \A t \in Task : OSTCBMsg[t] = b <=> t \in HandedTo(b)
      /\ \A e \in Event : Holds(Contents(e), b) <=> e \in KeptIn(b)
  BY DEF HeldBy, HandedTo, KeptIn
<1> QED
  BY <1>1 DEF OneHome, OnlyFree, OnlyDropped, OnlyHeld, OnlyHanded, OnlyKept

\* A block the step has nothing to do with.
LEMMA StaysHome ==
  ASSUME NEW b, OneHome(b), IsFree(b)' <=> IsFree(b), HeldBy(b)' = HeldBy(b),
         HandedTo(b)' = HandedTo(b), KeptIn(b)' = KeptIn(b), b \in dropped' <=> b \in dropped
  PROVE  OneHome(b)'
BY DEF OneHome, OnlyFree, OnlyDropped, OnlyHeld, OnlyHanded, OnlyKept

LEMMA SameMem ==
  ASSUME FreeInv, UNCHANGED memVars
  PROVE  FreeInv' /\ \A b : IsFree(b)' <=> IsFree(b)
<1>1. UNCHANGED <<OSMemFreeList, OSMemNFree, link>>
  BY DEF memVars
<1>2. Free' = Free
  BY <1>1 DEF Free, ListFrom
<1> QED
  BY <1>1, <1>2 DEF FreeInv, MemTypeOK, IsFree

LEMMA SameKept ==
  ASSUME \A e \in Event : Contents(e)' = Contents(e)
  PROVE  /\ \A b : KeptIn(b)' = KeptIn(b)
         /\ (\A e \in Event : Once(Contents(e))) => \A e \in Event : Once(Contents(e))'
<1>1. \A e \in Event : \A b : Holds(Contents(e), b)' <=> Holds(Contents(e), b)
  BY DEF Holds
<1>2. \A e \in Event : Once(Contents(e))' <=> Once(Contents(e))
  BY DEF Once
<1> QED
  BY <1>1, <1>2 DEF KeptIn

\* The messages of the tasks: a waiter that is woken had none.
LEMMA WakesHanded ==
  ASSUME ChanInv, NEW t \in Task, NEW e \in Event, NEW ps \in SUBSET OSEventTbl[e],
         NEW msg, NEW r, Wakes(t, e, ps, msg, r), NEW b \in Block
  PROVE  HandedTo(b)' = IF b = msg THEN HandedTo(b) \cup {u \in Task : OSTCBPrio[u] \in ps}
                                   ELSE HandedTo(b)
<1> USE DEF ChanInv
<1>t. \A u \in Task : u \in AllTask
  BY DEF AllTask
<1>1. OSTCBMsg' = [u \in AllTask |-> IF OSTCBPrio[u] \in ps THEN msg ELSE OSTCBMsg[u]]
  BY DEF Wakes, MsgRdy
<1>2. ASSUME NEW u \in Task, OSTCBPrio[u] \in ps
      PROVE  OSTCBMsg[u] # b
  <2>1. Waits(u, e)
    BY <1>2 DEF ListInv, WaitInv
  <2>2. ~Given(u)
    BY <2>1 DEF Waits, Given
  <2>3. OSTCBMsg[u] = Null /\ Null # b
    BY <2>2, PoolAssumption, MsgAssumption DEF GivenInv
  <2> QED
    BY <2>3
<1>3. \A u \in Task : OSTCBMsg'[u] = b <=> IF OSTCBPrio[u] \in ps THEN msg = b ELSE OSTCBMsg[u] = b
  BY <1>t, <1>1
<1> QED
  BY <1>2, <1>3 DEF HandedTo

\* A message that is not for all goes to one task.
LEMMA OneHighest ==
  ASSUME ChanInv, NEW e \in Event, OSEventTbl[e] # {}
  PROVE  /\ {Highest(OSEventTbl[e])} \in SUBSET OSEventTbl[e]
         /\ \E u \in Task : {v \in Task : OSTCBPrio[v] \in {Highest(OSEventTbl[e])}} = {u}
<1> USE DEF ChanInv
<1>t. \A u \in Task : u \in AllTask
  BY DEF AllTask
<1> DEFINE hp == Highest(OSEventTbl[e])
<1>1. hp \in OSEventTbl[e]
  BY WaiterTyped
<1>2. PICK u \in Task : OSTCBPrio[u] = hp
  BY <1>1 DEF ListInv, WaitInv
<1>3. \A v \in Task : OSTCBPrio[v] = hp <=> v = u
  BY <1>t, <1>2 DEF CoreTypeInv, PrioInv, PrioMapOK
<1> QED
  BY <1>1, <1>3

LEMMA OneHanded ==
  ASSUME ChanInv, NEW t \in Task, NEW e \in Event, NEW msg, OSEventTbl[e] # {},
         Wakes(t, e, {Highest(OSEventTbl[e])}, msg, "OK"),
         NEW u, {v \in Task : OSTCBPrio[v] \in {Highest(OSEventTbl[e])}} = {u}
  PROVE  \A c \in Block : HandedTo(c)' = IF c = msg THEN HandedTo(c) \cup {u} ELSE HandedTo(c)
<1> DEFINE ps == {Highest(OSEventTbl[e])}
<1>1. ps \in SUBSET OSEventTbl[e] /\ Wakes(t, e, ps, msg, "OK")
  BY OneHighest
<1>2. {v \in Task : OSTCBPrio[v] \in ps} = {u}
  OBVIOUS
<1> HIDE DEF ps
<1> SUFFICES ASSUME NEW c \in Block
             PROVE  HandedTo(c)' = IF c = msg THEN HandedTo(c) \cup {u} ELSE HandedTo(c)
  OBVIOUS
<1>3. HandedTo(c)' = IF c = msg THEN HandedTo(c) \cup {v \in Task : OSTCBPrio[v] \in ps}
                                ELSE HandedTo(c)
  BY <1>1, WakesHanded
<1> QED
  BY <1>2, <1>3

LEMMA SameHanded ==
  ASSUME UNCHANGED OSTCBMsg
  PROVE  \A b : HandedTo(b)' = HandedTo(b)
BY DEF HandedTo

LEMMA ReturnHanded ==
  ASSUME ChanInv, NEW t \in Task, Returns(t), NEW b \in Block
  PROVE  HandedTo(b)' = HandedTo(b) \ {t}
<1>t. \A u \in Task : u \in AllTask
  BY DEF AllTask
<1>1. \A u \in Task : OSTCBMsg'[u] = IF u = t THEN Null ELSE OSTCBMsg[u]
  BY <1>t DEF Returns, ChanInv, GivenInv
<1>2. Null # b
  BY PoolAssumption, MsgAssumption
<1> QED
  BY <1>1, <1>2 DEF HandedTo

LEMMA ReceiveHeld ==
  ASSUME held \in [Task -> SUBSET Block], NEW t \in Task, NEW msg, Receive(t, msg)
  PROVE  /\ held' \in [Task -> SUBSET Block]
         /\ \A b \in Block : HeldBy(b)' = IF b = msg THEN HeldBy(b) \cup {t} ELSE HeldBy(b)
<1>1. held' \in [Task -> SUBSET Block]
  BY DEF Receive
<1>2. ASSUME NEW b \in Block, NEW u \in Task
      PROVE  b \in held'[u] <=> b \in held[u] \/ (b = msg /\ u = t)
  BY DEF Receive
<1> QED
  BY <1>1, <1>2 DEF HeldBy

LEMMA LoseHeld ==
  ASSUME held \in [Task -> SUBSET Block], NEW t \in Task, NEW b,
         held' = [held EXCEPT ![t] = @ \ {b}]
  PROVE  /\ held' \in [Task -> SUBSET Block]
         /\ \A c \in Block : HeldBy(c)' = IF c = b THEN HeldBy(c) \ {t} ELSE HeldBy(c)
<1>1. held' \in [Task -> SUBSET Block]
  OBVIOUS
<1>2. ASSUME NEW c \in Block, NEW u \in Task
      PROVE  c \in held'[u] <=> c \in held[u] /\ ~(c = b /\ u = t)
  OBVIOUS
<1> QED
  BY <1>1, <1>2 DEF HeldBy

\* Adding a message to e, or taking its first.
LEMMA AddKept ==
  ASSUME ChanInv, NEW e \in Event, NEW m \in Msg, Others(e),
         \A d \in Event : Once(Contents(d)), m \in Block => ~Holds(Contents(e), m),
         Contents(e)' \in {Append(Contents(e), m), <<m>> \o Contents(e)}
  PROVE  /\ \A d \in Event : Once(Contents(d))'
         /\ \A b \in Block : KeptIn(b)' = IF b = m THEN KeptIn(b) \cup {e} ELSE KeptIn(b)
<1>1. Contents(e) \in Seq(Pointer) /\ m \in Pointer
  BY ContentsTyped DEF ChanInv, StoreInv, Pointer
<1>2. PICK r \in {Append(Contents(e), m), <<m>> \o Contents(e)} : Contents(e)' = r
  OBVIOUS
<1>3. Once(r) /\ \A b \in Block : Holds(r, b) <=> Holds(Contents(e), b) \/ b = m
  BY <1>1, OnceAdd
<1>4. Once(Contents(e))' /\ \A b \in Block : Holds(Contents(e), b)' <=> Holds(r, b)
  BY <1>2, <1>3 DEF Once, Holds
<1>5. ASSUME NEW d \in Event, d # e
      PROVE  Once(Contents(d))' /\ \A b \in Block : Holds(Contents(d), b)' <=> Holds(Contents(d), b)
  <2>1. Contents(d)' = Contents(d) /\ Once(Contents(d))
    BY <1>5 DEF Others
  <2> QED
    BY <2>1 DEF Once, Holds
<1>6. \A d \in Event : Once(Contents(d))'
  BY <1>4, <1>5
<1> QED
  BY <1>3, <1>4, <1>5, <1>6 DEF KeptIn

LEMMA TakeKept ==
  ASSUME ChanInv, NEW e \in Event, Others(e), \A d \in Event : Once(Contents(d)),
         Contents(e) # <<>>, Contents(e)' = Tail(Contents(e))
  PROVE  /\ \A d \in Event : Once(Contents(d))'
         /\ Holds(Contents(e), Contents(e)[1])
         /\ \A b \in Block : KeptIn(b)' = IF b = Contents(e)[1] THEN KeptIn(b) \ {e} ELSE KeptIn(b)
<1> DEFINE s == Contents(e)
<1>1. s \in Seq(Pointer) /\ Len(s) \in Nat \ {0}
  BY ContentsTyped, EmptySeq DEF ChanInv, StoreInv
<1>2. Once(Tail(s)) /\ \A b \in Block : Holds(Tail(s), b) <=> Holds(s, b) /\ b # s[1]
  BY <1>1, OnceTail
<1>3. Holds(s, s[1])
  BY <1>1 DEF Holds
<1>4. Once(Contents(e))' /\ \A b \in Block : Holds(Contents(e), b)' <=> Holds(Tail(s), b)
  BY <1>2 DEF Once, Holds
<1>5. ASSUME NEW d \in Event, d # e
      PROVE  Once(Contents(d))' /\ \A b \in Block : Holds(Contents(d), b)' <=> Holds(Contents(d), b)
  <2>1. Contents(d)' = Contents(d) /\ Once(Contents(d))
    BY <1>5 DEF Others
  <2> QED
    BY <2>1 DEF Once, Holds
<1>6. \A d \in Event : Once(Contents(d))'
  BY <1>4, <1>5
<1> QED
  BY <1>2, <1>3, <1>4, <1>5, <1>6 DEF KeptIn

\* e is emptied, or created with a message that is no block.
LEMMA EmptyKept ==
  ASSUME NEW e \in Event, Others(e), \A d \in Event : Once(Contents(d)),
         Contents(e)' = <<>> \/ \E m : m \notin Block /\ Contents(e)' = <<m>>
  PROVE  /\ \A d \in Event : Once(Contents(d))'
         /\ \A b \in Block : KeptIn(b)' = KeptIn(b) \ {e}
<1>1. Once(Contents(e))' /\ \A b \in Block : ~Holds(Contents(e), b)'
  BY OnceShort DEF Once, Holds
<1>5. ASSUME NEW d \in Event, d # e
      PROVE  Once(Contents(d))' /\ \A b \in Block : Holds(Contents(d), b)' <=> Holds(Contents(d), b)
  <2>1. Contents(d)' = Contents(d) /\ Once(Contents(d))
    BY <1>5 DEF Others
  <2> QED
    BY <2>1 DEF Once, Holds
<1>6. \A d \in Event : Once(Contents(d))'
  BY <1>1, <1>5
<1> QED
  BY <1>1, <1>5, <1>6 DEF KeptIn


-----------------------------------------------------------------------------
(* Every step keeps each block in one place *)

LEMMA GetHome ==
  ASSUME ChanInv, HomeInv, NEW t \in Task, GetBlock(t)
  PROVE  HomeInv'
<1> USE DEF HomeInv
<1> DEFINE b == OSMemFreeList
           n == OSMemNFree
<1>1. /\ OSMemGet /\ Receive(t, b) /\ dropped' = dropped
      /\ UNCHANGED <<OSTCBMsg, OSEventType, storeVars>>
  BY DEF GetBlock, msgVars
<1>2. /\ FreeInv' /\ b = Free[1] /\ n \in Nat \ {0} /\ OSMemNFree' = n - 1
      /\ Free' = [i \in 1..n - 1 |-> Free[i + 1]]
  BY <1>1, GetFree DEF OSMemGet
<1>3. b \in Block /\ IsFree(b)
  BY <1>2 DEF FreeInv, IsFree
<1>4. ASSUME NEW c \in Block
      PROVE  IsFree(c)' <=> IsFree(c) /\ c # b
  <2>1. ASSUME NEW i \in 1..n - 1, Free[i + 1] = c
        PROVE  IsFree(c) /\ c # b
    <3>1. i + 1 \in 1..n /\ 1 \in 1..n /\ i + 1 # 1
      BY <1>2
    <3> QED
      BY <1>2, <2>1, <3>1 DEF IsFree, FreeInv
  <2>2. ASSUME NEW i \in 1..n, Free[i] = c, c # b
        PROVE  \E j \in 1..n - 1 : Free[j + 1] = c
    <3>1. i - 1 \in 1..n - 1 /\ i - 1 + 1 = i
      BY <1>2, <2>2
    <3> QED
      BY <2>2, <3>1
  <2> QED
    BY <1>2, <2>1, <2>2 DEF IsFree
<1>5. StoreInv' /\ \A e \in Event : Contents(e)' = Contents(e)
  BY <1>1, UntouchedStore DEF ChanInv
<1>6. /\ \A c : KeptIn(c)' = KeptIn(c) /\ HandedTo(c)' = HandedTo(c)
      /\ \A e \in Event : Once(Contents(e))'
  BY <1>1, <1>5, SameKept, SameHanded
<1>7. /\ held' \in [Task -> SUBSET Block]
      /\ \A c \in Block : HeldBy(c)' = IF c = b THEN HeldBy(c) \cup {t} ELSE HeldBy(c)
  BY <1>1, ReceiveHeld
<1>8. ASSUME NEW c \in Block
      PROVE  OneHome(c)'
  <2>1. CASE c = b
    <3>1. OnlyFree(c)
      BY <1>3, <2>1, HomeOf
    <3>2. OnlyHeld(c, t)'
      BY <1>1, <1>4, <1>6, <1>7, <2>1, <3>1 DEF OnlyFree, OnlyHeld
    <3> QED
      BY <3>2 DEF OneHome
  <2>2. CASE c # b
    BY <1>1, <1>4, <1>6, <1>7, <2>2, StaysHome
  <2> QED
    BY <2>1, <2>2
<1> QED
  BY <1>1, <1>2, <1>6, <1>7, <1>8

LEMMA PutHome ==
  ASSUME ChanInv, HomeInv, NEW t \in Task, NEW b \in Block, PutBlock(t, b)
  PROVE  HomeInv'
<1> USE DEF HomeInv
<1> DEFINE n == OSMemNFree
<1>1. /\ OSMemPut(b) /\ b \in held[t] /\ dropped' = dropped
      /\ held' = [held EXCEPT ![t] = @ \ {b}]
      /\ UNCHANGED <<OSTCBMsg, OSEventType, storeVars>>
  BY DEF PutBlock, msgVars
<1>2. OnlyHeld(b, t)
  BY <1>1, HomeOf
<1>3. \A i \in 1..n : Free[i] # b
  BY <1>2 DEF OnlyHeld, IsFree
<1>4. /\ FreeInv' /\ n \in Nat /\ OSMemNFree' = n + 1
      /\ Free' = [i \in 1..n + 1 |-> IF i = 1 THEN b ELSE Free[i - 1]]
  BY <1>1, <1>3, PutFree
<1>5. ASSUME NEW c \in Block
      PROVE  IsFree(c)' <=> IsFree(c) \/ c = b
  <2>1. ASSUME NEW i \in 1..n + 1, Free'[i] = c
        PROVE  IsFree(c) \/ c = b
    <3>1. CASE i = 1
      BY <1>4, <2>1, <3>1
    <3>2. CASE i # 1
      <4>1. i - 1 \in 1..n /\ Free'[i] = Free[i - 1]
        BY <1>4, <3>2
      <4> QED
        BY <2>1, <4>1 DEF IsFree
    <3> QED
      BY <3>1, <3>2
  <2>2. ASSUME NEW i \in 1..n, Free[i] = c
        PROVE  \E j \in 1..n + 1 : Free'[j] = c
    <3>1. i + 1 \in 1..n + 1 /\ i + 1 # 1 /\ i + 1 - 1 = i
      BY <1>4
    <3>2. Free'[i + 1] = Free[i]
      BY <1>4, <3>1
    <3> QED
      BY <2>2, <3>1, <3>2
  <2>3. 1 \in 1..n + 1 /\ Free'[1] = b
    BY <1>4
  <2> QED
    BY <1>4, <2>1, <2>2, <2>3 DEF IsFree
<1>6. StoreInv' /\ \A e \in Event : Contents(e)' = Contents(e)
  BY <1>1, UntouchedStore DEF ChanInv
<1>7. /\ \A c : KeptIn(c)' = KeptIn(c) /\ HandedTo(c)' = HandedTo(c)
      /\ \A e \in Event : Once(Contents(e))'
  BY <1>1, <1>6, SameKept, SameHanded
<1>8. /\ held' \in [Task -> SUBSET Block]
      /\ \A c \in Block : HeldBy(c)' = IF c = b THEN HeldBy(c) \ {t} ELSE HeldBy(c)
  BY <1>1, LoseHeld
<1>9. ASSUME NEW c \in Block
      PROVE  OneHome(c)'
  <2>1. CASE c = b
    <3>1. OnlyFree(b)'
      BY <1>1, <1>2, <1>5, <1>7, <1>8 DEF OnlyHeld, OnlyFree
    <3> QED
      BY <2>1, <3>1 DEF OneHome
  <2>2. CASE c # b
    BY <1>1, <1>5, <1>7, <1>8, <2>2, StaysHome
  <2> QED
    BY <2>1, <2>2
<1> QED
  BY <1>1, <1>4, <1>7, <1>8, <1>9

\* A block is posted: the most urgent waiter has it, or the channel keeps it.
LEMMA PostHome ==
  ASSUME ChanInv, HomeInv, NEW t \in Task, NEW e \in Event, NEW b \in Block,
         NEW opt \in SUBSET {"FRONT"}, PostBlock(t, e, b, opt)
  PROVE  HomeInv'
<1> USE DEF HomeInv
<1>1. /\ b \in held[t] /\ PostOpt(t, e, b, opt) /\ dropped' = dropped
      /\ held' = [held EXCEPT ![t] = @ \ {b}]
      /\ link' = [link EXCEPT ![b] = Nil] /\ UNCHANGED <<OSMemFreeList, OSMemNFree>>
      /\ b \in Msg
  BY PoolAssumption DEF PostBlock
<1>2. OnlyHeld(b, t)
  BY <1>1, HomeOf
<1>3. FreeInv' /\ \A c : IsFree(c)' <=> IsFree(c)
  <2>1. \A i \in 1..OSMemNFree : Free[i] # b
    BY <1>2 DEF OnlyHeld, IsFree
  <2>2. FreeInv' /\ Free' = Free
    BY <1>1, <2>1, WriteFree
  <2> QED
    BY <1>1, <2>2 DEF IsFree
<1>4. /\ held' \in [Task -> SUBSET Block]
      /\ \A c \in Block : HeldBy(c)' = IF c = b THEN HeldBy(c) \ {t} ELSE HeldBy(c)
  BY <1>1, LoseHeld
<1>5. CASE OSEventTbl[e] # {}
  <2>1. /\ Wakes(t, e, {Highest(OSEventTbl[e])}, b, "OK")
        /\ \A f \in Event : Contents(f)' = Contents(f)
    BY <1>1, <1>5, PostEffect DEF ChanInv, Hands, Keeps
  <2>2. PICK u \in Task : {v \in Task : OSTCBPrio[v] \in {Highest(OSEventTbl[e])}} = {u}
    BY <1>5, OneHighest
  <2>3. \A c \in Block : HandedTo(c)' = IF c = b THEN HandedTo(c) \cup {u} ELSE HandedTo(c)
    BY <1>5, <2>1, <2>2, OneHanded
  <2>4. (\A c : KeptIn(c)' = KeptIn(c)) /\ \A d \in Event : Once(Contents(d))'
    BY <2>1, SameKept
  <2>5. ASSUME NEW c \in Block
        PROVE  OneHome(c)'
    <3>1. CASE c = b
      <4>1. OnlyHanded(b, u)'
        BY <1>1, <1>2, <1>3, <1>4, <2>3, <2>4 DEF OnlyHeld, OnlyHanded
      <4> QED
        BY <3>1, <4>1 DEF OneHome
    <3>2. CASE c # b
      BY <1>1, <1>3, <1>4, <2>3, <2>4, <3>2, StaysHome
    <3> QED
      BY <3>1, <3>2
  <2> QED
    BY <1>1, <1>3, <1>4, <2>4, <2>5
<1>6. CASE OSEventTbl[e] = {}
  <2>1. Keeps(e, b)
    BY <1>1, <1>6, PostEffect DEF ChanInv, Hands
  <2>2. /\ Others(e) /\ Contents(e)' \in {Append(Contents(e), b), <<b>> \o Contents(e)}
        /\ UNCHANGED OSTCBMsg
    BY <2>1 DEF Keeps, Quiet
  <2>3. ~Holds(Contents(e), b)
    BY <1>2 DEF OnlyHeld, KeptIn
  <2>4. /\ \A d \in Event : Once(Contents(d))'
        /\ \A c \in Block : KeptIn(c)' = IF c = b THEN KeptIn(c) \cup {e} ELSE KeptIn(c)
    BY <1>1, <2>2, <2>3, AddKept
  <2>5. \A c : HandedTo(c)' = HandedTo(c)
    BY <2>2, SameHanded
  <2>6. ASSUME NEW c \in Block
        PROVE  OneHome(c)'
    <3>1. CASE c = b
      <4>1. OnlyKept(b, e)'
        BY <1>1, <1>2, <1>3, <1>4, <2>4, <2>5 DEF OnlyHeld, OnlyKept
      <4> QED
        BY <3>1, <4>1 DEF OneHome
    <3>2. CASE c # b
      BY <1>1, <1>3, <1>4, <2>4, <2>5, <3>2, StaysHome
    <3> QED
      BY <3>1, <3>2
  <2> QED
    BY <1>1, <1>3, <1>4, <2>4, <2>6
<1> QED
  BY <1>5, <1>6

LEMMA TakeHome ==
  ASSUME ChanInv, HomeInv, NEW t \in Task, NEW e \in Event, TakeMsg(t, e)
  PROVE  HomeInv'
<1> USE DEF HomeInv
<1> DEFINE b == Contents(e)[1]
<1>1. /\ PendTake(t, e) \/ Accept(t, e)
      /\ Receive(t, FirstMsg(e)) /\ UNCHANGED memVars /\ dropped' = dropped
  BY DEF TakeMsg
<1>2. /\ Others(e) /\ UNCHANGED OSTCBMsg
      /\ Contents(e) # <<>> /\ FirstMsg(e) = b
      /\ Contents(e)' = Tail(Contents(e))
  BY <1>1, TakeEffect DEF ChanInv, Quiet
<1>3. /\ \A d \in Event : Once(Contents(d))'
      /\ Holds(Contents(e), b)
      /\ \A c \in Block : KeptIn(c)' = IF c = b THEN KeptIn(c) \ {e} ELSE KeptIn(c)
  BY <1>2, TakeKept
<1>4. FreeInv' /\ \A c : IsFree(c)' <=> IsFree(c) /\ HandedTo(c)' = HandedTo(c)
  BY <1>1, <1>2, SameMem, SameHanded
<1>5. /\ held' \in [Task -> SUBSET Block]
      /\ \A c \in Block : HeldBy(c)' = IF c = b THEN HeldBy(c) \cup {t} ELSE HeldBy(c)
  BY <1>1, <1>2, ReceiveHeld
<1>6. \A c : HandedTo(c)' = HandedTo(c)
  BY <1>2, SameHanded
<1>7. \A c : IsFree(c)' <=> IsFree(c)
  BY <1>1, SameMem
<1> HIDE DEF b
<1>8. ASSUME NEW c \in Block
      PROVE  OneHome(c)'
  <2>1. CASE c = b
    <3>1. OnlyKept(c, e)
      BY <1>3, <2>1, HomeOf
    <3>2. OnlyHeld(c, t)'
      BY <1>1, <1>3, <1>5, <1>6, <1>7, <2>1, <3>1 DEF OnlyKept, OnlyHeld
    <3> QED
      BY <3>2 DEF OneHome
  <2>2. CASE c # b
    BY <1>1, <1>3, <1>5, <1>6, <1>7, <2>2, StaysHome
  <2> QED
    BY <2>1, <2>2
<1> QED
  BY <1>1, <1>3, <1>4, <1>5, <1>8

LEMMA ReturnHome ==
  ASSUME ChanInv, HomeInv, NEW t \in Task, ReturnMsg(t)
  PROVE  HomeInv'
<1> USE DEF HomeInv
<1> DEFINE m == PendResultMsg(t)
<1>1. /\ Returns(t) /\ Receive(t, m) /\ UNCHANGED <<memVars, OSEventType, storeVars>>
      /\ dropped' = dropped
  BY DEF ReturnMsg, PendEnd, Returns, PendEnds
<1>2. m = OSTCBMsg[t]
  <2>1. CASE OSTCBStatPend[t] = "OK"
    BY <2>1 DEF PendResultMsg
  <2>2. CASE OSTCBStatPend[t] # "OK"
    <3>1. OSTCBMsg[t] = Null
      BY <2>2 DEF ChanInv, GivenInv, Given
    <3> QED
      BY <2>2, <3>1 DEF PendResultMsg
  <2> QED
    BY <2>1, <2>2
<1>3. \A c \in Block : HandedTo(c)' = HandedTo(c) \ {t}
  BY <1>1, ReturnHanded
<1>4. StoreInv' /\ \A e \in Event : Contents(e)' = Contents(e)
  BY <1>1, UntouchedStore DEF ChanInv
<1>5. /\ \A c : KeptIn(c)' = KeptIn(c)
      /\ \A e \in Event : Once(Contents(e))'
  BY <1>4, SameKept
<1>6. FreeInv' /\ \A c : IsFree(c)' <=> IsFree(c)
  BY <1>1, SameMem
<1>7. /\ held' \in [Task -> SUBSET Block]
      /\ \A c \in Block : HeldBy(c)' = IF c = m THEN HeldBy(c) \cup {t} ELSE HeldBy(c)
  BY <1>1, ReceiveHeld
<1>8. ASSUME NEW c \in Block
      PROVE  OneHome(c)'
  <2>1. CASE c = m
    <3>1. OnlyHanded(c, t)
      BY <1>2, <2>1, HomeOf
    <3>2. OnlyHeld(c, t)'
      BY <1>1, <1>3, <1>5, <1>6, <1>7, <2>1, <3>1 DEF OnlyHanded, OnlyHeld
    <3> QED
      BY <3>2 DEF OneHome
  <2>2. CASE c # m
    <3>1. t \notin HandedTo(c)
      BY <1>2, <2>2 DEF HandedTo
    <3>2. HandedTo(c)' = HandedTo(c)
      BY <1>3, <3>1
    <3> QED
      BY <1>1, <1>5, <1>6, <1>7, <2>2, <3>2, StaysHome
  <2> QED
    BY <2>1, <2>2
<1> QED
  BY <1>1, <1>5, <1>6, <1>7, <1>8

\* What a flush or a delete throws away was kept in that channel.
LEMMA DropHome ==
  ASSUME ChanInv, HomeInv, NEW e \in Event, Others(e), Contents(e)' = <<>>,
         dropped' = dropped \cup {b \in Block : In(e, b)}, UNCHANGED <<memVars, held>>,
         \A c \in Block : HandedTo(c)' = HandedTo(c)
  PROVE  HomeInv'
<1> USE DEF HomeInv
<1>1. \A b \in Block : In(e, b) <=> Holds(Contents(e), b)
  <2>1. Contents(e) \in Seq(Pointer)
    BY ContentsTyped DEF ChanInv, StoreInv
  <2>2. DOMAIN Contents(e) = 1..Len(Contents(e))
    BY <2>1, LenProperties
  <2> QED
    BY <2>2 DEF In, Holds
<1>2. /\ \A d \in Event : Once(Contents(d))'
      /\ \A b \in Block : KeptIn(b)' = KeptIn(b) \ {e}
  BY EmptyKept
<1>3. FreeInv' /\ \A b : IsFree(b)' <=> IsFree(b)
  BY SameMem
<1>4. \A b : HeldBy(b)' = HeldBy(b)
  BY DEF HeldBy
<1>5. ASSUME NEW b \in Block
      PROVE  OneHome(b)'
  <2>1. CASE Holds(Contents(e), b)
    <3>1. OnlyKept(b, e)
      BY <2>1, HomeOf
    <3>2. OnlyDropped(b)'
      BY <1>1, <1>2, <1>3, <1>4, <2>1, <3>1 DEF OnlyKept, OnlyDropped
    <3> QED
      BY <3>2 DEF OneHome
  <2>2. CASE ~Holds(Contents(e), b)
    <3>1. KeptIn(b)' = KeptIn(b)
      BY <1>2, <2>2 DEF KeptIn
    <3>2. b \in dropped' <=> b \in dropped
      BY <1>1, <2>2
    <3> QED
      BY <1>3, <1>4, <3>1, <3>2, StaysHome
  <2> QED
    BY <2>1, <2>2
<1> QED
  BY <1>2, <1>3, <1>5

\* A step that moves no block.
LEMMA RestHome ==
  ASSUME ChanInv, HomeInv, UNCHANGED <<memVars, held, dropped>>,
         \A c \in Block : HandedTo(c)' = HandedTo(c),
         \A c \in Block : KeptIn(c)' = KeptIn(c), \A d \in Event : Once(Contents(d))'
  PROVE  HomeInv'
<1> USE DEF HomeInv
<1>1. FreeInv' /\ \A b : IsFree(b)' <=> IsFree(b)
  BY SameMem
<1>2. \A b : HeldBy(b)' = HeldBy(b)
  BY DEF HeldBy
<1> QED
  BY <1>1, <1>2, StaysHome

LEMMA NoteHome ==
  ASSUME ChanInv, HomeInv, NEW t \in Task, NEW e \in Event, NEW opt, PostNote(t, e, opt)
  PROVE  HomeInv'
<1> USE DEF HomeInv
<1>1. PostOpt(t, e, Note, opt) /\ UNCHANGED <<memVars, held, dropped>> /\ Note \in Msg
  BY PoolAssumption DEF PostNote
<1>2. Keeps(e, Note) \/ Hands(t, e, Note)
  BY <1>1, PostEffect DEF ChanInv
<1>3. \A c \in Block : c # Note
  BY PoolAssumption
<1>4. CASE Keeps(e, Note)
  <2>1. /\ Others(e) /\ Contents(e)' \in {Append(Contents(e), Note), <<Note>> \o Contents(e)}
        /\ UNCHANGED OSTCBMsg
    BY <1>4 DEF Keeps, Quiet
  <2>2. /\ \A d \in Event : Once(Contents(d))'
        /\ \A c \in Block : KeptIn(c)' = IF c = Note THEN KeptIn(c) \cup {e} ELSE KeptIn(c)
    BY <1>1, <1>3, <2>1, AddKept
  <2> QED
    BY <1>1, <1>3, <2>1, <2>2, SameHanded, RestHome
<1>5. CASE Hands(t, e, Note)
  <2>1. PICK ps \in {OSEventTbl[e], {Highest(OSEventTbl[e])}} : Wakes(t, e, ps, Note, "OK")
    BY <1>5 DEF Hands
  <2>2. \A c \in Block : HandedTo(c)' = HandedTo(c)
    BY <1>3, <2>1, WakesHanded DEF Wakes
  <2>3. /\ \A c : KeptIn(c)' = KeptIn(c)
        /\ \A d \in Event : Once(Contents(d))'
    BY <1>5, SameKept DEF Hands
  <2> QED
    BY <1>1, <2>2, <2>3, RestHome
<1> QED
  BY <1>2, <1>4, <1>5

LEMMA TaskHome ==
  ASSUME ChanInv, HomeInv, NEW t \in Task, PoolTask(t)
  PROVE  HomeInv'
<1>1. CASE GetBlock(t)
  BY <1>1, GetHome
<1>2. CASE ReturnMsg(t)
  BY <1>2, ReturnHome
<1>3. ASSUME NEW b \in Block, PutBlock(t, b)
      PROVE  HomeInv'
  BY <1>3, PutHome
<1>4. ASSUME NEW e \in Event, TakeMsg(t, e)
      PROVE  HomeInv'
  BY <1>4, TakeHome
<1>5. ASSUME NEW e \in Event, Flush(t, e)
      PROVE  HomeInv'
  <2>1. OSQFlush(t, e) /\ UNCHANGED OSTCBMsg
    BY <1>5 DEF Flush, OSQFlush
  <2>2. Others(e) /\ Contents(e)' = <<>>
    BY <2>1, FlushEffect DEF ChanInv
  <2> QED
    BY <1>5, <2>1, <2>2, SameHanded, DropHome DEF Flush
<1>6. ASSUME NEW e \in Event, DeleteChan(t, e)
      PROVE  HomeInv'
  <2>1. PICK opt \in {"NO_PEND", "ALWAYS"} : Delete(t, e, opt)
    BY <1>6 DEF DeleteChan
  <2>2. Others(e) /\ Contents(e)' = <<>>
    BY <2>1, DeleteEffect DEF ChanInv
  <2>3. Wakes(t, e, OSEventTbl[e], Null, "ABORT")
    BY <2>1 DEF Delete, Calls, Wakes
  <2>4. \A c \in Block : c # Null
    BY PoolAssumption, MsgAssumption
  <2>5. \A c \in Block : HandedTo(c)' = HandedTo(c)
    <3> SUFFICES ASSUME NEW c \in Block PROVE HandedTo(c)' = HandedTo(c)
      OBVIOUS
    <3>1. OSEventTbl[e] \in SUBSET OSEventTbl[e] /\ c # Null
      BY <2>4
    <3> QED
      BY <2>3, <3>1, WakesHanded
  <2> QED
    BY <1>6, <2>2, <2>5, DropHome DEF DeleteChan
<1>7. ASSUME NEW e \in Event, NEW type \in {"MBOX", "Q"}, CreateChan(t, e, type)
      PROVE  HomeInv'
  <2>1. PICK msg \in {Null, Note} : Create(t, e, type, msg)
    BY <1>7 DEF CreateChan
  <2>2. msg \in Pointer /\ msg \notin Block
    BY PoolAssumption, MsgAssumption DEF Pointer
  <2>3. /\ Others(e) /\ Contents(e) = <<>>
        /\ Contents(e)' = <<>> \/ Contents(e)' = <<msg>>
    BY <2>1, <2>2, CreateEffect DEF ChanInv
  <2>4. /\ \A d \in Event : Once(Contents(d))'
        /\ \A b \in Block : KeptIn(b)' = KeptIn(b) \ {e}
    BY <2>2, <2>3, EmptyKept DEF HomeInv
  <2>5. \A b \in Block : e \notin KeptIn(b)
    BY <2>3, OnceShort DEF KeptIn
  <2>6. UNCHANGED OSTCBMsg
    BY <2>1 DEF Create
  <2> QED
    BY <1>7, <2>4, <2>5, <2>6, SameHanded, RestHome DEF CreateChan
<1>8. ASSUME NEW e \in Event, NEW b \in Block, NEW opt \in SUBSET {"FRONT"},
             PostBlock(t, e, b, opt)
      PROVE  HomeInv'
  BY <1>8, PostHome
<1>9. ASSUME NEW e \in Event, NEW opt, PostNote(t, e, opt)
      PROVE  HomeInv'
  BY <1>9, NoteHome
<1>10. ASSUME NEW e \in Event, NEW n \in 0..MaxTicks, PendWait(t, e, n),
              UNCHANGED <<memVars, held, dropped>>
       PROVE  HomeInv'
  <2>1. UNCHANGED <<OSTCBMsg, OSEventType, storeVars>>
    BY <1>10 DEF PendWait
  <2>2. \A d \in Event : Contents(d)' = Contents(d)
    BY <2>1, UntouchedStore DEF ChanInv
  <2> QED
    BY <1>10, <2>1, <2>2, SameHanded, SameKept, RestHome DEF HomeInv
<1>11. ASSUME NEW e \in Event, NEW opt, PendAbort(t, e, opt), UNCHANGED <<memVars, held, dropped>>
       PROVE  HomeInv'
  <2> DEFINE ps == IF opt = "BROADCAST" THEN OSEventTbl[e] ELSE {Highest(OSEventTbl[e])}
  <2>1. ps \in SUBSET OSEventTbl[e]
    BY <1>11, WaiterTyped DEF PendAbort, ChanInv
  <2>2. Wakes(t, e, ps, Null, "ABORT") /\ UNCHANGED <<OSEventType, storeVars>>
    BY <1>11, <2>1 DEF PendAbort, Calls, Wakes
  <2> HIDE DEF ps
  <2>3. \A c \in Block : c # Null
    BY PoolAssumption, MsgAssumption
  <2>4. \A c \in Block : HandedTo(c)' = HandedTo(c)
    <3> SUFFICES ASSUME NEW c \in Block PROVE HandedTo(c)' = HandedTo(c)
      OBVIOUS
    <3>1. c # Null
      BY <2>3
    <3> QED
      BY <2>1, <2>2, <3>1, WakesHanded
  <2>5. \A d \in Event : Contents(d)' = Contents(d)
    BY <2>2, UntouchedStore DEF ChanInv
  <2> QED
    BY <1>11, <2>4, <2>5, SameKept, RestHome DEF HomeInv
<1> QED
  BY <1>1, <1>2, <1>3, <1>4, <1>5, <1>6, <1>7, <1>8, <1>9, <1>10, <1>11 DEF PoolTask

LEMMA HomeNext == ChanInv /\ HomeInv /\ [Next]_poolVars => HomeInv'
<1> SUFFICES ASSUME ChanInv, HomeInv, [Next]_poolVars PROVE HomeInv'
  OBVIOUS
<1>1. ASSUME UNCHANGED <<OSTCBMsg, OSEventType, storeVars, memVars, held, dropped>>
      PROVE  HomeInv'
  <2>1. \A d \in Event : Contents(d)' = Contents(d)
    BY <1>1, UntouchedStore DEF ChanInv
  <2> QED
    BY <1>1, <2>1, SameHanded, SameKept, RestHome DEF HomeInv
<1> QED
  BY <1>1, TaskHome DEF Next, poolVars, msgVars

LEMMA HomeInit == Init => HomeInv
<1> SUFFICES ASSUME Init PROVE HomeInv
  OBVIOUS
<1>1. FreeInv /\ \A b \in Block : IsFree(b)
  BY InitFree DEF Init, IsFree
<1>2. \A e \in Event : Contents(e) = <<>>
  BY ContentsOf DEF Init, MsgInit
<1>3. \A e \in Event : Once(Contents(e)) /\ \A b : ~Holds(Contents(e), b)
  BY <1>2, OnceShort
<1>4. \A t \in Task : OSTCBMsg[t] = Null /\ held[t] = {}
  BY DEF Init, MsgInit, AllTask
<1>5. ASSUME NEW b \in Block
      PROVE  OnlyFree(b)
  <2>1. b # Null
    BY PoolAssumption, MsgAssumption
  <2> QED
    BY <1>1, <1>3, <1>4, <2>1 DEF OnlyFree, HeldBy, HandedTo, KeptIn, Init
<1> QED
  BY <1>1, <1>3, <1>5 DEF HomeInv, OneHome, Init

LEMMA AlwaysHome == Spec => [](ChanInv /\ HomeInv)
BY HomeInit, HomeNext, AlwaysChan, PTL DEF Spec


\* Every variable of the kernel, the channels and the partition keeps its
\* range: OSQIn and OSQOut stay inside the array of a queue, OSQEntries and
\* OSMemNFree within their limits, and the list of free blocks holds nothing
\* but blocks whatever their owners write into the others.
THEOREM PoolTyped == Spec => []PoolTypeOK
<1>1. ChanInv /\ HomeInv => PoolTypeOK
  BY DEF ChanInv, CoreTypeInv, GivenInv, StoreInv, StoreTypeOK, Pointer, HomeInv, FreeInv,
         MsgTypeOK, PoolTypeOK
<1> QED
  BY AlwaysHome, <1>1, PTL

Places(b) == UNION {
  {<<"free", i>> : i \in {j \in 1..OSMemNFree : Free[j] = b}},
  {<<"held", t>> : t \in {u \in Task : b \in held[u]}},
  {<<"handed", t>> : t \in {u \in Task : b \in InTCB(u)}},
  {<<"kept", p>> : p \in {q \in Event \X (1..QSize) :
     q[2] \in DOMAIN Contents(q[1]) /\ Contents(q[1])[q[2]] = b}},
  IF b \in dropped THEN {<<"dropped">>} ELSE {}}

LEMMA OnePlace ==
  ASSUME ChanInv, HomeInv, NEW b \in Block
  PROVE  \E x : Places(b) = {x}
<1> DEFINE A == {<<"free", i>> : i \in {j \in 1..OSMemNFree : Free[j] = b}}
           B == {<<"held", t>> : t \in {u \in Task : b \in held[u]}}
           C == {<<"handed", t>> : t \in {u \in Task : b \in InTCB(u)}}
           K == {q \in Event \X (1..QSize) :
                   q[2] \in DOMAIN Contents(q[1]) /\ Contents(q[1])[q[2]] = b}
           D == {<<"kept", p>> : p \in K}
           E == IF b \in dropped THEN {<<"dropped">>} ELSE {}
<1>1. Places(b) = A \cup B \cup C \cup D \cup E
  BY Zenon DEF Places
<1>2. IF IsFree(b) THEN \E i : A = {<<"free", i>>} ELSE A = {}
  <2>1. CASE IsFree(b)
    <3>1. PICK i \in 1..OSMemNFree : Free[i] = b
      BY <2>1 DEF IsFree
    <3>2. {j \in 1..OSMemNFree : Free[j] = b} = {i}
      BY <3>1 DEF HomeInv, FreeInv
    <3> QED
      BY <2>1, <3>2
  <2>2. CASE ~IsFree(b)
    BY <2>2 DEF IsFree
  <2> QED
    BY <2>1, <2>2
<1>3. B = {<<"held", t>> : t \in HeldBy(b)}
  BY DEF HeldBy
<1>4. C = {<<"handed", t>> : t \in HandedTo(b)}
  <2>1. ASSUME NEW u \in Task
        PROVE  b \in InTCB(u) <=> OSTCBMsg[u] = b
    <3>1. b # Null /\ (OSTCBMsg[u] # Null => Given(u))
      BY PoolAssumption, MsgAssumption DEF ChanInv, GivenInv
    <3> QED
      BY <3>1 DEF InTCB, Given, InPendCall
  <2>2. {u \in Task : b \in InTCB(u)} = HandedTo(b)
    BY <2>1 DEF HandedTo
  <2> QED
    BY <2>2
<1>5. \A e \in Event : /\ DOMAIN Contents(e) = 1..Len(Contents(e))
                       /\ Len(Contents(e)) \in Nat /\ Len(Contents(e)) <= QSize
  <2> TAKE e \in Event
  <2>1. Contents(e) \in Seq(Pointer)
    BY ContentsTyped DEF ChanInv, StoreInv
  <2>2. Len(Contents(e)) <= QSize
    <3>1. CASE OSEventType[e] = "UNUSED"
      BY <3>1, ContentsOf, MsgAssumption
    <3>2. CASE IsQueue(e)
      BY <3>2, ContentsTyped DEF ChanInv, StoreInv, StoreTypeOK
    <3>3. CASE IsMbox(e)
      <4>1. Len(Contents(e)) = 0 \/ Len(Contents(e)) = 1
        BY <3>3, ContentsTyped DEF ChanInv, StoreInv
      <4>2. 0 <= QSize /\ 1 <= QSize
        BY MsgAssumption
      <4> DEFINE l == Len(Contents(e))
      <4>3. l = 0 \/ l = 1
        BY <4>1
      <4> HIDE DEF l
      <4>4. l <= QSize
        BY <4>2, <4>3
      <4> QED
        BY <4>4 DEF l
    <3> QED
      BY <3>1, <3>2, <3>3 DEF ChanInv, StoreInv, StoreTypeOK, IsMbox, IsQueue
  <2> QED
    BY <2>1, <2>2, LenProperties
<1>6. /\ KeptIn(b) = {} => D = {}
      /\ \A e \in Event : KeptIn(b) = {e} => \E p : D = {<<"kept", p>>}
  <2>1. \A q \in K : q[1] \in KeptIn(b) /\ q[2] \in 1..Len(Contents(q[1]))
    BY <1>5 DEF KeptIn, Holds
  <2>2. ASSUME NEW e \in Event, KeptIn(b) = {e}
        PROVE  \E p : D = {<<"kept", p>>}
    <3>1. Holds(Contents(e), b)
      BY <2>2 DEF KeptIn
    <3>2. PICK i \in 1..Len(Contents(e)) : Contents(e)[i] = b
      BY <3>1 DEF Holds
    <3>3. i \in 1..QSize /\ i \in DOMAIN Contents(e)
      BY <1>5, MsgAssumption
    <3>4. <<e, i>> \in K
      BY <3>2, <3>3
    <3>5. ASSUME NEW q \in K
          PROVE  q = <<e, i>>
      <4>1. q = <<q[1], q[2]>> /\ q[1] = e /\ q[2] \in 1..Len(Contents(e))
        BY <2>1, <2>2
      <4>2. Contents(e)[q[2]] = b
        BY <4>1
      <4>3. q[2] = i
        BY <3>2, <4>1, <4>2 DEF HomeInv, Once
      <4> QED
        BY <4>1, <4>3
    <3>6. K = {<<e, i>>}
      BY <3>4, <3>5
    <3> HIDE DEF K
    <3>7. D = {<<"kept", <<e, i>>>>}
      BY <3>6
    <3> QED
      BY <3>7
  <2> QED
    BY <2>1, <2>2
<1>7. OneHome(b)
  BY DEF HomeInv
<1> HIDE DEF A, B, C, D, K
<1>8. CASE OnlyFree(b)
  <2>1. B = {} /\ C = {} /\ D = {} /\ E = {}
    BY <1>3, <1>4, <1>6, <1>8 DEF OnlyFree
  <2> QED
    BY <1>1, <1>2, <1>8, <2>1 DEF OnlyFree
<1>9. CASE OnlyDropped(b)
  <2>1. A = {} /\ B = {} /\ C = {} /\ D = {} /\ E = {<<"dropped">>}
    BY <1>2, <1>3, <1>4, <1>6, <1>9 DEF OnlyDropped
  <2> QED
    BY <1>1, <2>1
<1>10. ASSUME NEW t \in Task, OnlyHeld(b, t)
       PROVE  \E x : Places(b) = {x}
  <2>1. A = {} /\ B = {<<"held", t>>} /\ C = {} /\ D = {} /\ E = {}
    BY <1>2, <1>3, <1>4, <1>6, <1>10 DEF OnlyHeld
  <2> QED
    BY <1>1, <2>1
<1>11. ASSUME NEW t \in Task, OnlyHanded(b, t)
       PROVE  \E x : Places(b) = {x}
  <2>1. A = {} /\ B = {} /\ C = {<<"handed", t>>} /\ D = {} /\ E = {}
    BY <1>2, <1>3, <1>4, <1>6, <1>11 DEF OnlyHanded
  <2> QED
    BY <1>1, <2>1
<1>12. ASSUME NEW e \in Event, OnlyKept(b, e)
       PROVE  \E x : Places(b) = {x}
  <2>1. A = {} /\ B = {} /\ C = {} /\ E = {}
    BY <1>2, <1>3, <1>4, <1>12 DEF OnlyKept
  <2>2. \E p : D = {<<"kept", p>>}
    BY <1>6, <1>12 DEF OnlyKept
  <2> QED
    BY <1>1, <2>1, <2>2
<1> QED
  BY <1>7, <1>8, <1>9, <1>10, <1>11, <1>12 DEF OneHome

LEMMA OnePlaceEach == ChanInv /\ HomeInv => BlockInOnePlace
<1> SUFFICES ASSUME ChanInv, HomeInv, NEW b \in Block
             PROVE  Cardinality(Places(b)) = 1
  BY DEF BlockInOnePlace, Places, Free
<1>1. PICK x : Places(b) = {x}
  BY OnePlace
<1> QED
  BY <1>1, FS_Singleton

\* No block is lost and none is in two hands, for any number of tasks,
\* channels and blocks: OSMemGet and OSMemPut, the posts and the two halves of
\* the pends move each block from one place to another, and a timeout, an
\* abort or a preemption between the two halves of a pend neither loses the
\* block nor hands it out twice.
THEOREM BlocksNeverLost == Spec => []BlockInOnePlace
BY AlwaysHome, OnePlaceEach, PTL

-----------------------------------------------------------------------------
(* Refinement: what the callers see of the channels is MsgQueue's.          *)

ClientsStay == Waiting' = Waiting /\ Handed' = Handed /\ Aborted' = Aborted
ViewStays   == ClientsStay /\ Items' = Items /\ Capacity' = Capacity

LEMMA SameClients ==
  ASSUME UNCHANGED <<OSTCBPrio, OSEventTbl, pevent, OSTCBMsg>>,
         \A t \in Task : InPendCall(t)' <=> InPendCall(t),
         \A t \in Task, r \in {"OK", "ABORT"} : InPendCall(t) =>
           ("PEND" \notin OSTCBStat'[t] /\ OSTCBStatPend'[t] = r
              <=> "PEND" \notin OSTCBStat[t] /\ OSTCBStatPend[t] = r)
  PROVE  ClientsStay
<1>1. Waiting' = Waiting
  BY DEF Waiting
<1>2. \A e \in Event, r \in {"OK", "ABORT"} : Ended(e, r)' = Ended(e, r)
  BY DEF Ended, InPend, InPendCall
<1>3. Handed' = Handed
  <2>1. \A e \in Event : {<<t, OSTCBMsg[t]>> : t \in Ended(e, "OK")}'
                           = {<<t, OSTCBMsg[t]>> : t \in Ended(e, "OK")}
    BY <1>2
  <2> QED
    BY <2>1 DEF Handed
<1>4. Aborted' = Aborted
  BY <1>2 DEF Aborted
<1> QED
  BY <1>1, <1>3, <1>4 DEF ClientsStay

LEMMA QuietClients == Quiet => ClientsStay
BY SameClients DEF Quiet, coreVars, tcbVars, callVars, InPendCall

LEMMA KernelClients ==
  ASSUME ChanInv, Kernel, OSTCBMsg' = OSTCBMsg
  PROVE  ClientsStay
<1> USE DEF ChanInv, CoreTypeInv, TypeOK
<1>t. \A u \in Task : u \in AllTask
  BY DEF AllTask
<1>0. OSEventTbl' = OSEventTbl /\ OSTCBPrio' = OSTCBPrio
  BY KernelLeavesLists
<1>1. CASE PendSV_Handler \/ MsgTick \/ SysTickExit
  BY <1>0, <1>1, SameClients
  DEF PendSV_Handler, MsgTick, SysTickExit, tcbVars, callVars, InPendCall
<1>2. ASSUME NEW t \in Task, OS_Sched(t)
      PROVE  ClientsStay
  <2>1. \A u \in Task : InPendCall(u)' <=> InPendCall(u)
    BY <1>2, <1>t DEF OS_Sched, InPendCall
  <2> QED
    BY <1>0, <1>2, <2>1, SameClients DEF OS_Sched, tcbVars
<1>3. CASE OSTimeTick
  <2>1. PICK T \in SUBSET Task : DlyEnds(T) /\ \A t \in T : OSTCBDly[t] # 0
    BY <1>3 DEF OSTimeTick
  <2>2. pevent' = pevent /\ \A u \in Task : InPendCall(u)' <=> InPendCall(u)
    BY <1>3 DEF OSTimeTick, callVars, InPendCall
  <2>3. ASSUME NEW u \in Task, NEW r \in {"OK", "ABORT"}, InPendCall(u)
        PROVE  "PEND" \notin OSTCBStat'[u] /\ OSTCBStatPend'[u] = r
                 <=> "PEND" \notin OSTCBStat[u] /\ OSTCBStatPend[u] = r
    <3>1. CASE u \in T
      <4>1. "PEND" \in OSTCBStat[u]
        BY <2>1, <2>3, <3>1 DEF ListInv, PendInv
      <4>2. OSTCBStatPend'[u] = "TO"
        BY <1>t, <2>1, <3>1, <4>1 DEF DlyEnds
      <4> QED
        BY <4>1, <4>2
    <3>2. CASE u \notin T
      BY <1>t, <2>1, <3>2 DEF DlyEnds
    <3> QED
      BY <3>1, <3>2
  <2> QED
    BY <1>0, <2>2, <2>3, SameClients
<1> QED
  BY <1>1, <1>2, <1>3 DEF Kernel

LEMMA SameItems ==
  ASSUME \A e \in Event : Contents(e)' = Contents(e)
  PROVE  Items' = Items
BY DEF Items

LEMMA OneItem ==
  ASSUME NEW e \in Event, Others(e)
  PROVE  Items' = [Items EXCEPT ![e] = Contents(e)'] /\ Items[e] = Contents(e)
BY DEF Items, Others

LEMMA CapacityOf ==
  /\ \A e \in Event : /\ IsMbox(e) => Capacity[e] = 1
                      /\ IsQueue(e) => Capacity[e] = QSize
                      /\ OSEventType[e] = "UNUSED" => Capacity[e] = 0
  /\ DOMAIN Capacity = Event
BY DEF Capacity, IsMbox, IsQueue

LEMMA SameCapacity ==
  ASSUME OSEventType' = OSEventType
  PROVE  Capacity' = Capacity
BY DEF Capacity, IsMbox, IsQueue

\* An event that gets type.
LEMMA OneCapacity ==
  ASSUME StoreTypeOK, NEW e \in Event, NEW type \in {"UNUSED", "MBOX", "Q"},
         OSEventType' = [OSEventType EXCEPT ![e] = type]
  PROVE  Capacity' = [Capacity EXCEPT ![e] = IF type = "MBOX" THEN 1
                                             ELSE IF type = "Q" THEN QSize ELSE 0]
<1>1. ASSUME NEW d \in Event, d # e
      PROVE  /\ IsMbox(d)' <=> IsMbox(d)
             /\ IsQueue(d)' <=> IsQueue(d)
  BY <1>1 DEF IsMbox, IsQueue, StoreTypeOK
<1>2. /\ IsMbox(e)' <=> type = "MBOX"
      /\ IsQueue(e)' <=> type = "Q"
  BY DEF IsMbox, IsQueue, StoreTypeOK
<1>3. ASSUME NEW d \in Event
      PROVE  Capacity'[d] = IF d = e THEN IF type = "MBOX" THEN 1
                                          ELSE IF type = "Q" THEN QSize ELSE 0
                                     ELSE Capacity[d]
  BY <1>1, <1>2 DEF Capacity
<1> QED
  BY <1>3 DEF Capacity


\* The tasks whose priorities are in ps.
Told(ps) == {u \in Task : OSTCBPrio[u] \in ps}

\* Waiters that are woken leave the wait list; those a message was posted for
\* have it, and the others are told that the wait is off.
LEMMA WakesClients ==
  ASSUME ChanInv, NEW t \in Task, NEW e \in Event, NEW ps \in SUBSET OSEventTbl[e],
         NEW msg, NEW r, Wakes(t, e, ps, msg, r)
  PROVE  /\ Told(ps) \subseteq Waiting[e]
         /\ Waiting' = [Waiting EXCEPT ![e] = @ \ Told(ps)]
         /\ r = "OK" =>
              /\ Handed' = [Handed EXCEPT ![e] = @ \cup {<<u, msg>> : u \in Told(ps)}]
              /\ Aborted' = Aborted
         /\ r = "ABORT" =>
              /\ Handed' = Handed
              /\ Aborted' = [Aborted EXCEPT ![e] = @ \cup Told(ps)]
<1> USE DEF ChanInv, CoreTypeInv, TypeOK
<1>t. \A u \in Task : u \in AllTask
  BY DEF AllTask
<1> DEFINE C == Told(ps)
<1>1. /\ OS_EventTaskRdy(e, ps, r) /\ OSTCBPrio' = OSTCBPrio /\ pevent' = pevent
      /\ OSTCBMsg' = [u \in AllTask |-> IF OSTCBPrio[u] \in ps THEN msg ELSE OSTCBMsg[u]]
      /\ \A u \in Task : InPendCall(u)' <=> InPendCall(u)
  BY <1>t DEF Wakes, MsgRdy, InTask, InPendCall
<1>2. C \subseteq Waiting[e] /\ C \subseteq Task
  BY DEF Waiting, Told
<1>3. \A u \in C : Waits(u, e)
  BY DEF ListInv, WaitInv, Told
<1>4. Waiting' = [Waiting EXCEPT ![e] = @ \ C]
  <2>1. OSEventTbl' = [OSEventTbl EXCEPT ![e] = @ \ ps]
    BY <1>1 DEF OS_EventTaskRdy
  <2>2. OSEventTbl'[e] = OSEventTbl[e] \ ps /\ \A d \in Event \ {e} : OSEventTbl'[d] = OSEventTbl[d]
    BY <2>1
  <2> QED
    BY <1>1, <2>2 DEF Waiting, Told
<1>5. \A u \in Task : IF u \in C
                        THEN /\ "PEND" \notin OSTCBStat'[u] /\ OSTCBStatPend'[u] = r
                             /\ OSTCBMsg'[u] = msg
                        ELSE /\ OSTCBStat'[u] = OSTCBStat[u]
                             /\ OSTCBStatPend'[u] = OSTCBStatPend[u]
                             /\ OSTCBMsg'[u] = OSTCBMsg[u]
  BY <1>t, <1>1 DEF OS_EventTaskRdy, Told
<1> HIDE DEF C
<1>6. ASSUME NEW d \in Event, NEW q \in {"OK", "ABORT"}
      PROVE  /\ Ended(d, q)' = IF d = e /\ q = r THEN Ended(e, r) \cup C ELSE Ended(d, q)
             /\ \A u \in C : u \notin Ended(d, q)
             /\ Ended(d, q) \subseteq Task
  <2>1. \A u \in Task : u \in Ended(d, q)'
          <=> \/ u \in C /\ d = e /\ q = r
              \/ u \notin C /\ u \in Ended(d, q)
    BY <1>1, <1>3, <1>5 DEF Ended, InPend, InPendCall, Waits
  <2>2. \A u \in C : u \notin Ended(d, q)
    BY <1>3 DEF Ended, Waits
  <2>3. Ended(d, q)' \subseteq Task /\ Ended(d, q) \subseteq Task
    BY DEF Ended, InPend
  <2> QED
    BY <1>2, <2>1, <2>2, <2>3
<1>7. CASE r = "OK"
  <2>1. Handed' = [Handed EXCEPT ![e] = @ \cup {<<u, msg>> : u \in C}]
    <3>1. ASSUME NEW d \in Event
          PROVE  {<<u, OSTCBMsg'[u]>> : u \in Ended(d, "OK")'}
                   = IF d = e THEN {<<u, OSTCBMsg[u]>> : u \in Ended(d, "OK")}
                                     \cup {<<u, msg>> : u \in C}
                              ELSE {<<u, OSTCBMsg[u]>> : u \in Ended(d, "OK")}
      <4>1. /\ Ended(d, "OK")' = IF d = e THEN Ended(d, "OK") \cup C ELSE Ended(d, "OK")
            /\ \A u \in C : u \notin Ended(d, "OK")
            /\ Ended(d, "OK") \subseteq Task
        BY <1>6, <1>7
      <4>2. \A u \in Ended(d, "OK") : OSTCBMsg'[u] = OSTCBMsg[u]
        BY <1>5, <4>1
      <4>3. \A u \in C : OSTCBMsg'[u] = msg
        BY <1>2, <1>5
      <4> QED
        BY <4>1, <4>2, <4>3
    <3> QED
      BY <3>1 DEF Handed
  <2>2. Aborted' = Aborted
    BY <1>6, <1>7 DEF Aborted
  <2> QED
    BY <1>2, <1>4, <1>7, <2>1, <2>2 DEF C
<1>8. CASE r = "ABORT"
  <2>1. Handed' = Handed
    <3>1. ASSUME NEW d \in Event
          PROVE  {<<u, OSTCBMsg'[u]>> : u \in Ended(d, "OK")'}
                   = {<<u, OSTCBMsg[u]>> : u \in Ended(d, "OK")}
      <4>1. /\ Ended(d, "OK")' = Ended(d, "OK")
            /\ \A u \in C : u \notin Ended(d, "OK")
            /\ Ended(d, "OK") \subseteq Task
        BY <1>6, <1>8
      <4>2. \A u \in Ended(d, "OK") : OSTCBMsg'[u] = OSTCBMsg[u]
        BY <1>5, <4>1
      <4> QED
        BY <4>1, <4>2
    <3> QED
      BY <3>1 DEF Handed
  <2>2. Aborted' = [Aborted EXCEPT ![e] = @ \cup C]
    BY <1>6, <1>8 DEF Aborted
  <2> QED
    BY <1>2, <1>4, <1>8, <2>1, <2>2 DEF C
<1> QED
  BY <1>7, <1>8 DEF Wakes

\* A task that blocks is among those that wait, with no outcome yet.
LEMMA BlocksClients ==
  ASSUME ChanInv, NEW t \in Task, NEW e \in Event, NEW n \in 0..MaxTicks, Blocks(t, e, n)
  PROVE  /\ Waiting' = [Waiting EXCEPT ![e] = @ \cup {t}]
         /\ Handed' = Handed /\ Aborted' = Aborted
<1> USE DEF ChanInv, CoreTypeInv, TypeOK
<1>t. \A u \in Task : u \in AllTask
  BY DEF AllTask
<1>1. /\ pc' = [pc EXCEPT ![t] = "pendsched"]
      /\ pevent' = [pevent EXCEPT ![t] = e]
      /\ OSTCBPrio' = OSTCBPrio /\ OSTCBMsg' = OSTCBMsg
      /\ OS_EventTaskWait(t, e, n)
      /\ pc[t] = "task"
  BY DEF Blocks, PendWaits
<1>2. Waiting' = [Waiting EXCEPT ![e] = @ \cup {t}]
  <2>1. \A d \in Event : OSEventTbl'[d] = IF d = e THEN OSEventTbl[d] \cup {OSTCBPrio[t]}
                                                   ELSE OSEventTbl[d]
    BY <1>1 DEF OS_EventTaskWait
  <2>2. \A u \in Task : OSTCBPrio[u] = OSTCBPrio[t] <=> u = t
    BY <1>t DEF PrioInv, PrioMapOK
  <2>3. \A d \in Event : {u \in Task : OSTCBPrio[u] \in OSEventTbl'[d]} =
          IF d = e THEN {u \in Task : OSTCBPrio[u] \in OSEventTbl[d]} \cup {t}
                   ELSE {u \in Task : OSTCBPrio[u] \in OSEventTbl[d]}
    BY <2>1, <2>2
  <2> QED
    BY <1>1, <2>3 DEF Waiting
<1>3. \A d \in Event, r \in {"OK", "ABORT"} : Ended(d, r)' = Ended(d, r)
  <2>1. /\ "PEND" \in OSTCBStat'[t] /\ pc[t] \notin {"pendsched", "wake"}
        /\ \A u \in Task : u # t => /\ pc'[u] = pc[u] /\ pevent'[u] = pevent[u]
                                    /\ OSTCBStat'[u] = OSTCBStat[u]
                                    /\ OSTCBStatPend'[u] = OSTCBStatPend[u]
    BY <1>1, <1>t DEF OS_EventTaskWait
  <2> QED
    BY <2>1 DEF Ended, InPend
<1>4. \A d \in Event : {<<u, OSTCBMsg[u]>> : u \in Ended(d, "OK")}'
                         = {<<u, OSTCBMsg[u]>> : u \in Ended(d, "OK")}
  BY <1>1, <1>3
<1> QED
  BY <1>2, <1>3, <1>4 DEF Handed, Aborted


\* A pend that returns: its task takes the outcome it was given, with its
\* message, or after a timeout gives up.
LEMMA ReturnImplements ==
  ASSUME ChanInv, NEW t \in Task, Returns(t), Items' = Items, Capacity' = Capacity
  PROVE  Chan!Next
<1> USE DEF ChanInv, CoreTypeInv, TypeOK
<1> DEFINE e == pevent[t]
<1>t. \A u \in Task : u \in AllTask
  BY DEF AllTask
<1>1. pc[t] = "wake" /\ Running(t)
  BY DEF Returns, PendEnds
<1>2. OSTCBStat[t] = {}
  <2>1. OSTCBPrio[t] \in OSRdyTbl
    BY <1>1 DEF RunInv, Running
  <2> QED
    BY <2>1, ReadyMeans
<1>3. e \in Event
  BY <1>1 DEF ListInv, PendInv, InPendCall
<1>4. /\ pc'[t] = "task" /\ OSTCBPrio' = OSTCBPrio
      /\ \A u \in Task : u # t => /\ pc'[u] = pc[u] /\ pevent'[u] = pevent[u]
                                  /\ OSTCBStat'[u] = OSTCBStat[u]
                                  /\ OSTCBStatPend'[u] = OSTCBStatPend[u]
                                  /\ OSTCBMsg'[u] = OSTCBMsg[u]
  BY <1>t DEF Returns, PendEnds
<1>5. \A d \in Event, r \in {"OK", "ABORT"} :
        /\ Ended(d, r)' = IF d = e /\ r = OSTCBStatPend[t] THEN Ended(d, r) \ {t} ELSE Ended(d, r)
        /\ t \in Ended(d, r) <=> d = e /\ r = OSTCBStatPend[t]
        /\ Ended(d, r) \subseteq Task
  BY <1>1, <1>2, <1>4 DEF Ended, InPend
<1>6. \A d \in Event : {<<u, OSTCBMsg[u]>> : u \in Ended(d, "OK")}' =
        IF d = e /\ OSTCBStatPend[t] = "OK"
        THEN {<<u, OSTCBMsg[u]>> : u \in Ended(d, "OK")} \ {<<t, OSTCBMsg[t]>>}
        ELSE {<<u, OSTCBMsg[u]>> : u \in Ended(d, "OK")}
  <2> SUFFICES ASSUME NEW d \in Event
               PROVE  {<<u, OSTCBMsg'[u]>> : u \in Ended(d, "OK")'} =
                        IF d = e /\ OSTCBStatPend[t] = "OK"
                        THEN {<<u, OSTCBMsg[u]>> : u \in Ended(d, "OK")} \ {<<t, OSTCBMsg[t]>>}
                        ELSE {<<u, OSTCBMsg[u]>> : u \in Ended(d, "OK")}
    OBVIOUS
  <2>1. \A u \in Ended(d, "OK") : u # t => OSTCBMsg'[u] = OSTCBMsg[u]
    BY <1>4, <1>5
  <2>2. CASE d = e /\ OSTCBStatPend[t] = "OK"
    <3>1. Ended(d, "OK")' = Ended(d, "OK") \ {t}
      BY <1>5, <2>2
    <3> HIDE DEF e
    <3> QED
      BY <2>1, <2>2, <3>1
  <2>3. CASE ~(d = e /\ OSTCBStatPend[t] = "OK")
    <3>1. Ended(d, "OK")' = Ended(d, "OK") /\ t \notin Ended(d, "OK")
      BY <1>5, <2>3
    <3> HIDE DEF e
    <3> QED
      BY <2>1, <2>3, <3>1
  <2> QED
    BY <2>2, <2>3
<1>7. CASE OSTCBStatPend[t] = "TO"
  <2>1. t \in Waiting[e]
    BY <1>1, <1>3, <1>7 DEF ListInv, WaitInv, Waits, InPendCall, Waiting
  <2>2. Waiting' = [Waiting EXCEPT ![e] = @ \ {t}]
    <3>1. OSEventTbl' = [OSEventTbl EXCEPT ![e] = @ \ {OSTCBPrio[t]}]
      BY <1>7 DEF Returns, PendEnds, OS_EventTaskRemove
    <3>2. \A u \in Task : OSTCBPrio[u] = OSTCBPrio[t] <=> u = t
      BY <1>t DEF PrioInv, PrioMapOK
    <3>3. \A d \in Event : {u \in Task : OSTCBPrio[u] \in OSEventTbl'[d]} =
            IF d = e THEN {u \in Task : OSTCBPrio[u] \in OSEventTbl[d]} \ {t}
                     ELSE {u \in Task : OSTCBPrio[u] \in OSEventTbl[d]}
      BY <3>1, <3>2
    <3> QED
      BY <1>4, <3>3 DEF Waiting
  <2>3. Handed' = Handed
    BY <1>6, <1>7 DEF Handed
  <2>4. Aborted' = Aborted
    BY <1>5, <1>7 DEF Aborted
  <2>5. Chan!GiveUp(e, t)
    BY <2>1, <2>2, <2>3, <2>4 DEF Chan!GiveUp
  <2> QED
    BY <1>3, <2>5 DEF Chan!Next
<1>8. CASE OSTCBStatPend[t] # "TO"
  <2>1. Waiting' = Waiting
    BY <1>4, <1>8 DEF Returns, PendEnds, Waiting
  <2>2. t \in Ended(e, OSTCBStatPend[t]) /\ OSTCBStatPend[t] \in {"OK", "ABORT"}
    BY <1>3, <1>5, <1>8, <1>t DEF PendResult
  <2>3. CASE OSTCBStatPend[t] = "OK"
    <3>1. Handed' = [Handed EXCEPT ![e] = @ \ {<<t, OSTCBMsg[t]>>}]
      BY <1>3, <1>6, <2>3 DEF Handed
    <3>2. Aborted' = Aborted
      BY <1>5, <2>3 DEF Aborted
    <3>3. <<t, OSTCBMsg[t]>> \in Handed[e]
      BY <1>3, <2>2, <2>3 DEF Handed
    <3>4. OSTCBMsg[t] \in Msg
      BY <1>1, <1>2, <1>t, <2>3 DEF GivenInv, Given, InPendCall
    <3>5. Chan!Return(e, t)
      BY <2>1, <3>1, <3>2, <3>3, <3>4 DEF Chan!Return
    <3> QED
      BY <1>3, <3>5 DEF Chan!Next
  <2>4. CASE OSTCBStatPend[t] = "ABORT"
    <3>1. t \in Aborted[e] /\ Aborted' = [Aborted EXCEPT ![e] = @ \ {t}]
      BY <1>3, <1>5, <2>2, <2>4 DEF Aborted
    <3>2. Handed' = Handed
      BY <1>6, <2>4 DEF Handed
    <3>3. Chan!Return(e, t)
      BY <2>1, <3>1, <3>2 DEF Chan!Return
    <3> QED
      BY <1>3, <3>3 DEF Chan!Next
  <2> QED
    BY <2>2, <2>3, <2>4
<1> QED
  BY <1>7, <1>8

\* A post: a message for all who wait, or for the most urgent; or one more
\* that is kept.
LEMMA PostImplements ==
  ASSUME ChanInv, FixedPrio, NEW t \in Task, NEW e \in Event, NEW msg \in Msg, NEW opt,
         PostOpt(t, e, msg, opt)
  PROVE  Chan!Next
<1>1. /\ OSEventType' = OSEventType /\ OSEventType[e] \in {"MBOX", "Q"}
      /\ Keeps(e, msg) \/ Hands(t, e, msg)
  BY PostEffect DEF ChanInv, StoreInv, StoreTypeOK
<1>2. Capacity' = Capacity
  BY <1>1, SameCapacity
<1>3. CASE Keeps(e, msg)
  <2>1. /\ Items' = [Items EXCEPT ![e] = Contents(e)'] /\ Items[e] = Contents(e)
        /\ Contents(e)' \in {Append(Contents(e), msg), <<msg>> \o Contents(e)}
    BY <1>3, OneItem DEF Keeps
  <2>2. \/ Items' = [Items EXCEPT ![e] = Append(@, msg)]
        \/ Items' = [Items EXCEPT ![e] = <<msg>> \o @]
    BY <2>1
  <2>3. Waiting[e] = {} /\ ClientsStay
    BY <1>3, QuietClients DEF Keeps, Waiting
  <2>4. Len(Items[e]) < Capacity[e]
    <3>1. Capacity[e] = IF IsMbox(e) THEN 1 ELSE QSize
      BY <1>1, CapacityOf DEF IsMbox, IsQueue
    <3> QED
      BY <1>3, <2>1, <3>1 DEF Keeps
  <2>5. Chan!Keep(e, msg)
    BY <1>2, <2>2, <2>3, <2>4 DEF Chan!Keep, ClientsStay
  <2> QED
    BY <2>5 DEF Chan!Next
<1>4. CASE Hands(t, e, msg)
  <2>1. Items' = Items
    BY <1>4, SameItems DEF Hands
  <2>2. PICK ps \in {OSEventTbl[e], {Highest(OSEventTbl[e])}} : Wakes(t, e, ps, msg, "OK")
    BY <1>4 DEF Hands
  <2>3. ps \in SUBSET OSEventTbl[e] /\ OSEventTbl[e] # {} /\ ps # {}
    BY <1>4, OneHighest DEF Hands
  <2>4. /\ Told(ps) \subseteq Waiting[e]
        /\ Waiting' = [Waiting EXCEPT ![e] = @ \ Told(ps)]
        /\ Handed' = [Handed EXCEPT ![e] = @ \cup {<<u, msg>> : u \in Told(ps)}]
        /\ Aborted' = Aborted
    BY <2>2, <2>3, WakesClients
  <2>5. Told(ps) # {}
    BY <2>3 DEF Told, ChanInv, ListInv, WaitInv
  <2>6. \/ Told(ps) = Waiting[e]
        \/ \E u \in Told(ps) : Told(ps) = {u} /\ \A v \in Waiting[e] : InitPrio[u] <= InitPrio[v]
    <3>1. CASE ps = OSEventTbl[e]
      BY <3>1 DEF Told, Waiting
    <3>2. CASE ps = {Highest(OSEventTbl[e])}
      <4>1. PICK u \in Task : Told(ps) = {u}
        BY <2>3, <3>2, OneHighest DEF Told
      <4>2. OSTCBPrio[u] = Highest(OSEventTbl[e])
        BY <3>2, <4>1 DEF Told
      <4>3. \A p \in OSEventTbl[e] : OSTCBPrio[u] <= p
        BY <2>3, <4>2, WaiterTyped, HighestIsLeast DEF ChanInv
      <4>4. \A v \in Task : OSTCBPrio[v] = InitPrio[v]
        BY CoreAssumption DEF FixedPrio, InitOSTCBPrio, AllTask
      <4>5. \A v \in Waiting[e] : InitPrio[u] <= InitPrio[v]
        BY <4>3, <4>4 DEF Waiting
      <4> QED
        BY <4>1, <4>5
    <3> QED
      BY <2>2, <3>1, <3>2
  <2>7. Chan!Hand(e, msg)
    BY <1>2, <2>1, <2>4, <2>5, <2>6 DEF Chan!Hand
  <2> QED
    BY <2>7 DEF Chan!Next
<1> QED
  BY <1>1, <1>3, <1>4


LEMMA TaskImplements ==
  ASSUME ChanInv, FixedPrio, NEW t \in Task, PoolTask(t)
  PROVE  Chan!Next \/ ViewStays
<1> USE DEF ChanInv
<1>1. CASE GetBlock(t) \/ \E b \in Block : PutBlock(t, b)
  <2>1. Quiet /\ UNCHANGED <<OSEventType, storeVars>>
    BY <1>1 DEF GetBlock, PutBlock, msgVars, Quiet
  <2> QED
    BY <2>1, QuietClients, UntouchedStore, SameItems, SameCapacity DEF ViewStays
<1>2. CASE ReturnMsg(t)
  <2>1. Returns(t) /\ UNCHANGED <<OSEventType, storeVars>>
    BY <1>2 DEF ReturnMsg, PendEnd, Returns, PendEnds
  <2> QED
    BY <2>1, UntouchedStore, SameItems, SameCapacity, ReturnImplements
<1>3. ASSUME NEW e \in Event, TakeMsg(t, e)
      PROVE  Chan!Next
  <2>1. /\ Others(e) /\ Quiet /\ OSEventType' = OSEventType
        /\ Contents(e) # <<>> /\ Contents(e)' = Tail(Contents(e))
    BY <1>3, TakeEffect DEF TakeMsg
  <2>2. Items[e] # <<>> /\ Items' = [Items EXCEPT ![e] = Tail(@)]
    BY <2>1, OneItem
  <2>3. Chan!Take(e)
    BY <2>1, <2>2, QuietClients, SameCapacity DEF Chan!Take, ClientsStay
  <2> QED
    BY <2>3 DEF Chan!Next
<1>4. ASSUME NEW e \in Event, Flush(t, e)
      PROVE  Chan!Next
  <2>1. OSQFlush(t, e) /\ Quiet /\ OSEventType' = OSEventType
    BY <1>4 DEF Flush, OSQFlush, Quiet
  <2>2. Others(e) /\ Contents(e)' = <<>>
    BY <2>1, FlushEffect
  <2>3. Items' = [Items EXCEPT ![e] = <<>>]
    BY <2>2, OneItem
  <2>4. Chan!Flush(e)
    BY <2>1, <2>3, QuietClients, SameCapacity DEF Chan!Flush, ClientsStay
  <2> QED
    BY <2>4 DEF Chan!Next
<1>5. ASSUME NEW e \in Event, DeleteChan(t, e)
      PROVE  Chan!Next
  <2>1. PICK opt \in {"NO_PEND", "ALWAYS"} : Delete(t, e, opt)
    BY <1>5 DEF DeleteChan
  <2>2. /\ Others(e) /\ Contents(e)' = <<>>
        /\ OSEventType' = [OSEventType EXCEPT ![e] = "UNUSED"]
    BY <2>1, DeleteEffect
  <2>3. Items' = [Items EXCEPT ![e] = <<>>]
    BY <2>2, OneItem
  <2>4. Capacity' = [Capacity EXCEPT ![e] = 0]
    BY <2>2, OneCapacity DEF StoreInv
  <2>5. PICK ps \in SUBSET OSEventTbl[e] :
          ps = OSEventTbl[e] /\ Wakes(t, e, ps, Null, "ABORT")
    BY <2>1 DEF Delete, Calls, Wakes
  <2>6. /\ Waiting' = [Waiting EXCEPT ![e] = @ \ Told(ps)]
        /\ Handed' = Handed
        /\ Aborted' = [Aborted EXCEPT ![e] = @ \cup Told(ps)]
    <3>1. Wakes(t, e, ps, Null, "ABORT")
      BY <2>5
    <3> QED
      BY <3>1, WakesClients
  <2>7. Told(ps) = Waiting[e]
    BY <2>5 DEF Told, Waiting
  <2>8. Waiting' = [Waiting EXCEPT ![e] = {}]
    BY <2>6, <2>7
  <2>9. Chan!Close(e)
    BY <2>3, <2>4, <2>6, <2>7, <2>8 DEF Chan!Close
  <2> QED
    BY <2>9 DEF Chan!Next
<1>6. ASSUME NEW e \in Event, NEW type \in {"MBOX", "Q"}, CreateChan(t, e, type)
      PROVE  Chan!Next
  <2>1. PICK msg \in {Null, Note} : Create(t, e, type, msg)
    BY <1>6 DEF CreateChan
  <2>2. msg \in Pointer /\ (msg # Null => msg \in Msg)
    BY <2>1, PoolAssumption, MsgAssumption DEF Pointer
  <2>3. /\ Others(e)
        /\ Contents(e)' = IF type = "MBOX" /\ msg # Null THEN <<msg>> ELSE <<>>
    BY <2>1, <2>2, CreateEffect
  <2>4. \/ Items' = [Items EXCEPT ![e] = <<>>]
        \/ \E m \in Msg : Items' = [Items EXCEPT ![e] = <<m>>]
    BY <2>2, <2>3, OneItem
  <2> DEFINE n == IF type = "MBOX" THEN 1 ELSE QSize
  <2>5. n \in 1..QSize
    BY MsgAssumption
  <2>6. Capacity[e] = 0
    BY <2>1, CapacityOf DEF Create
  <2>7. OSEventType' = [OSEventType EXCEPT ![e] = type]
    BY <2>1 DEF Create
  <2>8. Capacity' = [Capacity EXCEPT ![e] = n]
    BY <2>7, OneCapacity DEF StoreInv
  <2>9. Quiet
    <3>1. OSEventTbl[e] = {}
      BY <2>1 DEF Create, UnusedInv
    <3>2. OSEventTbl' = OSEventTbl
      BY <2>1, <3>1 DEF Create, CoreTypeInv, TypeOK
    <3> QED
      BY <2>1, <3>2 DEF Create, Quiet, coreVars
  <2> HIDE DEF n
  <2>10. Chan!Open(e, n)
    BY <2>4, <2>6, <2>8, <2>9, QuietClients DEF Chan!Open, ClientsStay
  <2> QED
    BY <2>5, <2>10 DEF Chan!Next
<1>7. ASSUME NEW e \in Event, NEW b \in Block, NEW opt, PostBlock(t, e, b, opt)
      PROVE  Chan!Next
  BY <1>7, PostImplements, PoolAssumption DEF PostBlock
<1>8. ASSUME NEW e \in Event, NEW opt, PostNote(t, e, opt)
      PROVE  Chan!Next
  BY <1>8, PostImplements, PoolAssumption DEF PostNote
<1>9. ASSUME NEW e \in Event, NEW n \in 0..MaxTicks, PendWait(t, e, n)
      PROVE  Chan!Next
  <2>1. Blocks(t, e, n) /\ ~HasMsg(e) /\ UNCHANGED <<OSEventType, storeVars>>
    BY <1>9 DEF PendWait, Calls, InTask, Blocks, PendWaits
  <2>2. /\ Waiting' = [Waiting EXCEPT ![e] = @ \cup {t}]
        /\ Handed' = Handed /\ Aborted' = Aborted
    BY <2>1, BlocksClients
  <2>3. Items' = Items /\ Capacity' = Capacity
    BY <2>1, UntouchedStore, SameItems, SameCapacity
  <2>4. Items[e] = <<>>
    BY <2>1, ContentsTyped DEF Items, Blocks, StoreInv
  <2>5. Capacity[e] > 0
    <3>1. IsMbox(e) \/ IsQueue(e)
      BY <2>1 DEF Blocks, StoreInv, StoreTypeOK, IsMbox, IsQueue
    <3> QED
      BY <3>1, CapacityOf, MsgAssumption
  <2>6. Chan!Wait(e, t)
    BY <2>2, <2>3, <2>4, <2>5 DEF Chan!Wait
  <2> QED
    BY <2>6 DEF Chan!Next
<1>10. ASSUME NEW e \in Event, NEW opt, PendAbort(t, e, opt)
       PROVE  Chan!Next
  <2> DEFINE ps == IF opt = "BROADCAST" THEN OSEventTbl[e] ELSE {Highest(OSEventTbl[e])}
  <2>1. ps \in SUBSET OSEventTbl[e]
    BY <1>10, WaiterTyped DEF PendAbort
  <2>2. Wakes(t, e, ps, Null, "ABORT") /\ UNCHANGED <<OSEventType, storeVars>>
    BY <1>10, <2>1 DEF PendAbort, Calls, Wakes
  <2> HIDE DEF ps
  <2>3. /\ Told(ps) \subseteq Waiting[e]
        /\ Waiting' = [Waiting EXCEPT ![e] = @ \ Told(ps)]
        /\ Handed' = Handed
        /\ Aborted' = [Aborted EXCEPT ![e] = @ \cup Told(ps)]
    BY <2>1, <2>2, WakesClients
  <2>4. Items' = Items /\ Capacity' = Capacity
    BY <2>2, UntouchedStore, SameItems, SameCapacity
  <2>5. Chan!Abort(e, Told(ps)) /\ Told(ps) \in SUBSET Task
    BY <2>3, <2>4 DEF Chan!Abort, Told
  <2> QED
    BY <2>5 DEF Chan!Next
<1> QED
  BY <1>1, <1>2, <1>3, <1>4, <1>5, <1>6, <1>7, <1>8, <1>9, <1>10 DEF PoolTask

LEMMA NextImplements ==
  ChanInv /\ FixedPrio /\ [Next]_poolVars => Chan!Next \/ ViewStays
<1> SUFFICES ASSUME ChanInv, FixedPrio, [Next]_poolVars PROVE Chan!Next \/ ViewStays
  OBVIOUS
<1>1. CASE Kernel /\ UNCHANGED <<OSTCBMsg, OSEventType, storeVars, memVars, held, dropped>>
  BY <1>1, KernelClients, UntouchedStore, SameItems, SameCapacity DEF ViewStays, ChanInv
<1>2. CASE UNCHANGED poolVars
  <2>1. Quiet /\ UNCHANGED <<OSEventType, storeVars>>
    BY <1>2 DEF poolVars, msgVars, Quiet
  <2> QED
    BY <2>1, QuietClients, UntouchedStore, SameItems, SameCapacity DEF ViewStays, ChanInv
<1> QED
  BY <1>1, <1>2, TaskImplements DEF Next

LEMMA InitImplements == Init => Chan!Init
<1> SUFFICES ASSUME Init PROVE Chan!Init
  OBVIOUS
<1>1. /\ OSEventType = [e \in Event |-> "UNUSED"]
      /\ OSEventTbl = [e \in Event |-> {}]
      /\ \A t \in Task : pc[t] = "task"
  BY DEF Init, MsgInit, CoreInit, AllTask
<1>2. Capacity = [e \in Event |-> 0] /\ Items = [e \in Event |-> <<>>]
  BY <1>1 DEF Capacity, Items, Contents, IsMbox, IsQueue
<1>3. Waiting = [e \in Event |-> {}]
  BY <1>1 DEF Waiting
<1>4. Handed = [e \in Event |-> {}] /\ Aborted = [e \in Event |-> {}]
  BY <1>1 DEF Handed, Aborted, Ended, InPend
<1> QED
  BY <1>2, <1>3, <1>4 DEF Chan!Init

\* The queues of os_q.c and the mailboxes of os_mbox.c are the abstract ones:
\* messages come out in the order they are in, each goes to one pend or, when
\* broadcast, to all that waited, the most urgent first, none is kept while a
\* task waits, and a pend that returns has what it was given, for any tasks,
\* events and sizes and whatever timeouts, aborts, flushes, deletes and ticks
\* come between.
THEOREM ChannelsImplemented == Spec => ChanImplements
<1>1. Init => Chan!Init
  BY InitImplements
<1>2. ChanInv /\ FixedPrio /\ [Next]_poolVars => [Chan!Next]_(Chan!vars)
  BY NextImplements DEF ViewStays, ClientsStay, Chan!vars
<1> QED
  BY AlwaysChan, PoolAlwaysFixed, <1>1, <1>2, PTL DEF Spec, ChanImplements, Chan!Spec

=============================================================================
