-------------------------------- MODULE OSMsg --------------------------------
(***************************************************************************)
(* Mailboxes (os_mbox.c) and message queues (os_q.c) on the kernel of      *)
(* OSCore.  Both are one event control block each: they differ in where a  *)
(* message waits when no task does, a pointer in the event for a mailbox,  *)
(* a ring of pointers for a queue.  A task that waits gets its message in  *)
(* its TCB, and finds it there when it next runs.                          *)
(***************************************************************************)
EXTENDS OSCore, Sequences

CONSTANTS
  Msg,      \* what the pointers the application posts point to
  Null,     \* the null pointer
  QSize     \* OSQSize

ASSUME MsgAssumption ==
  /\ Null \notin Msg
  /\ QSize \in Nat \ {0}

VARIABLES
  OSTCBMsg,     \* per task
  OSEventType,  \* per event; "UNUSED" are those in OSEventFreeList
  OSEventPtr,   \* per event, the message of a mailbox
  OSQTbl,       \* per event, the array OSQStart .. OSQEnd - 1 of a queue
  OSQIn, OSQOut, OSQEntries

boxVars   == <<OSEventPtr>>
qVars     == <<OSQTbl, OSQIn, OSQOut, OSQEntries>>
storeVars == <<boxVars, qVars>>
msgVars   == <<coreVars, OSTCBMsg, OSEventType, storeVars>>

IsMbox(e)  == OSEventType[e] = "MBOX"
IsQueue(e) == OSEventType[e] = "Q"

Ring == [0..QSize - 1 -> Msg \cup {Null}]
EmptyRing == [i \in 0..QSize - 1 |-> Null]

MsgTypeOK ==
  /\ TypeOK
  /\ OSTCBMsg \in [AllTask -> Msg \cup {Null}]
  /\ OSEventType \in [Event -> {"UNUSED", "MBOX", "Q"}]
  /\ OSEventPtr \in [Event -> Msg \cup {Null}]
  /\ OSQTbl \in [Event -> Ring]
  /\ OSQIn \in [Event -> 0..QSize - 1]
  /\ OSQOut \in [Event -> 0..QSize - 1]
  /\ OSQEntries \in [Event -> 0..QSize]

MsgInit == /\ CoreInit
           /\ OSTCBMsg = [t \in AllTask |-> Null]
           /\ OSEventType = [e \in Event |-> "UNUSED"]
           /\ OSEventPtr = [e \in Event |-> Null]
           /\ OSQTbl = [e \in Event |-> EmptyRing]
           /\ OSQIn = [e \in Event |-> 0]
           /\ OSQOut = [e \in Event |-> 0]
           /\ OSQEntries = [e \in Event |-> 0]

InTask(t) == Running(t) /\ pc[t] = "task"

\* The running task calls a service of the event, which has checked its type.
Calls(t, e) == InTask(t) /\ OSEventType[e] # "UNUSED"

-----------------------------------------------------------------------------
(* Where a message waits *)

Next1(i) == IF i + 1 = QSize THEN 0 ELSE i + 1
Prev1(i) == IF i = 0 THEN QSize - 1 ELSE i - 1

\* What a service finds if the type is that it asks for.  The check comes
\* before the critical section; see Delete.
HasMsg(e) == IF IsMbox(e) THEN OSEventPtr[e] # Null ELSE OSQEntries[e] > 0
IsFull(e) == IF IsMbox(e) THEN OSEventPtr[e] # Null ELSE OSQEntries[e] >= QSize

\* The message a pend or an accept takes.
FirstMsg(e) == IF IsMbox(e) THEN OSEventPtr[e] ELSE OSQTbl[e][OSQOut[e]]

\* Mutant: the pointer is not wrapped at the end of the array.
Remove_NoWrap(e) ==
  IF IsMbox(e)
  THEN OSEventPtr' = [OSEventPtr EXCEPT ![e] = Null] /\ UNCHANGED qVars
  ELSE /\ OSQOut' = [OSQOut EXCEPT ![e] = @ + 1]
       /\ OSQTbl' = [OSQTbl EXCEPT ![e][OSQOut[e]] = Null]
       /\ OSQEntries' = [OSQEntries EXCEPT ![e] = @ - 1]
       /\ UNCHANGED <<boxVars, OSQIn>>

\* The code leaves the pointer in the slot it has read; the model blanks it,
\* since a slot outside the ring that is read as a message is an error.
Remove(e) ==
  IF IsMbox(e)
  THEN OSEventPtr' = [OSEventPtr EXCEPT ![e] = Null] /\ UNCHANGED qVars
  ELSE /\ OSQOut' = [OSQOut EXCEPT ![e] = Next1(@)]
       /\ OSQTbl' = [OSQTbl EXCEPT ![e][OSQOut[e]] = Null]
       /\ OSQEntries' = [OSQEntries EXCEPT ![e] = @ - 1]
       /\ UNCHANGED <<boxVars, OSQIn>>

\* OSQPostFront and OS_POST_OPT_FRONT: before the oldest.
InsertFront(e, msg) ==
  /\ OSQOut' = [OSQOut EXCEPT ![e] = Prev1(@)]
  /\ OSQTbl' = [OSQTbl EXCEPT ![e][OSQOut'[e]] = msg]
  /\ OSQEntries' = [OSQEntries EXCEPT ![e] = @ + 1]
  /\ UNCHANGED <<boxVars, OSQIn>>

Insert(e, msg) ==
  IF IsMbox(e)
  THEN OSEventPtr' = [OSEventPtr EXCEPT ![e] = msg] /\ UNCHANGED qVars
  ELSE /\ OSQTbl' = [OSQTbl EXCEPT ![e][OSQIn[e]] = msg]
       /\ OSQIn' = [OSQIn EXCEPT ![e] = Next1(@)]
       /\ OSQEntries' = [OSQEntries EXCEPT ![e] = @ + 1]
       /\ UNCHANGED <<boxVars, OSQOut>>

-----------------------------------------------------------------------------
(* Services.  OSQ... and OSMbox... of the same name are one action. *)

\* OS_EventTaskRdy with the message it hands over.
MsgRdy(e, ps, msg, result) ==
  /\ OS_EventTaskRdy(e, ps, result)
  /\ OSTCBMsg' = [t \in AllTask |-> IF OSTCBPrio[t] \in ps THEN msg ELSE OSTCBMsg[t]]

\* OSQPend and OSMboxPend up to their call of OS_Sched.
PendTake(t, e) ==
  /\ Calls(t, e) /\ OSIntNesting = 0 /\ OSLockNesting = 0
  /\ HasMsg(e)
  /\ Remove(e)
  /\ UNCHANGED <<coreVars, OSTCBMsg, OSEventType>>

PendWait(t, e, timeout) ==
  /\ Calls(t, e) /\ OSIntNesting = 0 /\ OSLockNesting = 0
  /\ ~HasMsg(e)
  /\ OS_EventTaskWait(t, e, timeout)
  /\ pc' = [pc EXCEPT ![t] = "pendsched"]
  /\ pevent' = [pevent EXCEPT ![t] = e]
  /\ UNCHANGED <<swVars, nestVars, OSTCBPrio, OSTCBMsg, OSEventType,
                 storeVars>>

\* What the pend returns, and its second half, when the task runs again.
PendResultMsg(t) == IF OSTCBStatPend[t] = "OK" THEN OSTCBMsg[t] ELSE Null

\* Mutant: after a timeout the task stays in the wait list.
PendEnd_NoRemove(t) ==
  /\ Running(t) /\ pc[t] = "wake"
  /\ UNCHANGED OSEventTbl
  /\ OSTCBStat' = [OSTCBStat EXCEPT ![t] = {}]
  /\ OSTCBStatPend' = [OSTCBStatPend EXCEPT ![t] = "OK"]
  /\ OSTCBEventPtr' = [OSTCBEventPtr EXCEPT ![t] = NoEvent]
  /\ OSTCBMsg' = [OSTCBMsg EXCEPT ![t] = Null]
  /\ pc' = [pc EXCEPT ![t] = "task"]
  /\ pevent' = [pevent EXCEPT ![t] = NoEvent]
  /\ UNCHANGED <<OSRdyTbl, swVars, nestVars, OSTCBPrio, OSTCBDly,
                 OSEventType, storeVars>>

PendEnd(t) ==
  /\ Running(t) /\ pc[t] = "wake"
  /\ IF OSTCBStatPend[t] = "TO" THEN OS_EventTaskRemove(t, pevent[t])
                                ELSE UNCHANGED OSEventTbl
  /\ OSTCBStat' = [OSTCBStat EXCEPT ![t] = {}]
  /\ OSTCBStatPend' = [OSTCBStatPend EXCEPT ![t] = "OK"]
  /\ OSTCBEventPtr' = [OSTCBEventPtr EXCEPT ![t] = NoEvent]
  /\ OSTCBMsg' = [OSTCBMsg EXCEPT ![t] = Null]
  /\ pc' = [pc EXCEPT ![t] = "task"]
  /\ pevent' = [pevent EXCEPT ![t] = NoEvent]
  /\ UNCHANGED <<OSRdyTbl, swVars, nestVars, OSTCBPrio, OSTCBDly,
                 OSEventType, storeVars>>

\* OSQAccept and OSMboxAccept
Accept(t, e) ==
  /\ Calls(t, e)
  /\ HasMsg(e)
  /\ Remove(e)
  /\ UNCHANGED <<coreVars, OSTCBMsg, OSEventType>>

\* OSQPostOpt and OSMboxPostOpt.  OSQPost and OSMboxPost are the case of no
\* option, OSQPostFront that of "FRONT"; a mailbox does not look at "FRONT".
\* A post to a full queue or mailbox changes nothing.
PostOpt(t, e, msg, opt) ==
  LET waiting == OSEventTbl[e]
      ps == IF "BROADCAST" \in opt THEN waiting ELSE {Highest(waiting)}
  IN
  /\ Calls(t, e)
  /\ \/ /\ waiting # {}
        /\ MsgRdy(e, ps, msg, "OK")
        /\ pc' = IF "NO_SCHED" \in opt THEN pc ELSE [pc EXCEPT ![t] = "sched"]
        /\ UNCHANGED storeVars
     \/ /\ waiting = {} /\ ~IsFull(e)
        /\ IF "FRONT" \in opt /\ IsQueue(e) THEN InsertFront(e, msg)
                                             ELSE Insert(e, msg)
        /\ UNCHANGED <<OSRdyTbl, tcbVars, OSEventTbl, OSTCBMsg, pc>>
  /\ UNCHANGED <<swVars, nestVars, OSTCBPrio, pevent, OSEventType>>

\* OSQPendAbort and OSMboxPendAbort
PendAbort(t, e, opt) ==
  /\ Calls(t, e)
  /\ OSEventTbl[e] # {}
  /\ MsgRdy(e, IF opt = "BROADCAST" THEN OSEventTbl[e]
                                    ELSE {Highest(OSEventTbl[e])}, Null, "ABORT")
  /\ pc' = [pc EXCEPT ![t] = "sched"]
  /\ UNCHANGED <<swVars, nestVars, OSTCBPrio, pevent, OSEventType,
                 storeVars>>

OSQFlush(t, e) ==
  /\ InTask(t) /\ IsQueue(e)
  /\ OSQIn' = [OSQIn EXCEPT ![e] = 0]
  /\ OSQOut' = [OSQOut EXCEPT ![e] = 0]
  /\ OSQEntries' = [OSQEntries EXCEPT ![e] = 0]
  /\ OSQTbl' = [OSQTbl EXCEPT ![e] = EmptyRing]
  /\ UNCHANGED <<coreVars, OSTCBMsg, OSEventType, boxVars>>

\* OSMboxCreate and OSQCreate, on one of the free events.  A mailbox may be
\* created with a message in it.
Create(t, e, type, msg) ==
  /\ InTask(t)
  /\ OSEventType[e] = "UNUSED"
  /\ OSEventType' = [OSEventType EXCEPT ![e] = type]
  /\ OSEventPtr' = [OSEventPtr EXCEPT ![e] = IF type = "MBOX" THEN msg ELSE Null]
  /\ OSQTbl' = [OSQTbl EXCEPT ![e] = EmptyRing]
  /\ OSQIn' = [OSQIn EXCEPT ![e] = 0]
  /\ OSQOut' = [OSQOut EXCEPT ![e] = 0]
  /\ OSQEntries' = [OSQEntries EXCEPT ![e] = 0]
  /\ OSEventTbl' = [OSEventTbl EXCEPT ![e] = {}]
  /\ UNCHANGED <<OSRdyTbl, swVars, nestVars, OSTCBPrio, tcbVars, callVars, OSTCBMsg>>

\* OSQDel and OSMboxDel.  Assumed of the application: no other task is then
\* between the type check of a service on e and its critical section.
Delete(t, e, opt) ==
  /\ Calls(t, e)
  /\ opt = "NO_PEND" => OSEventTbl[e] = {}
  /\ OSEventType' = [OSEventType EXCEPT ![e] = "UNUSED"]
  /\ MsgRdy(e, OSEventTbl[e], Null, "ABORT")
  /\ pc' = IF OSEventTbl[e] # {} THEN [pc EXCEPT ![t] = "sched"] ELSE pc
  /\ UNCHANGED <<swVars, nestVars, OSTCBPrio, pevent, storeVars>>

\* The tick without the hook: its post is OSSem's.
MsgTick == SysTickEnter /\ UNCHANGED <<OSRdyTbl, swVars, OSTCBPrio, tcbVars,
                                       OSEventTbl, callVars>>

=============================================================================
