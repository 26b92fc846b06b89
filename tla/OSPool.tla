------------------------------- MODULE OSPool --------------------------------
(***************************************************************************)
(* Mailboxes, queues and a memory partition used together, the way uC/OS-II*)
(* means them to be: a task gets a block, posts its address, whoever       *)
(* receives the address owns the block and puts it back.  The application  *)
(* is any that keeps to this; it broadcasts only what is not a block.      *)
(***************************************************************************)
EXTENDS OSMsg, OSMem

CONSTANT Note    \* a message that is no block: a static object

ASSUME PoolAssumption == Msg = Block \cup {Note} /\ Note \notin Block

VARIABLES
  held,      \* application: the blocks each task owns
  dropped    \* the blocks a flush has made the application lose

poolVars == <<msgVars, memVars, held, dropped>>

PoolTypeOK == /\ MsgTypeOK
              /\ MemTypeOK
              /\ held \in [Task -> SUBSET Block]
              /\ dropped \subseteq Block

Init == /\ MsgInit
        /\ MemInit
        /\ held = [t \in Task |-> {}]
        /\ dropped = {}

Receive(t, msg) == held' = [held EXCEPT ![t] = IF msg \in Block THEN @ \cup {msg} ELSE @]

GetBlock(t) == /\ InTask(t)
               /\ OSMemGet
               /\ Receive(t, OSMemFreeList)
               /\ UNCHANGED <<msgVars, dropped>>

PutBlock(t, b) == /\ InTask(t) /\ b \in held[t]
                  /\ OSMemPut(b)
                  /\ held' = [held EXCEPT ![t] = @ \ {b}]
                  /\ UNCHANGED <<msgVars, dropped>>

\* The owner has written its message to the block, over the word the link
\* was in.
PostBlock(t, e, b, opt) == /\ b \in held[t]
                           /\ PostOpt(t, e, b, opt)
                           /\ held' = [held EXCEPT ![t] = @ \ {b}]
                           /\ link' = [link EXCEPT ![b] = Nil]
                           /\ UNCHANGED <<OSMemFreeList, OSMemNFree, dropped>>

PostNote(t, e, opt) == /\ PostOpt(t, e, Note, opt)
                       /\ UNCHANGED <<memVars, held, dropped>>

TakeMsg(t, e) == /\ PendTake(t, e) \/ Accept(t, e)
                 /\ Receive(t, FirstMsg(e))
                 /\ UNCHANGED <<memVars, dropped>>

ReturnMsg(t) == /\ PendEnd(t)
                /\ Receive(t, PendResultMsg(t))
                /\ UNCHANGED <<memVars, dropped>>

Contents(e) ==
  CASE IsMbox(e)  -> IF OSEventPtr[e] = Null THEN <<>> ELSE <<OSEventPtr[e]>>
    [] IsQueue(e) -> [i \in 1..OSQEntries[e] |-> OSQTbl[e][(OSQOut[e] + i - 1) % QSize]]
    [] OTHER      -> <<>>

In(e, b) == \E i \in DOMAIN Contents(e) : Contents(e)[i] = b

Flush(t, e) == /\ OSQFlush(t, e)
               /\ dropped' = dropped \cup {b \in Block : In(e, b)}
               /\ UNCHANGED <<memVars, held>>

CreateChan(t, e, type) == /\ \E msg \in {Null, Note} : Create(t, e, type, msg)
                          /\ UNCHANGED <<memVars, held, dropped>>

DeleteChan(t, e) == /\ \E opt \in {"NO_PEND", "ALWAYS"} : Delete(t, e, opt)
                    /\ dropped' = dropped \cup {b \in Block : In(e, b)}
                    /\ UNCHANGED <<memVars, held>>

PoolTask(t) ==
  \/ GetBlock(t)
  \/ ReturnMsg(t)
  \/ \E b \in Block : PutBlock(t, b)
  \/ \E e \in Event :
       \/ TakeMsg(t, e)
       \/ Flush(t, e)
       \/ DeleteChan(t, e)
       \/ \E type \in {"MBOX", "Q"} : CreateChan(t, e, type)
       \/ \E b \in Block, opt \in SUBSET {"FRONT"} : PostBlock(t, e, b, opt)
       \/ \E opt \in SUBSET {"BROADCAST", "NO_SCHED"} : PostNote(t, e, opt)
       \/ /\ \/ \E n \in 0..MaxTicks : PendWait(t, e, n)
             \/ \E opt \in {"NONE", "BROADCAST"} : PendAbort(t, e, opt)
          /\ UNCHANGED <<memVars, held, dropped>>

Kernel == \/ PendSV_Handler
          \/ MsgTick
          \/ OSTimeTick
          \/ SysTickExit
          \/ \E t \in Task : OS_Sched(t)

Next == \/ Kernel /\ UNCHANGED <<OSTCBMsg, OSEventType, storeVars, memVars, held, dropped>>
        \/ \E t \in Task : PoolTask(t)

Spec == Init /\ [][Next]_poolVars

-----------------------------------------------------------------------------
InPend(e) == {t \in Task : pc[t] \in {"pendsched", "wake"} /\ pevent[t] = e}
Ended(e, result) == {t \in InPend(e) : /\ "PEND" \notin OSTCBStat[t]
                                       /\ OSTCBStatPend[t] = result}

\* Blocks handed to a task that has not run since.
InTCB(t) == IF pc[t] \in {"pendsched", "wake"} /\ OSTCBStatPend[t] = "OK"
            THEN {OSTCBMsg[t]} \cap Block ELSE {}

\* No block is lost, and none is in two hands: each is in the free list,
\* with one task, in one place of one queue or mailbox, or handed to one task
\* that has yet to run, whatever timeouts, aborts and posts come between
\* (OSMemGet and OSMemPut against the two halves of the pends).
BlockInOnePlace ==
  LET free == ListFrom(OSMemFreeList, OSMemNFree)
      Places(b) == UNION {
        {<<"free", i>> : i \in {j \in 1..OSMemNFree : free[j] = b}},
        {<<"held", t>> : t \in {u \in Task : b \in held[u]}},
        {<<"handed", t>> : t \in {u \in Task : b \in InTCB(u)}},
        {<<"kept", p>> : p \in {q \in Event \X (1..QSize) :
           q[2] \in DOMAIN Contents(q[1]) /\ Contents(q[1])[q[2]] = b}},
        IF b \in dropped THEN {<<"dropped">>} ELSE {}}
  IN \A b \in Block : Cardinality(Places(b)) = 1

\* What the callers see of the queues and mailboxes is a MsgQueue: messages in
\* order, each to one client or to all that waited, and none kept while a
\* client waits.
Capacity == [e \in Event |-> CASE IsMbox(e) -> 1 [] IsQueue(e) -> QSize [] OTHER -> 0]
Items    == [e \in Event |-> Contents(e)]
Waiting  == [e \in Event |-> {t \in Task : OSTCBPrio[t] \in OSEventTbl[e]}]
Handed   == [e \in Event |-> {<<t, OSTCBMsg[t]>> : t \in Ended(e, "OK")}]
Aborted  == [e \in Event |-> Ended(e, "ABORT")]

Chan == INSTANCE MsgQueue WITH
  Client <- Task, Chan <- Event, Message <- Msg, Rank <- InitPrio,
  MaxCapacity <- QSize, capacity <- Capacity, items <- Items,
  waiting <- Waiting, handed <- Handed, aborted <- Aborted

ChanImplements == Chan!Spec

=============================================================================
