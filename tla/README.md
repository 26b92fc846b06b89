# Verification of the STM32F103 / µC/OS-II network clock

The repository is the firmware of a small NTP/SNMP device: an STM32F103 runs
µC/OS-II v2.91 (`src/UCOSII`), a WIZnet W5500 hangs on SPI1
(`src/HARDWARE/ethernet`), and six tasks (`src/USER/app/myapp2.c`) serve time,
fetch time, answer SNMP and watch the link.  This directory holds TLA+ modules
translated from that source, TLC configurations that check them on small
instances, and TLAPS proofs for every size.

* Part 1 – the system: components, state, interactions, hard behaviours
* Part 2 – the modules and how they correspond to the code
* Part 3 – the runs: what each shows, bounds, fairness
* Part 4 – what is proved and how
* Part 5 – disagreements found
* Part 6 – what is not modelled, and the plan

## 1. The system

### 1.1 Components

| Component | Source | State it keeps | Operations |
|---|---|---|---|
| Scheduler | `UCOSII/CORE/os_core.c`, `UCOSII/PORT/os_cpu_a.asm` | `OSRdyGrp/OSRdyTbl`, `OSPrioCur`, `OSPrioHighRdy`, `OSTCBCur`, `OSTCBHighRdy`, `OSIntNesting`, `OSLockNesting`, the pending bit of PendSV | `OS_Sched`, `OSIntExit`, `OSSchedLock/Unlock`, `PendSV_Handler`, `OSStart` |
| Ticks and delays | `os_core.c` (`OSTimeTick`), `os_time.c`, `os_cpu_c.c` (`SysTick_Handler`) | `OSTCBDly`, `OSTime` | tick, `OSTimeDly`, `OSTimeDlyHMSM`, `OSTimeDlyResume`, `OSTimeGet/Set` |
| Event wait lists | `os_core.c` (`OS_EventTask*`) | `OSEventGrp/OSEventTbl` per event, `OSTCBEventPtr`, `OSTCBStat`, `OSTCBStatPend` | wait, ready, remove, and the multi-event forms |
| Semaphores | `os_sem.c` | `OSEventCnt` | pend, post, accept, abort, set, create, delete |
| Mailboxes, queues | `os_mbox.c`, `os_q.c` | a message pointer; a ring of them | pend, post, post-front, broadcast, flush, abort, ... |
| Mutexes | `os_mutex.c` | owner, the ceiling (PIP) and the owner's own priority in `OSEventCnt` | pend (raises the owner), post (lowers it), accept, delete |
| Event flags | `os_flag.c` | flag bits, a list of waiting nodes | pend (all/any, set/clear, consume), post, accept |
| Timers | `os_tmr.c` | a wheel of doubly linked lists, `OSTmrTime`, a semaphore | create, start, stop, delete; the timer task |
| Memory partitions | `os_mem.c` | a free list | create, get, put |
| Tasks | `os_task.c`, `os_core.c` (`OS_TCBInit`) | TCB pool, `OSTCBPrioTbl` | create, delete, delete request, suspend, resume, change priority |
| NTP server | `ethernet/ntpserver.c` | `recvTime`, `micros_recv`, one packet buffer | `NTPUDP` from a task every 2 s **and** from `EXTI3_IRQHandler` |
| Time client | `ethernet/SNTP/sntp.c`, `ethernet/DNS/dns.c`, `myapp2.c` | `timenow`, `TimeIsSet`, `dns_1s_tick`, `retry_count` | `SNTP_init` (DNS, before `OSStart`), `SNTP_run`, `KeepTime` |
| Socket layer | `ethernet/socket.c`, `ethernet/W5500/w5500.c` | `sock_is_sending`, `sock_remained_size`, `sock_pack_info`; the chip's registers | `socket`, `close`, `send`, `recv`, `sendto`, `recvfrom`, ... |
| SNMP agent | `ethernet/SNMP/snmp.c` | request/response buffers, the OID table | get, get-next, set, trap |
| HTTP server | `ethernet/httpServer` | per-socket request state | (its run function is called by no task) |
| DHCP, TFTP, FTP, MQTT | `ethernet/{DHCP,TFTP,FTPServer,FTPClient,MQTT}` | – | not in the build |
| Drivers | `HARDWARE/*`, `SYSTEM/*` | – | register access |

### 1.2 How they interact

* Tasks call kernel services; a service's body runs between
  `OS_ENTER_CRITICAL` and `OS_EXIT_CRITICAL` (PRIMASK), then calls `OS_Sched`
  in a critical section of its own.  Between the two, interrupts are on.
* `SysTick_Handler` keeps the reset priority, the highest; it runs
  `OSTimeTickHook`, which every 10 ticks posts the timer semaphore, then walks
  the task list, then calls `OSIntExit`.
* `OS_Sched` and `OSIntExit` only set PendSV pending.  `PendSV_Handler`, of the
  lowest priority, switches to whatever `OSTCBHighRdy` holds by then.
* USART1, TIM2 and EXTI3 handlers call `OSIntExit` without `OSIntEnter`.
* The application's tasks share `timenow`, `TimeIsSet` and the W5500 without
  any kernel object; the critical-section callbacks of the W5500 driver are
  empty.

### 1.3 What is hard

Interleavings of service bodies, ticks and the delayed `OS_Sched`; the two
halves of a pend, between which a task can be granted, aborted, timed out,
suspended and resumed in any order; a post that meets a timeout already
recorded; priorities renamed while a task is in lists; the locked scheduler;
blocking network calls that wait for time kept by tasks that do not run yet;
one C function that serves requests from a task and from an interrupt handler
with shared buffers; returns from inside a critical section; frames on the SPI
bus that a more urgent user cuts in two; requests and answers lost or late.
`PROJECT.json` lists each hazard at its line.

## 2. The modules

```
the kernel
  OSCore ─┬─ OSSem ── OSTask ── MCTask            OSSem refines Semaphore (MCSem)
          ├─ OSMsg + OSMem ── OSPool ── MCPool    OSMsg refines MsgQueue
          ├─ OSMutex ── MCMutex
          └─ OSFlag ── MCFlag
  OSTmr ── MCTmr                                  OSTmr refines Timers
the application
  NTPServer ── MCNTPServer    W5500Bus ── MCW5500Bus
  DNSClient    SNTPClient
proofs
  OSCoreProof ─┬─ OSSemProof (OSSem, OSTask)
               ├─ OSMutexProof
               ├─ OSPoolProof (OSPool, OSMsg, OSMem)
               └─ OSFlagProof
  OSTmrProof (OSTmr against Timers)
  NTPServerProof    NetworkProof (DNSClient, SNTPClient, W5500Bus)
```

The modules of the application take from the kernel what the code relies on:
which of two tasks preempts the other, that a handler runs to its end, that a
delay ends.  They do not extend `OSCore`: the application calls no kernel
service but delays and task creation.

**`OSCore`** – scheduler, PendSV, tick, delays, suspension, wait lists.  The
variables carry the kernel's names.  The bitmaps `OSRdyTbl` and `OSEventTbl`
are sets of priorities, `OSUnMapTbl`'s lookup is `Highest`, the least element;
`OSTCBStat` is its set of flags.  `pc[t]` says how far task `t` is in a
service:

| pc | the task is |
|---|---|
| `task` | in application code, free to call any service |
| `sched` | in a service, past its critical section, about to call `OS_Sched` |
| `pendsched` | the same, in a pend that has to wait |
| `wake` | in the pend, past `OS_Sched`, before its second critical section |

One action is one critical section: `OSTimeDly`, `OSTimeDlyResume`,
`OSTaskSuspend`, `OSTaskResume`, `OSSchedLock`, `OSSchedUnlock`, `OS_Sched`,
`PendSV_Handler`, and for the tick `SysTickEnter`, `OSTimeTick`, `SysTickExit`.
A task acts only when it is current, no handler runs and no switch is due
(`Running`): PendSV preempts any task as soon as no other handler is active.

**`OSSem`** – the semaphore services over it, with `SysTick_Handler` including
the hook's post.  `OSSemPend` and `OSSemPendEnd` are the two critical sections
of the C function.  Returns that change nothing (`OS_ERR_PEND_LOCKED`,
`OS_ERR_SEM_OVF`, an accept of an empty semaphore) are disabled actions or
steps that change nothing; so it is in the other modules.

**`Semaphore`** – what a semaphore promises: each client is outside, waiting,
granted or aborted; a post goes to the most urgent waiter or into the count; a
client leaves with exactly one token, or with none after a timeout or an
abort.  `Sem == INSTANCE Semaphore WITH ...` maps a wait list to the waiting set
(`Waiting`) and the TCB's result to the outcome (`Granted`, `Aborted`).

**`OSTask`** – tasks that come, go and change their number, over `OSSem`.
`OSTCBPrio[t]` is `NoPrio` while `t`'s control block is free.  `OSTaskCreate` is
its three critical sections: the reservation (`reserved[t]`), `OS_TCBInit` up to
the entry in `OSTCBPrioTbl` (`newborn[t]`), and the part that makes the task
ready.  `OSTaskDel`'s two sections are one step: between them the scheduler is
locked and the task is in no list.  With `Careful` the application renames no
task whose pend has ended and which has not run since, calls no service on a
task that another one is still creating, and under the scheduler lock neither
deletes its own task nor changes its priority.

**`OSMsg`** – mailboxes and queues, a mailbox being a queue of one: pend,
accept, post, post to the front, the options of `OSQPostOpt` and
`OSMboxPostOpt`, broadcast, flush, abort and delete.  The ring is the array
with `OSQIn` and `OSQOut` as indices that wrap.  A service tests the event's
type before its critical section; the model assumes, as the code does, that
nobody deletes the event between the two.

**`MsgQueue`** – the promise: a sequence of messages, each given to one taker, in
order, the most urgent waiter first.  `ChanImplements` is the refinement.

**`OSMem`** – one memory partition, whose free list is linked through the words
of the blocks themselves.

**`OSPool`** – the composition: tasks get blocks, post their addresses, and the
receiver puts them back.  `held` and `dropped` are the application's.  It
broadcasts only messages that are no blocks.

**`OSMutex`** – mutexes with and without a ceiling.  The owner's raise and its
end change the priorities in the ready list, in wait lists and in
`OSTCBPrioTbl`, which is here a variable of its own (`PrioTbl`).  `inside` is
the application's: who uses what the mutex protects.  With `Careful` the
ceilings are above the tasks that compete, a task neither sleeps nor is
suspended while it owns or awaits a mutex, has one at a time, and no mutex is
deleted between a grant and the task's return.

**`OSFlag`** – event flag groups.  Their wait list is a doubly linked list of
nodes on the stacks of the pending tasks (`links`, `node`); the free groups are
linked through the field that is `OSFlagWaitList` in a used one, and the model
keeps that double use.  `WaitList` reads the list, as the loops of `OSFlagPost` and
`OSFlagDel` do, and `Unlinks` takes nodes out in the order of that walk.  With
`Careful` no group is deleted while a task is in its pend: the code allows it
(`OS_DEL_ALWAYS`), and what it does then to the free groups is in part 5.

**`OSTmr`** – the timer wheel: spokes as doubly linked lists, `OSTmrMatch` and
`OSTmrTime` modulo `TimeMod` (2^32 in the code), the free list, the count of the
signalling semaphore.  `OSTmr_Task` is one action per step of its loop because a
callback is called in the middle of it, with `ptmr_next` already noted; a
callback may call every service.  With `Careful` it leaves the noted timer
alone.

**`Timers`** – the promise: each running timer has a time left, which goes down
with every signal; it fires when none is left and not before, and in the end
it does.  `TimersImplement` is the refinement, fairness included.

**`NTPServer`** – `NTPUDP` with its two callers, the task `NTPServer` and
`EXTI3_IRQHandler`.  `pc[c]` is the point a caller has reached in `NTPUDP`:
`enter` (the socket's state), `size`, `recv`, `stamp`, `send`, `event`, `leave`,
`return`.  PRIMASK is the variable `primask`, because `NTPUDP` has returns
between `OS_ENTER_CRITICAL` and `OS_EXIT_CRITICAL`; with it set no handler runs
and a delay returns at once, since PendSV never comes.  The chip's side – the
datagrams in the receive buffer, the RECV flag, the level of INTn, the edge
EXTI latches – is external, modelled from the registers the driver reads.
A datagram has a size, `RawSize`, its 8 bytes of header in the chip included.
`getSn_RX_RSR` is the sum over all that wait, and `NTPUDP` compares that sum with
the 56 bytes of an NTP message, so that short datagrams which come to 56
together are read as well.  `Recvfrom` takes the first and writes its payload to
the start of `clientPacket`: a shorter one leaves the stamp of an earlier request
in bytes 40 to 47, which is all the model keeps of the packet.  An empty one
makes it return 0, and `NTPUDP_RecvError` is the return of line 43, as
`NTPUDP_SendError` is that of line 102.  `recvTime` is a number with its byte order,
since `NTPUDP` converts it in place.  `arrivedAt`, `replies` and `failed` are history.

**`DNSClient`** – `DNS_run`'s loop and `check_DNS_timeout`, with a network that
loses and delays.  `BeforeOSStart` tells `main`'s call, the only one in the
firmware, when no task counts `dns_1s_tick` yet, from the use that `dns.h`
describes, a call while the one-second handler runs.

**`SNTPClient`** – the tasks `KeepTime` and `GetTimeFromNTPServer` with
`SNTP_run`.  `timenow++` is a load and a store; the task's delays, the life of
messages and real time are counted in half seconds.

**`W5500Bus`** – `WIZCHIP_READ`, `_WRITE`, `_READ_BUF` and `_WRITE_BUF` as
frames: select, header, data bytes, deselect.  The users are the EXTI3 handler
and tasks, ordered by `Rank`; a user acts only when nobody more urgent is in a
frame.  `Protected` says whether the critical-section callbacks hold off
interrupts; in this firmware they are the empty default functions.

A definition named with a suffix after a `Mutant:` comment is a plausible bug
of the definition under it; `PROJECT.json` says which property rejects it.

## 3. The runs

| Run | Question | Instance |
|---|---|---|
| `sem` | Do the lists, the schedule and the semaphores stay right under every interleaving; does the urgent task run and a timed pend return? | 2 tasks, the application's semaphore and the timers', timeouts ≤ 2, lock depth 1, count ≤ 1, a post every second tick |
| `tasks` | Do the lists follow tasks that are created, deleted and renamed while they use a semaphore? | 3 tasks, 3 priorities, timeouts ≤ 1 |
| `pool` | Is a queue the abstract one, and a block always in one pair of hands? | 3 tasks, a mailbox or queue of 2, 2 blocks and a message that is none |
| `mutex` | Is one task inside; is its owner raised while others wait, and lowered after? | 3 tasks, 2 mutexes, ceilings above all tasks, between them, and none |
| `flags` | Does a task sleep on flags that are there, or wake without them; do the linked lists hold? | 3 tasks, 2 groups of 2 flags, set/clear, all/any, consumed or not |
| `timers` | Are the lists right and does each timer fire exactly in time? | 3 timers, 2 spokes, time modulo 5 |
| `timer_next` | Is each timer that expires processed, if callbacks touch any timer? (no) | same |
| `ntp_safety` | Do replies to messages fit them, are the handler's stamps right, is each datagram in one place, do only error returns leave interrupts off, is a lone message answered? | 2 NTP messages, an empty datagram and one of 40 bytes, `timenow` ≤ 2, `sendto` may fail |
| `dns_before_start` | Does `DNS_run` return when `main` calls it? (no) | the code's 2 retries of 3 s, 12 s observed, before `OSStart` |
| `sntp_clock` | Once set, is `timenow` near the true time? | a sync period of 5 s, messages live 1 s, 12 s observed |
| `bus_protected` | Are frames whole if the callbacks hold off interrupts? | 3 users, 2 registers, 2 values |
| `bus_as_built` | Are they with the empty callbacks? (no) | same |

Bounds.  Three tasks are the least with one that runs, one that waits and one
made ready between them; two suffice for a semaphore, since the tick is a third
that posts.  A timeout of 2 can be half elapsed when a post comes, one of 1 can
elapse before, at and after it.  A count of 1 has an empty, a full and an
overflowing semaphore.  The tick posts every `TmrTicks = 2` ticks so that ticks
with and without a post both meet each state.  `OSIntNesting` is kept modulo
256 as in the code.

In `tasks` three tasks share three priorities, so that a creator finds its
number taken by a deleted, a renamed or a half-created task, and the lock may
be held over all of it (`MaxLock = 1`).  `pool`: a queue of 2 has an empty, a full and a
wrapped ring, and two blocks are the least that can be exchanged.  `mutex`: one
ceiling is above every task, one between the first and the others, which alone
compete for that mutex then; the two mutexes are created and deleted
independently.  `flags`: the first group has consuming waits for all and for
any, the second one waits for a clear flag; a third task is suspended at
times.  `timers`: three timers on two spokes share a spoke in every
combination, and 5 is no multiple of 2, as the wheel of the code need not
divide 2^32.

Two NTP messages give the server one that it serves and one that arrives
meanwhile.  The empty datagram (8 bytes in the chip) and the short one (48) come
to 56 together and to no other sum that `NTPUDP` reads: both orders occur, with
the error return of `recvfrom` when the empty one is first, and a reply with an
old stamp when it is second.  `MaxTime = 2` lets the clock move once between
arrival, stamp and transmission (3 gives the same result in four times the
time).  `DNS_run` is checked with the code's own constants.  The two minutes of `GetTimeFromNTPServer` become five seconds,
still longer than any message lives, and the observed span holds two
synchronisations with the counting between them.  Two registers suffice for a
frame of one byte, one of two, and a byte that lands in the wrong register.
`CHECK_DEADLOCK FALSE` is in the configurations in which the program ends
(`DNS_run` returns) or a bound stops the clock (`MaxTime`, `MaxNow`).

Symmetry is used among mutexes and among blocks only, in runs without liveness
of theirs; tasks differ by their priorities.

What the properties assume of the application.  The `Careful` constants (part
2) keep it off uses for which the code is wrong or which its documentation
forbids; part 5 says what happens without them.  `ClockNearTrue` assumes that a
request and its answer live at most `MaxDelay` and that the sync period is
longer; without such a bound it is false of any client that does not match
answers to requests.  `NoMissedFlags` speaks of groups in which no consuming
pend can undo what another waits for.  `ReplyMatchesRequest` speaks of the
replies to NTP messages: what a short datagram is answered is wrong (part 5).
`LoneRequestAnswered` excuses a buffer with several datagrams; two messages stay
there for good, which it does not show.

Fairness.

* `sem`: SysTick is free-running and its handler ends: weak fairness of the
  three tick steps.  A handler is far shorter than a tick period, so between two
  ticks PendSV and the code of the running task get on; every tick disables
  them for a moment, hence strong fairness of `PendSV_Handler`, `OS_Sched` and
  the second half of a pend.  Nothing is assumed of what tasks call or of device
  interrupts.  The properties speak of the most urgent task: nothing in the
  kernel protects a lower one from starvation.
* `timers`: the tick hook keeps signalling, and the tasks above `OSTmr_Task` let
  it get on and its callbacks return: weak fairness of both.  Nothing is
  assumed of the callers of services.
* `ntp_safety`: the processor executes the code of whoever has it, a pending
  unmasked interrupt is taken, and the server task's two seconds end: weak
  fairness of those actions.  Nothing is assumed of the network.
  `LoneRequestAnswered` ends with the first error return, after which interrupts
  stay off.
* `dns_before_start`: the loop turns and seconds pass, and `Second` waits for the loop to
  have turned since the last one: a turn takes far less than a second.  The
  network may lose everything.

## 4. What is proved

TLAPS proves, for every value of the constants under the assumptions named in
the modules that declare them (`CoreAssumption`, `SemAssumption`, ...: distinct
priorities above the idle task's, sane bounds):

| Theorem | Statement |
|---|---|
| `OSSemProof!TypeCorrect` | `Spec => []SemTypeOK` |
| `OSSemProof!NoLostToken` | `Spec => []NoTokenWhileWaiting` |
| `OSSemProof!HighestAlwaysRuns` | `Spec => []HighestRuns` |
| `OSSemProof!LockHolds` | `Spec => LockKeepsTask` |
| `OSSemProof!ReadyListAlwaysOK` | `Spec => []ReadyListOK` |
| `OSSemProof!WaitListAlwaysOK` | `Spec => []WaitListOK` |
| `OSSemProof!SemaphoreImplemented` | `Spec => SemImplements`: `OSSem` implements `Semaphore` |
| `OSSemProof!OnePrioAlways` | `TaskSpec => []OnePrioEach` |
| `OSSemProof!LiveReadyAlwaysOK` | `Careful` gives `TaskSpec => []LiveReadyOK` |
| `OSSemProof!TaskWaitListsOK` | `Careful` gives `TaskSpec => []WaitListOK` |
| `OSSemProof!TaskHighestRuns` | `Careful` gives `TaskSpec => []HighestRuns` |
| `OSMutexProof!MutexTyped` | `Careful` gives `Spec => []MutexTypeOK` |
| `OSMutexProof!MutexesExclude` | `Careful` gives `Spec => []MutualExclusion` |
| `OSMutexProof!NeverInverted` | `Careful` gives `Spec => []NoInversion` |
| `OSMutexProof!PriorityAlwaysRestored` | `Careful` gives `Spec => []PriorityRestored` |
| `OSMutexProof!PrioTblAlwaysOK` | `Careful` gives `Spec => []PrioTblOK` |
| `OSMutexProof!ListsAlwaysOK` | `Careful` gives `Spec => []ListsOK` |
| `OSPoolProof!PoolTyped` | `Spec => []PoolTypeOK` |
| `OSPoolProof!BlocksNeverLost` | `Spec => []BlockInOnePlace` |
| `OSPoolProof!ChannelsImplemented` | `Spec => ChanImplements`: each mailbox and queue implements `MsgQueue` |
| `OSFlagProof!FlagsAlwaysMeet` | `Spec => []GrantedFlagsMeet` |
| `OSFlagProof!FlagListsOK` | `Spec => []ListsOK` |
| `OSFlagProof!FlagTyped` | `Careful` gives `Spec => []FlagTypeOK` |
| `OSFlagProof!NodesAlwaysOK` | `Careful` gives `Spec => []NodesOK` |
| `OSFlagProof!NoPostMissed` | `Careful` gives `Spec => []NoMissedFlags` |
| `NTPServerProof!NTPTyped` | `Spec => []NTPTypeOK` |
| `NTPServerProof!RepliesMatch` | `Spec => []ReplyMatchesRequest` |
| `NTPServerProof!OneFateAlways` | `Spec => []OneFate` |
| `NTPServerProof!OnlyErrorsEverMask` | `Spec => []OnlyErrorsMask` |
| `NTPServerProof!HandlerAlwaysStamps` | `Spec => []HandlerStamps` |
| `OSTmrProof!TmrTyped` | `Careful` gives `Spec => []TmrTypeOK` |
| `OSTmrProof!WheelAlwaysOK` | `Careful` gives `Spec => []WheelOK` |
| `OSTmrProof!TimersImplementedSafely` | `Careful` gives `Spec => T!Init /\ [][T!Next]_(T!vars)`, the safety half of `TimersImplement` |
| `NetworkProof!TimeoutsAlwaysLate` | `DNSParameters` (the ranges of the constants) gives `DNSSpec => []TimeoutsAreLate`, for calls before `OSStart` and after |
| `NetworkProof!ClockStaysNear` | `Spec => []ClockNearTrue` |
| `NetworkProof!ProtectedFramesWhole` | `Protected` gives `BusSpec => WholeFrames` |

The semaphores.  The argument is layered; each layer is inductive relative to
those before it.

1. `TypeInv`: types, that priorities tell tasks apart (`PrioMapOK`), and that the
   ready list holds priorities of tasks, the idle task's always.  So `Highest` and
   `OSTCBPrioTbl` are defined wherever the scheduler uses them
   (`HighestIsLeast`, from well-foundedness of `<` on `Nat`).  That priorities
   never change is `FixedPrio`, which only `OSSem` and `OSPool` have.
2. `KernelInv`: `CurInv` (the current and highest priorities are those of the
   current and highest tasks; `Stale` excepts `OSPrioCur` after an `OSMutexDel` that
   lowered a task, up to the next `OS_Sched`), `NestInv` (`OSIntNesting` counts the one tick
   handler), `LockInv` (under the lock no switch is due and the task is not in
   a pend), and `SchedInv`, the heart: with no handler and no lock, if a switch
   is due it is to the highest ready, and if none is due and the running task
   is not on its way to `OS_Sched` it is the highest ready.  `HighestRuns`
   alone is not inductive: it says nothing of the states between a service
   body and `OS_Sched`.
3. `ListInv`: task by task, membership of the ready list and of a wait list
   from the TCB and `pc`, with `PendInv`: a pend that was granted, aborted or
   timed out has no timeout running (so the tick never overwrites its result).
   `WakesReady` needs layer 2: a task that comes back from a pend is ready.
4. The refinement.  `Waiting`, `Granted` and `Aborted` are what a caller sees of a
   semaphore.  `SameView` and `DlyEndsView`: the kernel's own steps, ticks and
   suspensions change none of it, since a timeout shows only when the pend
   returns.  `PostImplements`, `WaitImplements`, `ReturnImplements` and the cases of
   `SemTaskImplements` find for each service the action of `Semaphore` it is;
   `OSSemSet` needs `NoTokenWhileWaiting`, since it looks at the list only when the
   count is 0.

Tasks.  `PrioTblInv` is `OnePrioEach` with the types of the three kinds of number
(a task's, the idle task's, the mark of a free block).  `OnePrioEach` speaks of
the reservations too, and that is what makes it inductive: a creation takes its
number over from the reservation, which nobody else can have got meanwhile.
That proof does not use `Careful`.

The lists under tasks that come and go need more than layers 1 to 3, whose task
by task membership fails where a number passes from one task to another.
`LiveInv` adds to `PrioTblInv`:

* `LiveLists`: the ready list is the set of the numbers of `ReadyTasks`, a wait list
  that of the numbers of `Waiters(e)` (`MembersOK`), so that a service is a change
  of these sets of tasks and of the numbers they have.  `NumbersOne` and
  `NumbersRenamed` carry the one over to the other; both rest on `OwnNumber`, that
  who exists has a number of its own.  `PlaceOK` says what a free control block, a
  creator and a task under creation may be doing, `BirthOK` that nobody is created
  twice, and `CallOK` when `OSTCBEventPtr` says what `OSTaskChangePrio` and
  `OSTaskDel` take it to say.
* `LiveRun`: what the scheduler found last, as in `KernelInv`, except that the running
  task may be `Renamed`: it has changed its own number or deleted itself, the old
  number is nobody's, and it has `OS_Sched` still to call.

`OneLive` is a service that changes one task, `WakeLive` a post or an abort,
`DlyEndsLive` a tick; `ServiceLive` says what a service owes to the scheduler.
`Careful` is needed, and TLC refutes each of the three properties without it
(part 5): a task renamed after its grant enters a list it has left (`CallOK`), one
suspended while it is created becomes ready all the same (`PlaceOK`), and one
that renames or deletes itself under the lock has no `OS_Sched` to come that
would switch (`Renamed`, `HolderInv`).

Mutexes.  Layers 1 to 3 are proved again for `OSMutex`, where an owner's priority
changes in whatever list it is in; `MutexInv` is what they need to know of the
mutexes, and they of it, so that `IInv` is all of them at once:

* `OwnerInv`: the mutex and its owner's TCB agree.  The owner has its own
  priority or the ceiling, is ready, and owns nothing else.
* `WaitersInv`: a mutex with waiters is owned; they are below the ceiling and no
  more urgent than the owner, who is raised only while one of them waits.
* `PendersInv`: who waits is not suspended, and whose pend was granted owns the
  mutex before it has run.
* `EntriesInv`: in `OSTCBPrioTbl` each task is found at the priority it was created
  with, and at a ceiling the reservation or the owner that is raised to it.
* `PriorityRestored` itself, and `InsideInv`: who is inside owns the mutex, from
  which `MutualExclusion` follows.

The hypothesis `Careful` is needed, not convenient: an owner that sleeps or is
suspended is moved in whatever list its TCB names, also one it has left
(part 5).  `NoInversion` is `WaitersInv` read with `OwnerInv`.

Mailboxes, queues and the partition.  Every service is for the scheduler one of
four shapes, `Quiet`, `Returns`, `Blocks` and `Wakes`; `KernelPart` says which one
each is, and the layers are proved for the shapes.  `RunInv` takes the place of
`SchedInv` and is weaker, that the running task is ready: after a post with `OS_POST_OPT_NO_SCHED` a less urgent
task runs on until the next reschedule, so that `HighestRuns` is not claimed.

* `GivenInv`: a TCB holds a message exactly from the grant to the return.
* `RingInv`: `OSQOut` plus `OSQEntries` is `OSQIn` modulo `QSize`.  `Contents` reads
  the ring as a sequence, and for each operation a lemma says what it does to
  that sequence: `InsertEffect` appends, `InsertFrontEffect` prepends,
  `RemoveEffect` takes the head; `PostEffect` puts together what a post does.
* `UnusedInv`: an event that is not in use has no waiters.
* `FreeInv`: the words of the free blocks make a list without repetition that
  ends in `Nil`, of `OSMemNFree` blocks.  `ListFrom`, which reads the list, is a
  recursive function; that it is defined by its equation is proved by a least
  counterexample, since the library's theorem on recursion takes an operator.
* `HomeInv`: each block has one home, `OneHome`, among the free list, the rings, the
  TCBs, the tasks' hands and the dropped ones; and in a ring it is there
  `Once`.  `BlockInOnePlace`, which counts, follows by cardinalities.
* The refinement goes as that of the semaphores: `SameClients`, `SameItems` and
  `SameCapacity` for what a step leaves alone, and `PostImplements`,
  `WakesClients`, `BlocksClients` and `ReturnImplements` for the others.

Linked lists, of nodes, free groups and timers.  A list of any length is
described without recursion: each element has a place, a number of its own, and
`Chain` says that the links go upwards by place and skip nobody; `Back`, that the
links back are those forward.  Places need not be adjacent, so that an element
that leaves disturbs nobody else's and one linked in front takes the number
below the first's.  An invariant asserts only that places exist.  `ChainAdd`,
`BackAdd`, `ChainDrop` and `BackDrop` are about one list and one element; `ListIs`:
`ListFrom` meets each element of a `Chain` once, by a least counterexample over its
steps and by cardinalities.

Flags.  The invariant has three parts, of which only the last needs `Careful`.

* `GrantInv` adds to `GrantedFlagsMeet` that a pend that has ended has no delay
  left (`EndedNoDly`): otherwise a later tick could change the result of a granted
  one.  The lists do not enter, since a post chooses its tasks by what they ask.
* `BaseInv`: layers 1 to 3 of the semaphores, with `QuietEvents`: flags use no
  event's wait list.  That a post may make several tasks ready at once is one
  step (`TaskRdyBase`).
* `CareInv`: each used group's list is a `Chain` and `Back` of the nodes of who still
  waits there (`Members`), and the free list a `Chain` of the groups not in use
  (`Placed`; without that part the wait lists could not be told from it), in the one array of links that serves both; `CallInv`: the group of a
  pend exists and the pend is not aborted.  `UnlinksDrop` is the post's loop: by
  induction over its steps the list is that of who is left.  `Careful` is needed:
  after `OSFlagDel` under a pend the second unlink (part 5) writes a node into the
  free list of groups, so that `FlagTypeOK` itself fails.
* `NoMissedFlags` needs of the lists that the post's walk meets everyone
  (`WaitListIs`), and of a consuming pend that it takes no flag of its own sense
  nearer to being there (`ConsumingHides`, which is what `Undisturbed` is for).

Timers.  `LinkGood` and `UnlinkGood` say what `OSTmr_Link` and `OSTmr_Unlink` make of a
wheel, as operators on the record `wheel`.  The lemmas from `LeavesWheel` to
`LeavesFreeList` carry them to the variables, each service being one or two of
them.

* `WalkInv`: the timer the walk comes to next (`Ahead`) is in the spoke of the time
  that is now, and no timer that is due is behind it.  It is what makes the
  walk complete, and where `Careful` is needed: a callback that moves the noted
  timer breaks it (`timer_next`).
* The refinement: `TimeWraps` and `TimeLeft` compute the remainders that
  `OSTmrMatch` and `OSTmrTime` are compared by, so `MatchFacts` can say that what a
  timer is set to is as many ticks off as it asks for.  `WalkInv` at the end of the
  walk is the guard of `T!Tick`.

The NTP server.  `ExclusiveInv`: one caller at most is between the two ends of
the critical section, and with the task there interrupts are masked.
`BufferInv`: what lies in the shared packet buffers is then what that caller
put there, if it is serving an NTP message; of a short datagram it says only
whose it is.  `FateInv` puts every datagram that arrived in one of four places,
an error return's among them; `OneFate` counts the same and follows by
cardinalities.  `MaskInv`: without an error return interrupts are off only while
a caller is in the section, and that caller has found them on.  `StampInv` carries the
handler's stamp from its entry to the transmission: the clock task does not run
before the handler has returned.

`DNS_run`.  `WaitInv`: before `OSStart` `dns_1s_tick` stays 0; afterwards the time
since the call is that of the retries made and of the wait under way, and the
loop sees the end of a wait before another second has passed.  `len` is 0
whenever the timer is looked at, so that no retry sends.  The theorem is about
both orders of the call and is no praise: it says that `main`'s call never gives
up, and any other only after one wait more than `dns.h` allows.

The clock.  `Ahead`, twice `timenow` less the time at which `KeepTime` last
counted or will next, is changed by a setting only: `ClockInv` bounds it by the
age of the answers that can still be used.

`W5500Bus`.  `WholeFrames` is an action property, so the invariant has to say what
each step will find: `AloneInv`, that whoever is in a frame has interrupts
masked and is alone; and `StepInv`, that the chip's frame then names exactly the
register the user's next byte is meant for (`TargetInRegs`: it does not wrap).

Only model-checked: of `TimersImplement` the fairness half; and liveness,
`TimedPendReturns`, `UrgentRuns` and `LoneRequestAnswered`: fairness and ENABLED are
out of the prover's reach.  `DepletedMeansNone` is only checked too, and that under
`Careful`: `OSFlagDel` with `OS_DEL_ALWAYS` and a waiter is what loses groups,
and a theorem that assumes it away would say little.

## 5. Disagreements found

Three have runs:

* `bus_as_built`: no critical-section callbacks are registered, so that the
  handler or a more urgent task ends another's frame: bytes go to, and come
  from, nowhere or the wrong register.
* `timer_next`: `OSTmr_Task` notes `ptmr_next` before it calls the callback of an
  expired timer and goes on from there.  If the callback stops, starts or
  deletes that timer, the walk goes on in another spoke or ends, and timers that
  are due are passed over until `OSTmrTime` wraps.
* `dns_before_start` (`main.c:21`): `main` calls `SNTP_init`, hence `DNS_run`, before
  the tasks exist that count `dns_1s_tick`.  If the query or its answer is lost
  the device never starts, although `dns.h:95` says that `DNS_run` "blocks until
  success or fail".  (With `BeforeOSStart = FALSE` in the same configuration TLC
  finds no violation: a task that calls it gets it back.)

The others can be had from the configurations given.

Kernel:

* `os_task.c:128`: `OSTaskChangePrio` takes `OSTCBEventPtr != 0` to mean "in that
  wait list", but `OS_EventTaskRdy` leaves the pointer set until the task runs.
  Renaming a task between its grant and its return puts the new priority into
  the wait list for good; the next post wakes nobody.  (`Task.cfg` with `Careful
  = FALSE`: `WaitListOK`.)
* `os_task.c:155`: `OSTaskChangePrio` of the running task under `OSSchedLock` leaves
  `OSPrioCur` with the old number.  When another task takes that number,
  `OS_Sched` compares it with the stale `OSPrioCur` and does not switch.
  (`Task.cfg` with `Careful = FALSE`: `HighestRuns`.)
* `os_core.c:2027`: between its entry in `OSTCBPrioTbl` and the end of
  `OS_TCBInit` a new task can be suspended or deleted by a more urgent one, and
  is then made ready all the same.  (`Task.cfg` with `Careful = FALSE`:
  `LiveReadyOK`.)
* `os_task.c:528`: a task that deletes itself with the scheduler locked goes on
  running on a control block in the free list.
* `os_sem.c`, `os_task.c`: a token granted to a task that is deleted before it
  has run is lost.
* `os_mutex.c:747`: `OSMutex_RdyAtPrio` sets `OSPrioCur` "the current task is now
  at this priority" also when `OSMutexDel` calls it for another task.
  (`PrioCurIsCurrent` in `Mutex.cfg`.)
* `os_mutex.c:650`: a post nobody waits for lowers a raised owner (its waiter has
  timed out) and returns without `OS_Sched`; a task between the two priorities
  waits for the next reschedule.
* `os_mutex.c:337`: `OSMutexDel` with `OS_DEL_NO_PEND` does not look at an owner; a
  raised one stays at the ceiling.
* `os_mutex.c:534`: an owner that is not ready is moved in the wait list that
  `OSTCBEventPtr` names, also when it has left it.
* `os_flag.c:720`: a pend aborted by `OSFlagDel` unlinks its node a second time,
  which writes over `OSFlagWaitList` of the deleted group, by now the link of
  the free groups: groups are lost.  (`Flag.cfg` with `Careful = FALSE`:
  `DepletedMeansNone`.)
* `os_flag.c:737`: granted flags are consumed when the task runs, not when they
  are granted; two tasks may be granted the same flag.
* `os_flag.c:741`: consuming flags does not walk the wait list; a task that waits
  for them to be clear is not woken.
* `os_tmr.c:967`: with argument checks configured out, a one-shot timer without
  delay is linked to a time that has passed and fires after 2^32 ticks.
  `TmrAssumption` excludes it.

Application:

* `ntpserver.c:43`, `ntpserver.c:102`: when `recvfrom` returns 0, for an empty
  datagram that comes to 56 bytes together with another one, or `sendto` fails,
  `NTPUDP` returns from between `OS_ENTER_CRITICAL` and `OS_EXIT_CRITICAL`.
  Interrupts stay off; in the handler's call the device stops for good.
  (`InterruptsRestored` in `NTPSafety.cfg`; the run has `OnlyErrorsMask`, that nothing
  else leaves them off.)
* `ntpserver.c:32`: the test compares the bytes of all waiting datagrams with
  those of one message.  Two messages together are never read; short datagrams
  that come to 56 bytes are, and the first is answered with bytes 40 to 47 of an
  earlier request.  ntpserver.c:67 says "Transmit Timestamp, T3 from client, copy
  and return!".  (`EveryReplyMatches` in `NTPSafety.cfg`.)
* `ntpserver.c:73`: `recvTime` is converted in place and set anew by the handler
  only.  A request served by the task gets the stamp of an earlier one, in the
  byte order that the number of conversions since has left.
  (`EveryReplyStamped` in `NTPSafety.cfg`.)
* `dns.c:549`: the repeated query is sent with `len`, which the loop's test has
  set to 0; `sendto` refuses it.  The retries are waits only.  (`sent <= 1` in
  `TimeoutsAreLate`, proved.)
* `dns.h:95`: "max time = MAX_DNS_RETRY * DNS_WAIT_TIME"; called while `KeepTime`
  counts, `DNS_run` blocks `(MAX_DNS_RETRY + 1) * DNS_WAIT_TIME`, 9 s for 6.
  (`TimeoutsAreLate`, proved for all values.)

## 6. Not modelled, and why

Within the modelled parts: `OSTime` (a counter nobody waits on), names,
statistics, stack checks, the queries, which only read, and the debug and hook
calls that are empty in this configuration.  `OSSemCreate` at run time and
`OSSemDel`: what they do to waiters and lists is what `OSMsg` models for queues.
`OSTaskDelReq` sets a flag that only the task itself reads.  `OSEventPendMulti`
and its lists of several events, which nothing in the firmware uses, are left
out, and with them the tests of `OSTCBEventMultiPtr`: every pend here is on one
event.  `OSTimeDlyHMSM` is `OSTimeDly` after a conversion.  `OSInit` sets what the modules' `Init` states.

Components:

* Socket layer: `socket.c` and `w5500.c` above the frames on the bus.  Each
  client and server has a UDP socket of its own, and the one that a task shares
  with the handler is used in a critical section, so that `sock_remained_size`
  and its like are not shared; the state of `recvfrom` over several calls is the next
  candidate for a module, with `getSn_RX_RSR`, which reads a 16-bit register
  twice until it is stable.
* SNMP agent: one task, one buffer, no state between requests; what could go
  wrong is in its parsing of bytes, which TLC reaches only at a size at which
  tests do.
* HTTP server: no task calls it.  DHCP, TFTP, FTP, MQTT: not in the build.
* Peripheral drivers, `STM32F10x_FWLib`, FatFs with its code pages: register
  access and vendor code.  They are most of the repository's lines, so that the
  modelled share of the whole stays small although the kernel's and the
  network clock's own control is modelled.

What a next step would add, in this order: `OSSemDel` with the proofs it touches;
pends on several events; the socket layer; `OSMutex` with delays of owners, where `Careful` is weakened to
what `OSMutexPend`'s notes ask for.
