-------------------------------- MODULE OSTmr --------------------------------
(***************************************************************************)
(* Software timers (os_tmr.c): a wheel whose spokes are doubly linked      *)
(* lists, walked by the task OSTmr_Task each time the tick hook signals    *)
(* it.  Every service holds the scheduler lock, and so does the task while *)
(* it walks a spoke: a service of another task is one action and finds     *)
(* the task between two walks.  Only a callback may get in between, which  *)
(* the task calls in the middle of the walk, and which may use every       *)
(* service; so may the callback OSTmrStop calls, whose calls are then as   *)
(* if they came after it.                                                  *)
(***************************************************************************)
EXTENDS Integers, Sequences, FiniteSets

CONSTANTS
  OS_TMR_CFG_MAX, OS_TMR_CFG_WHEEL_SIZE,
  TimeMod,       \* 2^32, at which OSTmrTime wraps
  MaxSignals,    \* the limit of the count of OSTmrSemSignal
  Kind,          \* the timers the application makes: [dly, period, periodic]
  Careful        \* TRUE: no callback stops, starts or deletes the timer that
                 \* the task has noted as the next one of the walk

Timer == 1..OS_TMR_CFG_MAX
Null == 0                    \* the null pointer
Spoke == 0..OS_TMR_CFG_WHEEL_SIZE - 1

\* Argument checks are configured out (OS_ARG_CHK_EN): the application itself
\* keeps from a wait of no ticks.
ASSUME TmrAssumption ==
  /\ {OS_TMR_CFG_MAX, OS_TMR_CFG_WHEEL_SIZE, TimeMod, MaxSignals} \subseteq Nat \ {0}
  /\ Careful \in BOOLEAN
  /\ \A k \in Kind : /\ DOMAIN k = {"dly", "period", "periodic"}
                     /\ k.dly \in 0..TimeMod - 1 /\ k.period \in 0..TimeMod - 1
                     /\ k.periodic \in BOOLEAN
                     /\ k.dly = 0 \/ k.periodic => k.period > 0

\* What OSTmr_Free leaves; a delay it does leave is read by nothing.
NoKind == [dly |-> 0, period |-> 0, periodic |-> FALSE]

VARIABLES
  OSTmrTime,
  OSTmrState, kind,         \* the timers, field by field
  OSTmrMatch,
  OSTmrNext, OSTmrPrev,
  OSTmrFirst, OSTmrEntries, \* the spokes of OSTmrWheelTbl
  OSTmrFreeList, OSTmrUsed,
  signals,                  \* the count of OSTmrSemSignal
  pc,                       \* OSTmr_Task: "pend", "walk", "callback"
  ptmr, ptmr_next

linkVars == <<OSTmrNext, OSTmrPrev, OSTmrFirst, OSTmrEntries>>
tmrVars  == <<OSTmrState, kind, OSTmrMatch, linkVars, OSTmrFreeList, OSTmrUsed>>
taskVars == <<OSTmrTime, signals, pc, ptmr, ptmr_next>>
vars     == <<tmrVars, taskVars>>

TmrTypeOK ==
  /\ OSTmrTime \in 0..TimeMod - 1
  /\ OSTmrState \in [Timer -> {"UNUSED", "STOPPED", "RUNNING", "COMPLETED"}]
  /\ kind \in [Timer -> Kind \cup {NoKind}]
  /\ OSTmrMatch \in [Timer -> 0..TimeMod - 1]
  /\ OSTmrNext \in [Timer -> Timer \cup {Null}]
  /\ OSTmrPrev \in [Timer -> Timer \cup {Null}]
  /\ OSTmrFirst \in [Spoke -> Timer \cup {Null}]
  /\ OSTmrEntries \in [Spoke -> 0..OS_TMR_CFG_MAX]
  /\ OSTmrFreeList \in Timer \cup {Null}
  /\ OSTmrUsed \in 0..OS_TMR_CFG_MAX
  /\ signals \in 0..MaxSignals
  /\ pc \in {"pend", "walk", "callback"}
  /\ ptmr \in Timer \cup {Null} /\ ptmr_next \in Timer \cup {Null}

\* OSTmr_Init
Init ==
  /\ OSTmrTime = 0
  /\ OSTmrState = [x \in Timer |-> "UNUSED"]
  /\ kind = [x \in Timer |-> NoKind]
  /\ OSTmrMatch = [x \in Timer |-> 0]
  /\ OSTmrNext = [x \in Timer |-> IF x = OS_TMR_CFG_MAX THEN Null ELSE x + 1]
  /\ OSTmrPrev = [x \in Timer |-> Null]
  /\ OSTmrFirst = [s \in Spoke |-> Null]
  /\ OSTmrEntries = [s \in Spoke |-> 0]
  /\ OSTmrFreeList = 1
  /\ OSTmrUsed = 0
  /\ signals = 0
  /\ pc = "pend"
  /\ ptmr = Null /\ ptmr_next = Null

SpokeOf(time) == time % OS_TMR_CFG_WHEEL_SIZE

-----------------------------------------------------------------------------
(* The wheel, as a record, before and after OSTmr_Link and OSTmr_Unlink    *)

wheel == [next |-> OSTmrNext, prev |-> OSTmrPrev, first |-> OSTmrFirst,
          entries |-> OSTmrEntries]

WheelIs(w) == /\ OSTmrNext' = w.next /\ OSTmrPrev' = w.prev
              /\ OSTmrFirst' = w.first /\ OSTmrEntries' = w.entries

\* What the timer is set to: one that is started with a delay of 0 waits for
\* its period first.
MatchPeriodic(x) == (kind[x].period + OSTmrTime) % TimeMod
MatchStart(x) == IF kind[x].dly = 0 THEN MatchPeriodic(x)
                                    ELSE (kind[x].dly + OSTmrTime) % TimeMod

\* OSTmr_Link: in front of the spoke of its new time.
OSTmr_Link(w, x, match) ==
  LET s == SpokeOf(match)
      head == w.first[s]
  IN [next    |-> [w.next EXCEPT ![x] = head],
      prev    |-> [y \in Timer |-> CASE y = x    -> Null
                                     [] y = head -> x
                                     [] OTHER    -> w.prev[y]],
      first   |-> [w.first EXCEPT ![s] = x],
      entries |-> [w.entries EXCEPT ![s] = @ + 1]]

\* Mutant: the timer after it still names it as the one before.
OSTmr_Unlink_KeepPrev(w, x) ==
  LET s    == SpokeOf(OSTmrMatch[x])
      next == w.next[x]
      prev == w.prev[x]
  IN [next    |-> [y \in Timer |-> CASE y = x -> Null
                                     [] y = prev /\ w.first[s] # x -> next
                                     [] OTHER -> w.next[y]],
      prev    |-> [w.prev EXCEPT ![x] = Null],
      first   |-> [w.first EXCEPT ![s] = IF @ = x THEN next ELSE @],
      entries |-> [w.entries EXCEPT ![s] = @ - 1]]

\* OSTmr_Unlink: from the spoke of the time it was set to.
OSTmr_Unlink(w, x) ==
  LET s    == SpokeOf(OSTmrMatch[x])
      next == w.next[x]
      prev == w.prev[x]
  IN [next    |-> [y \in Timer |-> CASE y = x -> Null
                                     [] y = prev /\ w.first[s] # x -> next
                                     [] OTHER -> w.next[y]],
      prev    |-> [y \in Timer |-> CASE y = x -> Null
                                     [] y = next -> IF w.first[s] = x THEN Null ELSE prev
                                     [] OTHER -> w.prev[y]],
      first   |-> [w.first EXCEPT ![s] = IF @ = x THEN next ELSE @],
      entries |-> [w.entries EXCEPT ![s] = @ - 1]]

\* The links of a timer outside the wheel: in the free list, or none.
Loose(w, x, next) == [next    |-> [w.next EXCEPT ![x] = next],
                      prev    |-> [w.prev EXCEPT ![x] = Null],
                      first   |-> w.first,
                      entries |-> w.entries]

-----------------------------------------------------------------------------
(* Services, by a task or in a callback                                    *)

Called == pc \in {"pend", "callback"}
MayTouch(x) == Careful /\ pc = "callback" => x # ptmr_next

OSTmrCreate(k) ==
  LET x == OSTmrFreeList IN
  /\ Called /\ x # Null
  /\ OSTmrFreeList' = OSTmrNext[x]
  /\ OSTmrUsed' = OSTmrUsed + 1
  /\ OSTmrState' = [OSTmrState EXCEPT ![x] = "STOPPED"]
  /\ kind' = [kind EXCEPT ![x] = k]
  /\ WheelIs(Loose(wheel, x, Null))
  /\ UNCHANGED <<OSTmrMatch, taskVars>>

OSTmrStart(x) ==
  LET w == IF OSTmrState[x] = "RUNNING" THEN OSTmr_Unlink(wheel, x) ELSE wheel IN
  /\ Called /\ MayTouch(x) /\ OSTmrState[x] # "UNUSED"
  /\ OSTmrState' = [OSTmrState EXCEPT ![x] = "RUNNING"]
  /\ OSTmrMatch' = [OSTmrMatch EXCEPT ![x] = MatchStart(x)]
  /\ WheelIs(OSTmr_Link(w, x, MatchStart(x)))
  /\ UNCHANGED <<kind, OSTmrFreeList, OSTmrUsed, taskVars>>

OSTmrStop(x) ==
  /\ Called /\ MayTouch(x) /\ OSTmrState[x] = "RUNNING"
  /\ OSTmrState' = [OSTmrState EXCEPT ![x] = "STOPPED"]
  /\ WheelIs(OSTmr_Unlink(wheel, x))
  /\ UNCHANGED <<kind, OSTmrMatch, OSTmrFreeList, OSTmrUsed, taskVars>>

\* Mutant: a timer that was deleted can be deleted again.
OSTmrDel_Unused(x) ==
  LET w == IF OSTmrState[x] = "RUNNING" THEN OSTmr_Unlink(wheel, x) ELSE wheel IN
  /\ Called /\ MayTouch(x)
  /\ OSTmrState' = [OSTmrState EXCEPT ![x] = "UNUSED"]
  /\ OSTmrMatch' = [OSTmrMatch EXCEPT ![x] = 0]
  /\ WheelIs(Loose(w, x, OSTmrFreeList))
  /\ OSTmrFreeList' = x
  /\ OSTmrUsed' = OSTmrUsed - 1
  /\ kind' = [kind EXCEPT ![x] = NoKind]
  /\ UNCHANGED taskVars

\* OSTmrDel, with OSTmr_Free.
OSTmrDel(x) ==
  LET w == IF OSTmrState[x] = "RUNNING" THEN OSTmr_Unlink(wheel, x) ELSE wheel IN
  /\ Called /\ MayTouch(x) /\ OSTmrState[x] # "UNUSED"
  /\ OSTmrState' = [OSTmrState EXCEPT ![x] = "UNUSED"]
  /\ OSTmrMatch' = [OSTmrMatch EXCEPT ![x] = 0]
  /\ WheelIs(Loose(w, x, OSTmrFreeList))
  /\ OSTmrFreeList' = x
  /\ OSTmrUsed' = OSTmrUsed - 1
  /\ kind' = [kind EXCEPT ![x] = NoKind]
  /\ UNCHANGED taskVars

-----------------------------------------------------------------------------
(* The task *)

\* OSTimeTickHook; a signal beyond the limit is lost (OS_ERR_SEM_OVF).
OSTmrSignal ==
  /\ signals' = IF signals < MaxSignals THEN signals + 1 ELSE signals
  /\ UNCHANGED <<tmrVars, OSTmrTime, pc, ptmr, ptmr_next>>

\* OSTmr_Task from its pend to the first timer of the spoke.
OSTmr_Task ==
  LET time == (OSTmrTime + 1) % TimeMod IN
  /\ pc = "pend" /\ signals > 0
  /\ signals' = signals - 1
  /\ OSTmrTime' = time
  /\ ptmr' = OSTmrFirst[SpokeOf(time)]
  /\ pc' = "walk"
  /\ UNCHANGED <<tmrVars, ptmr_next>>

\* Mutant: the next timer is looked up after the callback.
Passed_Late == ptmr' = OSTmrNext[ptmr]

\* The end of the loop's body.
Passed == ptmr' = ptmr_next

\* A timer of the spoke whose time is another.
Skip ==
  /\ pc = "walk" /\ ptmr # Null
  /\ OSTmrTime # OSTmrMatch[ptmr]
  /\ ptmr' = OSTmrNext[ptmr]
  /\ UNCHANGED <<tmrVars, OSTmrTime, signals, pc, ptmr_next>>

\* A timer that expires, up to its callback.
Expire ==
  LET w == OSTmr_Unlink(wheel, ptmr)
      periodic == kind[ptmr].periodic
  IN
  /\ pc = "walk" /\ ptmr # Null
  /\ OSTmrTime = OSTmrMatch[ptmr]
  /\ ptmr_next' = OSTmrNext[ptmr]
  /\ OSTmrState' = [OSTmrState EXCEPT ![ptmr] = IF periodic THEN "RUNNING" ELSE "COMPLETED"]
  /\ OSTmrMatch' = IF periodic THEN [OSTmrMatch EXCEPT ![ptmr] = MatchPeriodic(ptmr)]
                               ELSE OSTmrMatch
  /\ WheelIs(IF periodic THEN OSTmr_Link(w, ptmr, MatchPeriodic(ptmr)) ELSE w)
  /\ pc' = "callback"
  /\ UNCHANGED <<kind, OSTmrFreeList, OSTmrUsed, OSTmrTime, signals, ptmr>>

CallbackEnd ==
  /\ pc = "callback"
  /\ Passed
  /\ ptmr_next' = Null
  /\ pc' = "walk"
  /\ UNCHANGED <<tmrVars, OSTmrTime, signals>>

WalkEnd ==
  /\ pc = "walk" /\ ptmr = Null
  /\ pc' = "pend"
  /\ UNCHANGED <<tmrVars, OSTmrTime, signals, ptmr, ptmr_next>>

TaskStep == OSTmr_Task \/ Skip \/ Expire \/ CallbackEnd \/ WalkEnd

Next == \/ OSTmrSignal
        \/ TaskStep
        \/ \E k \in Kind : OSTmrCreate(k)
        \/ \E x \in Timer : OSTmrStart(x) \/ OSTmrStop(x) \/ OSTmrDel(x)

(***************************************************************************)
(* Fairness.  The tick interrupt keeps signalling, and the tasks above     *)
(* OS_TASK_TMR_PRIO let OSTmr_Task go on; its callbacks return.            *)
(***************************************************************************)
Spec == Init /\ [][Next]_vars /\ WF_vars(OSTmrSignal) /\ WF_vars(TaskStep)

-----------------------------------------------------------------------------
\* The timers of the list that starts at x: s and the one after its last.
Longer(s, x) == LET y == IF s = <<>> THEN x ELSE OSTmrNext[s[Len(s)]]
                IN IF y = Null THEN s ELSE Append(s, y)

ListFrom(x) ==
  LET walk[n \in 0..OS_TMR_CFG_MAX] == IF n = 0 THEN <<>> ELSE Longer(walk[n - 1], x)
  IN walk[OS_TMR_CFG_MAX]

Elements(s) == {s[i] : i \in DOMAIN s}

\* A list linked both ways that has exactly the timers of T, once each.
Linked(s, T) == /\ Len(s) = Cardinality(T) /\ Elements(s) = T
                /\ \A i \in DOMAIN s : OSTmrPrev[s[i]] = IF i = 1 THEN Null ELSE s[i - 1]

\* Each spoke has the running timers set to its times, and the free list the
\* unused ones: no service, called from a task or in the middle of the walk,
\* loses a timer or leaves it in a list it does not belong to (OSTmr_Link,
\* OSTmr_Unlink, OSTmr_Alloc, OSTmr_Free).
WheelOK ==
  /\ \A s \in Spoke :
       LET T == {x \in Timer : OSTmrState[x] = "RUNNING" /\ SpokeOf(OSTmrMatch[x]) = s}
       IN Linked(ListFrom(OSTmrFirst[s]), T) /\ OSTmrEntries[s] = Cardinality(T)
  /\ LET free == {x \in Timer : OSTmrState[x] = "UNUSED"} IN
     /\ Elements(ListFrom(OSTmrFreeList)) = free
     /\ OSTmrUsed = OS_TMR_CFG_MAX - Cardinality(free)

\* The timers are those of Timers: each fires once when its time is over, and
\* OSTmrTime never goes past a timer that is due (OSTmr_Task against the
\* services its callbacks call); and each that is due fires.
Left == [x \in Timer |-> IF OSTmrState[x] = "RUNNING"
                          THEN (OSTmrMatch[x] - OSTmrTime) % TimeMod ELSE 0]

T == INSTANCE Timers WITH state <- OSTmrState, left <- Left

TimersImplement == T!Spec

\* The comment in OSTmr_Task: "Process each timer that expires".
EachExpiredProcessed ==
  pc = "pend" => \A x \in Timer : OSTmrState[x] = "RUNNING" => OSTmrMatch[x] # OSTmrTime

=============================================================================
