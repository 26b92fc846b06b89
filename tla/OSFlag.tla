-------------------------------- MODULE OSFlag -------------------------------
(***************************************************************************)
(* Event flag groups (os_flag.c) on the kernel of OSCore.  They have a     *)
(* wait list of their own: a doubly linked list of nodes that lie on the   *)
(* stacks of the pending tasks, one node per task.  The free groups are    *)
(* linked through the field that holds the wait list of a used one.        *)
(*                                                                         *)
(* The application deletes or makes a group only while no task is in a     *)
(* service of it up to its critical section, where the type was checked.   *)
(***************************************************************************)
EXTENDS OSCore, SequencesExt

CONSTANTS
  OS_MAX_FLAGS,
  Bit,           \* the flags of a group
  Asks,          \* group -> what its pends and accepts ask for
  Posts,         \* group -> the sets of flags that are posted to it
  Suspends,      \* the tasks that are suspended at times
  Careful        \* TRUE: no group is deleted while a task is in its pend

Group == 1..OS_MAX_FLAGS
Null == 0                    \* the null pointer

\* A wait type: for SET or for CLR, of ALL or of ANY, with CONSUME or not.
Type == [sense : {"SET", "CLR"}, all : BOOLEAN, consume : BOOLEAN]

ASSUME FlagAssumption ==
  /\ OS_MAX_FLAGS \in Nat \ {0}
  /\ IsFiniteSet(Task)
  /\ AllTask \cap (Group \cup {Null}) = {}
  /\ Asks \in [Group -> SUBSET [flags : SUBSET Bit, type : Type]]
  /\ Posts \in [Group -> SUBSET SUBSET Bit]
  /\ Suspends \subseteq Task
  /\ Careful \in BOOLEAN

VARIABLES
  OSFlagType,      \* per group: TRUE is OS_EVENT_TYPE_FLAG
  OSFlagFlags,
  OSFlagFreeList,
  links,           \* first: OSFlagWaitList of each group; next, prev: of each node
  node,            \* the rest of the node of a task, and its argument consume
  OSTCBFlagsRdy    \* kept while a task is in a pend, and for that pend only

flagVars == <<coreVars, OSFlagType, OSFlagFlags, OSFlagFreeList, links, node,
              OSTCBFlagsRdy>>

NoNode == [grp |-> Null, flags |-> {}, type |-> [sense |-> "SET", all |-> FALSE,
                                                 consume |-> FALSE]]

FlagTypeOK ==
  /\ TypeOK
  /\ OSFlagType \in [Group -> BOOLEAN]
  /\ OSFlagFlags \in [Group -> SUBSET Bit]
  /\ OSFlagFreeList \in Group \cup {Null}
  /\ links.first \in [Group -> Group \cup Task \cup {Null}]
  /\ links.next \in [Task -> Group \cup Task \cup {Null}]
  /\ links.prev \in [Task -> Task \cup {Null}]
  /\ node \in [Task -> [grp : Group \cup {Null}, flags : SUBSET Bit, type : Type]]
  /\ OSTCBFlagsRdy \in [Task -> SUBSET Bit]

\* OS_FlagInit
Init ==
  /\ CoreInit
  /\ OSFlagType = [g \in Group |-> FALSE]
  /\ OSFlagFlags = [g \in Group |-> {}]
  /\ OSFlagFreeList = 1
  /\ links = [first |-> [g \in Group |-> IF g = OS_MAX_FLAGS THEN Null ELSE g + 1],
              next |-> [t \in Task |-> Null], prev |-> [t \in Task |-> Null]]
  /\ node = [t \in Task |-> NoNode]
  /\ OSTCBFlagsRdy = [t \in Task |-> {}]

InTask(t) == Running(t) /\ pc[t] = "task"
Calls(t, g) == InTask(t) /\ OSFlagType[g]

\* The list of elements of S that starts at p and follows next.
Longer(next, p, S, s) == LET q == IF s = <<>> THEN p ELSE next[s[Len(s)]]
                         IN IF q \in S THEN Append(s, q) ELSE s

ListFrom(next, p, S) ==
  LET walk[n \in 0..Cardinality(S)] ==
        IF n = 0 THEN <<>> ELSE Longer(next, p, S, walk[n - 1])
  IN walk[Cardinality(S)]

WaitList(g) == ListFrom(links.next, links.first[g], Task)

\* flags_rdy: those of the flags asked for that are as the wait type wants.
FlagsRdy(F, flags, type) == IF type.sense = "SET" THEN F \cap flags ELSE flags \ F

Met(rdy, flags, type) == IF type.all THEN rdy = flags ELSE rdy # {}

Consumed(F, rdy, type) == IF ~type.consume THEN F
                          ELSE IF type.sense = "SET" THEN F \ rdy ELSE F \cup rdy

-----------------------------------------------------------------------------
(* Nodes *)

\* OS_FlagBlock for the running task: its node becomes the first.
OS_FlagBlock(t, g, flags, type, timeout) ==
  LET old == links.first[g] IN
  /\ OSTCBStat' = [OSTCBStat EXCEPT ![t] = @ \cup {"PEND"}]
  /\ OSTCBStatPend' = [OSTCBStatPend EXCEPT ![t] = "OK"]
  /\ OSTCBDly' = [OSTCBDly EXCEPT ![t] = timeout]
  /\ node' = [node EXCEPT ![t] = [grp |-> g, flags |-> flags, type |-> type]]
  /\ links' = [first |-> [links.first EXCEPT ![g] = t],
               next  |-> [links.next EXCEPT ![t] = old],
               prev  |-> [u \in Task |-> IF u = old THEN t ELSE IF u = t THEN Null
                                                           ELSE links.prev[u]]]
  /\ OSRdyTbl' = OSRdyTbl \ {OSTCBPrio[t]}
  /\ UNCHANGED OSTCBEventPtr

\* Mutant: the node after it still names it as the one before.
OS_FlagUnlink_KeepPrev(l, t) ==
  LET prev == l.prev[t]
      next == l.next[t]
  IN [first |-> IF prev = Null THEN [l.first EXCEPT ![node[t].grp] = next] ELSE l.first,
      next  |-> IF prev = Null THEN l.next ELSE [l.next EXCEPT ![prev] = next],
      prev  |-> l.prev]

\* OS_FlagUnlink: the pointers of the node itself stay as they are.
OS_FlagUnlink(l, t) ==
  LET prev == l.prev[t]
      next == l.next[t]
  IN [first |-> IF prev = Null THEN [l.first EXCEPT ![node[t].grp] = next] ELSE l.first,
      next  |-> IF prev = Null THEN l.next ELSE [l.next EXCEPT ![prev] = next],
      prev  |-> IF next \in Task THEN [l.prev EXCEPT ![next] = prev] ELSE l.prev]

\* The loops of OSFlagDel and OSFlagPost along the nodes s: those of T leave.
Unlinks(l, s, T) ==
  LET after[i \in 0..Len(s)] ==
        IF i = 0 THEN l
        ELSE IF s[i] \in T THEN OS_FlagUnlink(after[i - 1], s[i]) ELSE after[i - 1]
  IN after[Len(s)]

\* Mutant: the flags are recorded only for a task that becomes ready.
OS_FlagTaskRdy_NotSuspended(T, rdy, result) ==
  /\ OSTCBDly' = [t \in AllTask |-> IF t \in T THEN 0 ELSE OSTCBDly[t]]
  /\ OSTCBFlagsRdy' = [t \in Task |-> IF t \in T /\ "SUSPEND" \notin OSTCBStat[t]
                                      THEN rdy[t] ELSE OSTCBFlagsRdy[t]]
  /\ OSTCBStat' = [t \in AllTask |-> IF t \in T THEN OSTCBStat[t] \ {"PEND"}
                                                ELSE OSTCBStat[t]]
  /\ OSTCBStatPend' = [t \in AllTask |-> IF t \in T THEN result ELSE OSTCBStatPend[t]]
  /\ OSRdyTbl' = OSRdyTbl \cup
       {OSTCBPrio[t] : t \in {u \in T : "SUSPEND" \notin OSTCBStat[u]}}
  /\ UNCHANGED OSTCBEventPtr

\* OS_FlagTaskRdy for each task of T, but for the call of OS_FlagUnlink.
OS_FlagTaskRdy(T, rdy, result) ==
  /\ OSTCBDly' = [t \in AllTask |-> IF t \in T THEN 0 ELSE OSTCBDly[t]]
  /\ OSTCBFlagsRdy' = [t \in Task |-> IF t \in T THEN rdy[t] ELSE OSTCBFlagsRdy[t]]
  /\ OSTCBStat' = [t \in AllTask |-> IF t \in T THEN OSTCBStat[t] \ {"PEND"}
                                                ELSE OSTCBStat[t]]
  /\ OSTCBStatPend' = [t \in AllTask |-> IF t \in T THEN result ELSE OSTCBStatPend[t]]
  /\ OSRdyTbl' = OSRdyTbl \cup
       {OSTCBPrio[t] : t \in {u \in T : "SUSPEND" \notin OSTCBStat[u]}}
  /\ UNCHANGED OSTCBEventPtr

\* Mutant: no reschedule when one of the tasks stays suspended.
Readies_All(T) == T # {} /\ \A t \in T : "SUSPEND" \notin OSTCBStat[t]

Readies(T) == \E t \in T : "SUSPEND" \notin OSTCBStat[t]

-----------------------------------------------------------------------------
(* Services *)

FirstSet(l, g, p) == [first |-> [l.first EXCEPT ![g] = p], next |-> l.next, prev |-> l.prev]

OSFlagCreate(t, flags) ==
  LET g == OSFlagFreeList IN
  /\ InTask(t) /\ OSIntNesting = 0
  /\ g \in Group
  /\ OSFlagFreeList' = links.first[g]
  /\ OSFlagType' = [OSFlagType EXCEPT ![g] = TRUE]
  /\ OSFlagFlags' = [OSFlagFlags EXCEPT ![g] = flags]
  /\ links' = FirstSet(links, g, Null)
  /\ UNCHANGED <<coreVars, node, OSTCBFlagsRdy>>

MayDelete(g) == Careful => \A t \in Task : node[t].grp # g

\* Mutant: the group is not put in front of the free ones.
Freed_NotLinked(l, g) == l

Freed(l, g) == FirstSet(l, g, OSFlagFreeList)

\* OSFlagDel: with OS_DEL_NO_PEND only if nobody waits.
OSFlagDel(t, g, opt) ==
  LET waiting == WaitList(g) IN
  /\ Calls(t, g) /\ OSIntNesting = 0 /\ MayDelete(g)
  /\ opt = "NO_PEND" => waiting = <<>>
  /\ OS_FlagTaskRdy(ToSet(waiting), [u \in Task |-> {}], "ABORT")
  /\ OSFlagType' = [OSFlagType EXCEPT ![g] = FALSE]
  /\ OSFlagFlags' = [OSFlagFlags EXCEPT ![g] = {}]
  /\ OSFlagFreeList' = g
  /\ links' = Freed(Unlinks(links, waiting, ToSet(waiting)), g)
  /\ pc' = IF waiting = <<>> THEN pc ELSE [pc EXCEPT ![t] = "sched"]
  /\ UNCHANGED <<swVars, nestVars, OSTCBPrio, OSEventTbl, pevent, node>>

\* OSFlagAccept, and OSFlagPend when the flags are there already.
Take(t, g, flags, type, pend) ==
  LET rdy == FlagsRdy(OSFlagFlags[g], flags, type) IN
  /\ Calls(t, g)
  /\ pend => OSIntNesting = 0 /\ OSLockNesting = 0
  /\ Met(rdy, flags, type)
  /\ OSFlagFlags' = [OSFlagFlags EXCEPT ![g] = Consumed(@, rdy, type)]
  /\ UNCHANGED <<coreVars, OSFlagType, OSFlagFreeList, links, node, OSTCBFlagsRdy>>

\* OSFlagPend up to its call of OS_Sched.
OSFlagPend(t, g, flags, type, timeout) ==
  /\ Calls(t, g) /\ OSIntNesting = 0 /\ OSLockNesting = 0
  /\ ~Met(FlagsRdy(OSFlagFlags[g], flags, type), flags, type)
  /\ OS_FlagBlock(t, g, flags, type, timeout)
  /\ pc' = [pc EXCEPT ![t] = "pendsched"]
  /\ UNCHANGED <<swVars, nestVars, OSTCBPrio, OSEventTbl, pevent, OSFlagType,
                 OSFlagFlags, OSFlagFreeList, OSTCBFlagsRdy>>

\* A pend that was not granted unlinks its node, also where OSFlagDel has done
\* so already: the pointers it then uses are old.
Unlinked(t) == IF OSTCBStatPend[t] # "OK" THEN OS_FlagUnlink(links, t) ELSE links

\* OSFlagPend after OS_Sched, when the task runs again.  Its flags are consumed
\* now, not when they were granted.  The node goes with the stack frame.
OSFlagPendEnd(t) ==
  LET n == node[t]
      l == Unlinked(t)
  IN
  /\ Running(t) /\ pc[t] = "wake"
  /\ IF OSTCBStatPend[t] = "OK"
     THEN /\ OSFlagFlags' = [OSFlagFlags EXCEPT
                               ![n.grp] = Consumed(@, OSTCBFlagsRdy[t], n.type)]
          /\ UNCHANGED OSTCBStat
     ELSE /\ OSTCBStat' = [OSTCBStat EXCEPT ![t] = {}]
          /\ UNCHANGED OSFlagFlags
  /\ links' = [first |-> l.first, next |-> [l.next EXCEPT ![t] = Null],
               prev |-> [l.prev EXCEPT ![t] = Null]]
  /\ node' = [node EXCEPT ![t] = NoNode]
  /\ OSTCBStatPend' = [OSTCBStatPend EXCEPT ![t] = "OK"]
  /\ OSTCBFlagsRdy' = [OSTCBFlagsRdy EXCEPT ![t] = {}]
  /\ pc' = [pc EXCEPT ![t] = "task"]
  /\ UNCHANGED <<OSRdyTbl, swVars, nestVars, OSTCBPrio, OSTCBDly, OSTCBEventPtr,
                 OSEventTbl, pevent, OSFlagType, OSFlagFreeList>>

\* Mutant: the tasks are chosen by the flags as they were before the post.
OSFlagPost_Before(t, g, flags, opt) ==
  LET F == IF opt = "SET" THEN OSFlagFlags[g] \cup flags ELSE OSFlagFlags[g] \ flags
      rdy == [u \in Task |-> FlagsRdy(OSFlagFlags[g], node[u].flags, node[u].type)]
      woken == {u \in ToSet(WaitList(g)) : Met(rdy[u], node[u].flags, node[u].type)}
  IN
  /\ Calls(t, g)
  /\ OSFlagFlags' = [OSFlagFlags EXCEPT ![g] = F]
  /\ OS_FlagTaskRdy(woken, rdy, "OK")
  /\ links' = Unlinks(links, WaitList(g), woken)
  /\ pc' = IF Readies(woken) THEN [pc EXCEPT ![t] = "sched"] ELSE pc
  /\ UNCHANGED <<swVars, nestVars, OSTCBPrio, OSEventTbl, pevent, OSFlagType,
                 OSFlagFreeList, node>>

\* OSFlagPost by a task: it walks the whole list, and no flag is consumed on
\* the way.
OSFlagPost(t, g, flags, opt) ==
  LET F == IF opt = "SET" THEN OSFlagFlags[g] \cup flags ELSE OSFlagFlags[g] \ flags
      rdy == [u \in Task |-> FlagsRdy(F, node[u].flags, node[u].type)]
      woken == {u \in ToSet(WaitList(g)) : Met(rdy[u], node[u].flags, node[u].type)}
  IN
  /\ Calls(t, g)
  /\ OSFlagFlags' = [OSFlagFlags EXCEPT ![g] = F]
  /\ OS_FlagTaskRdy(woken, rdy, "OK")
  /\ links' = Unlinks(links, WaitList(g), woken)
  /\ pc' = IF Readies(woken) THEN [pc EXCEPT ![t] = "sched"] ELSE pc
  /\ UNCHANGED <<swVars, nestVars, OSTCBPrio, OSEventTbl, pevent, OSFlagType,
                 OSFlagFreeList, node>>

-----------------------------------------------------------------------------
FlagTask(t) ==
  \/ OSFlagCreate(t, {})
  \/ OSFlagPendEnd(t)
  \/ \E g \in Group :
       \/ \E opt \in {"NO_PEND", "ALWAYS"} : OSFlagDel(t, g, opt)
       \/ \E flags \in Posts[g], opt \in {"SET", "CLR"} : OSFlagPost(t, g, flags, opt)
       \/ \E ask \in Asks[g] :
            \/ \E pend \in BOOLEAN : Take(t, g, ask.flags, ask.type, pend)
            \/ \E n \in 0..MaxTicks : OSFlagPend(t, g, ask.flags, ask.type, n)

Tick == SysTickEnter /\ UNCHANGED <<OSRdyTbl, swVars, OSTCBPrio, tcbVars,
                                    OSEventTbl, callVars>>

Kernel == \/ PendSV_Handler \/ Tick \/ OSTimeTick \/ SysTickExit
          \/ \E t \in Task : \/ OS_Sched(t)
                           \/ \E u \in Suspends : OSTaskSuspend(t, u) \/ OSTaskResume(t, u)

Next == \/ Kernel /\ UNCHANGED <<OSFlagType, OSFlagFlags, OSFlagFreeList, links, node,
                                 OSTCBFlagsRdy>>
        \/ \E t \in Task : FlagTask(t)

Spec == Init /\ [][Next]_flagVars

-----------------------------------------------------------------------------
(* Safety *)

InPend(t) == pc[t] \in {"pendsched", "wake"}
Queued(t) == InPend(t) /\ ("PEND" \in OSTCBStat[t] \/ OSTCBStatPend[t] = "TO")

\* The list of a group holds, once each and linked both ways, the nodes of the
\* pends that have been neither granted nor aborted, those that timed out and
\* have not run since included: no order of post, timeout and return leaves a
\* dead stack frame in it (OS_FlagBlock, OS_FlagUnlink).
NodesOK ==
  \A g \in Group : OSFlagType[g] =>
    LET s == WaitList(g) IN
    /\ IsInjective(s)
    /\ ToSet(s) = {t \in Task : Queued(t) /\ node[t].grp = g}
    /\ \A i \in DOMAIN s : links.prev[s[i]] = IF i = 1 THEN Null ELSE s[i - 1]

\* No task waits for flags that are there, in a group whose pends and accepts
\* never consume flags that others wait for.
Undisturbed(g) ==
  \A c, w \in {ask.type : ask \in Asks[g]} : c.consume => c.sense = w.sense

NoMissedFlags ==
  \A t \in Task : InPend(t) /\ "PEND" \in OSTCBStat[t] /\ Undisturbed(node[t].grp) =>
    LET n == node[t] IN ~Met(FlagsRdy(OSFlagFlags[n.grp], n.flags, n.type), n.flags, n.type)

\* A pend that is about to return OS_ERR_NONE has flags that meet what it asked
\* for, also when the post found it timed out already.
GrantedFlagsMeet ==
  \A t \in Task : InPend(t) /\ ~Queued(t) /\ OSTCBStatPend[t] = "OK" =>
    /\ OSTCBFlagsRdy[t] \subseteq node[t].flags
    /\ Met(OSTCBFlagsRdy[t], node[t].flags, node[t].type)

\* os_flag.c says of OSFlagCreate that it fails with OS_ERR_FLAG_GRP_DEPLETED
\* "if there are no more event flag groups": every unused group is in the free
\* list.
DepletedMeansNone ==
  {g \in Group : ~OSFlagType[g]} = ToSet(ListFrom(links.first, OSFlagFreeList, Group))

=============================================================================
