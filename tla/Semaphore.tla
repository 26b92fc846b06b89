----------------------------- MODULE Semaphore ------------------------------
(***************************************************************************)
(* What a uC/OS-II semaphore promises its callers, without the kernel: a   *)
(* count, the clients waiting, and the clients whose wait has ended but    *)
(* who have not yet been told.  A post gives its token to exactly one      *)
(* client, the most urgent one waiting, or to the count.                   *)
(***************************************************************************)
EXTENDS Naturals

CONSTANTS
  Client, Sem,
  Settable,   \* the semaphores whose count the application may reset
  Rank,       \* urgency of a client, smaller first
  MaxCount

VARIABLES count, waiting, granted, aborted

vars == <<count, waiting, granted, aborted>>

TypeOK == /\ count \in [Sem -> 0..MaxCount]
          /\ waiting \in [Sem -> SUBSET Client]
          /\ granted \in [Sem -> SUBSET Client]
          /\ aborted \in [Sem -> SUBSET Client]

Init == /\ count \in [Sem -> 0..MaxCount]
        /\ waiting = [s \in Sem |-> {}]
        /\ granted = [s \in Sem |-> {}]
        /\ aborted = [s \in Sem |-> {}]

\* A pend, or an accept, that finds a token takes it at once.
Take(s) == /\ count[s] > 0
           /\ count' = [count EXCEPT ![s] = @ - 1]
           /\ UNCHANGED <<waiting, granted, aborted>>

Wait(s, c) == /\ count[s] = 0
              /\ waiting' = [waiting EXCEPT ![s] = @ \cup {c}]
              /\ UNCHANGED <<count, granted, aborted>>

Count(s) == /\ waiting[s] = {} /\ count[s] < MaxCount
            /\ count' = [count EXCEPT ![s] = @ + 1]
            /\ UNCHANGED <<waiting, granted, aborted>>

Grant(s, c) == /\ c \in waiting[s]
               /\ \A d \in waiting[s] : Rank[c] <= Rank[d]
               /\ waiting' = [waiting EXCEPT ![s] = @ \ {c}]
               /\ granted' = [granted EXCEPT ![s] = @ \cup {c}]
               /\ UNCHANGED <<count, aborted>>

Abort(s, C) == /\ C \subseteq waiting[s]
               /\ waiting' = [waiting EXCEPT ![s] = @ \ C]
               /\ aborted' = [aborted EXCEPT ![s] = @ \cup C]
               /\ UNCHANGED <<count, granted>>

GiveUp(s, c) == /\ c \in waiting[s]
                /\ waiting' = [waiting EXCEPT ![s] = @ \ {c}]
                /\ UNCHANGED <<count, granted, aborted>>

ReturnGranted(s, c) == /\ c \in granted[s]
                       /\ granted' = [granted EXCEPT ![s] = @ \ {c}]
                       /\ UNCHANGED <<count, waiting, aborted>>

ReturnAborted(s, c) == /\ c \in aborted[s]
                       /\ aborted' = [aborted EXCEPT ![s] = @ \ {c}]
                       /\ UNCHANGED <<count, waiting, granted>>

\* The count may be set only while nobody waits for it.
Set(s, n) == /\ s \in Settable
             /\ waiting[s] = {}
             /\ count' = [count EXCEPT ![s] = n]
             /\ UNCHANGED <<waiting, granted, aborted>>

Next == \E s \in Sem :
  \/ Take(s)
  \/ Count(s)
  \/ \E n \in 0..MaxCount : Set(s, n)
  \/ \E C \in SUBSET Client : Abort(s, C)
  \/ \E c \in Client : \/ Wait(s, c)
                       \/ Grant(s, c)
                       \/ GiveUp(s, c)
                       \/ ReturnGranted(s, c)
                       \/ ReturnAborted(s, c)

Spec == Init /\ [][Next]_vars

=============================================================================
