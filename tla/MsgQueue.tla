------------------------------ MODULE MsgQueue -------------------------------
(***************************************************************************)
(* What a mailbox or a queue promises its callers, without the kernel: a   *)
(* bounded sequence of messages, the clients waiting for one, and what has *)
(* been handed to clients who have not yet been told.                      *)
(***************************************************************************)
EXTENDS Naturals, Sequences

CONSTANTS Client, Chan, Message, MaxCapacity,
          Rank         \* urgency of a client, smaller first

VARIABLES capacity,    \* per channel; 0 while it does not exist
          items, waiting, handed, aborted

vars == <<capacity, items, waiting, handed, aborted>>

Init == /\ capacity = [c \in Chan |-> 0]
        /\ items = [c \in Chan |-> <<>>]
        /\ waiting = [c \in Chan |-> {}]
        /\ handed = [c \in Chan |-> {}]
        /\ aborted = [c \in Chan |-> {}]

\* A message goes to the waiting clients it is for, all of them or the most
\* urgent, and is kept only if nobody waits.
Hand(c, m) ==
  \E S \in SUBSET waiting[c] :
    /\ S = waiting[c] \/ \E u \in S : S = {u} /\ \A v \in waiting[c] : Rank[u] <= Rank[v]
    /\ S # {}
    /\ waiting' = [waiting EXCEPT ![c] = @ \ S]
    /\ handed' = [handed EXCEPT ![c] = @ \cup {<<u, m>> : u \in S}]
    /\ UNCHANGED <<capacity, items, aborted>>

Keep(c, m) == /\ waiting[c] = {} /\ Len(items[c]) < capacity[c]
              /\ \/ items' = [items EXCEPT ![c] = Append(@, m)]
                 \/ items' = [items EXCEPT ![c] = <<m>> \o @]
              /\ UNCHANGED <<capacity, waiting, handed, aborted>>

\* The oldest message, or the one posted to the front, is taken first.
Take(c) == /\ items[c] # <<>>
           /\ items' = [items EXCEPT ![c] = Tail(@)]
           /\ UNCHANGED <<capacity, waiting, handed, aborted>>

Wait(c, u) == /\ capacity[c] > 0 /\ items[c] = <<>>
              /\ waiting' = [waiting EXCEPT ![c] = @ \cup {u}]
              /\ UNCHANGED <<capacity, items, handed, aborted>>

Abort(c, S) == /\ S \subseteq waiting[c]
               /\ waiting' = [waiting EXCEPT ![c] = @ \ S]
               /\ aborted' = [aborted EXCEPT ![c] = @ \cup S]
               /\ UNCHANGED <<capacity, items, handed>>

GiveUp(c, u) == /\ u \in waiting[c]
                /\ waiting' = [waiting EXCEPT ![c] = @ \ {u}]
                /\ UNCHANGED <<capacity, items, handed, aborted>>

Return(c, u) ==
  \/ \E m \in Message : /\ <<u, m>> \in handed[c]
                        /\ handed' = [handed EXCEPT ![c] = @ \ {<<u, m>>}]
                        /\ UNCHANGED <<capacity, items, waiting, aborted>>
  \/ /\ u \in aborted[c]
     /\ aborted' = [aborted EXCEPT ![c] = @ \ {u}]
     /\ UNCHANGED <<capacity, items, waiting, handed>>

Flush(c) == /\ items' = [items EXCEPT ![c] = <<>>]
            /\ UNCHANGED <<capacity, waiting, handed, aborted>>

\* A new channel is empty but for the message a mailbox may be created with.
Open(c, n) == /\ capacity[c] = 0
              /\ capacity' = [capacity EXCEPT ![c] = n]
              /\ \/ items' = [items EXCEPT ![c] = <<>>]
                 \/ \E m \in Message : items' = [items EXCEPT ![c] = <<m>>]
              /\ UNCHANGED <<waiting, handed, aborted>>

\* One that is deleted tells those who wait.
Close(c) == /\ capacity' = [capacity EXCEPT ![c] = 0]
            /\ items' = [items EXCEPT ![c] = <<>>]
            /\ waiting' = [waiting EXCEPT ![c] = {}]
            /\ aborted' = [aborted EXCEPT ![c] = @ \cup waiting[c]]
            /\ UNCHANGED handed

Next == \E c \in Chan :
  \/ Take(c) \/ Flush(c) \/ Close(c)
  \/ \E n \in 1..MaxCapacity : Open(c, n)
  \/ \E m \in Message : Hand(c, m) \/ Keep(c, m)
  \/ \E S \in SUBSET Client : Abort(c, S)
  \/ \E u \in Client : Wait(c, u) \/ GiveUp(c, u) \/ Return(c, u)

Spec == Init /\ [][Next]_vars

=============================================================================
