-------------------------------- MODULE Timers -------------------------------
(***************************************************************************)
(* What software timers promise: a timer that is started fires when its    *)
(* time is over, not before and not after, unless it is stopped, deleted   *)
(* or started anew.  There is no wheel and no list.                        *)
(***************************************************************************)
EXTENDS Naturals

CONSTANTS Timer,
          Kind,              \* [dly, period, periodic]
          NoKind             \* the kind of an unused timer

VARIABLES state, kind,
          left               \* ticks until the timer fires; 0: it is due

vars == <<state, kind, left>>

FirstWait(k) == IF k.dly = 0 THEN k.period ELSE k.dly

Init == /\ state = [x \in Timer |-> "UNUSED"]
        /\ kind = [x \in Timer |-> NoKind]
        /\ left = [x \in Timer |-> 0]

Create(x) == /\ state[x] = "UNUSED"
             /\ state' = [state EXCEPT ![x] = "STOPPED"]
             /\ \E k \in Kind : kind' = [kind EXCEPT ![x] = k]
             /\ UNCHANGED left

Start(x) == /\ state[x] # "UNUSED"
            /\ state' = [state EXCEPT ![x] = "RUNNING"]
            /\ left' = [left EXCEPT ![x] = FirstWait(kind[x])]
            /\ UNCHANGED kind

Stop(x) == /\ state[x] = "RUNNING"
           /\ state' = [state EXCEPT ![x] = "STOPPED"]
           /\ left' = [left EXCEPT ![x] = 0]
           /\ UNCHANGED kind

Delete(x) == /\ state[x] # "UNUSED"
             /\ state' = [state EXCEPT ![x] = "UNUSED"]
             /\ left' = [left EXCEPT ![x] = 0]
             /\ kind' = [kind EXCEPT ![x] = NoKind]

Due == {x \in Timer : state[x] = "RUNNING" /\ left[x] = 0}

\* Time goes on only when every timer that is due has fired.
Tick == /\ Due = {}
        /\ left' = [x \in Timer |-> IF state[x] = "RUNNING" THEN left[x] - 1 ELSE 0]
        /\ UNCHANGED <<state, kind>>

Fire(x) == /\ x \in Due
           /\ IF kind[x].periodic
              THEN left' = [left EXCEPT ![x] = kind[x].period] /\ UNCHANGED state
              ELSE state' = [state EXCEPT ![x] = "COMPLETED"] /\ UNCHANGED left
           /\ UNCHANGED kind

Next == \/ Tick
        \/ \E x \in Timer : Create(x) \/ Start(x) \/ Stop(x) \/ Delete(x) \/ Fire(x)

Fairness == /\ WF_vars(Tick)
            /\ \A x \in Timer : WF_vars(Fire(x))

Spec == Init /\ [][Next]_vars /\ Fairness

=============================================================================
