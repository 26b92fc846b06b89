------------------------------ MODULE SNTPClient ------------------------------
(***************************************************************************)
(* Keeping time (myapp2.c, sntp.c): KeepTime counts seconds in timenow,    *)
(* GetTimeFromNTPServer runs SNTP_run and writes the server's time into    *)
(* the same variable, without a critical section.  KeepTime has the higher *)
(* priority.  Time passes in units of half a second, the shortest delay of *)
(* the two tasks; what they compute takes none.                            *)
(***************************************************************************)
EXTENDS Integers, Sequences, FiniteSets

CONSTANTS
  SyncPeriod,   \* the long delay of GetTimeFromNTPServer, in half seconds
  MaxDelay,     \* the longest life of a request and its answer
  BootTime,     \* timenow at the start
  Start, MaxNow \* bounds: the half seconds observed

ASSUME SNTPAssumption ==
  /\ {SyncPeriod, MaxNow} \subseteq Nat \ {0}
  /\ {MaxDelay, BootTime, Start} \subseteq Nat

VARIABLES
  now,        \* half seconds of real time
  timenow,
  register,   \* KeepTime's copy of timenow between its load and its store
  pcKeep, pcGet,
  waitKeep, waitGet,  \* half seconds until the task's delay is over
  TimeIsSet,
  sr,         \* Sn_SR of the client's socket
  rx,         \* the server's seconds in the answers received
  net,        \* requests and answers on the wire
  sec,        \* SNTP_run's local of that name
  synced      \* history: an answer has been written into timenow

clock == <<now, timenow, register, synced>>
socket == <<sr, rx, net>>
tasks == <<pcKeep, pcGet, waitKeep, waitGet, TimeIsSet, sec>>
vars == <<clock, socket, tasks>>

\* The server's clock shows the right time.
TrueTime == now \div 2

Request == [sent : Start..MaxNow, answer : {-1}]
Answer == [sent : Start..MaxNow, answer : Nat]

Init ==
  /\ now = Start
  /\ timenow = BootTime
  /\ register = 0
  /\ pcKeep = "load"
  /\ pcGet = "poll"
  /\ waitKeep = 0
  /\ waitGet = 0
  /\ TimeIsSet = 0
  /\ sr = "CLOSED"
  /\ rx = <<>>
  /\ net = {}
  /\ sec = 0
  /\ synced = FALSE
-----------------------------------------------------------------------------
(* KeepTime: timenow++ is a load and a store, with whatever may run        *)
(* between them.                                                           *)

KEEPTIMEPRIO == 13
GetTimePRIO == 15

KeepReady == pcKeep # "delay"
GetReady == pcGet # "delay"

\* The ready task of the lower number has the processor.
KeepRuns == KeepReady /\ (GetReady => KEEPTIMEPRIO < GetTimePRIO)
GetRuns == GetReady /\ (KeepReady => GetTimePRIO < KEEPTIMEPRIO)

Load ==
  /\ KeepRuns /\ pcKeep = "load"
  /\ register' = timenow
  /\ pcKeep' = "store"
  /\ UNCHANGED <<now, timenow, synced, socket, pcGet, waitKeep, waitGet, TimeIsSet, sec>>

\* OSTimeDlyHMSM(0,0,1,0) follows.
Store ==
  /\ KeepRuns /\ pcKeep = "store"
  /\ timenow' = register + 1
  /\ pcKeep' = "delay"
  /\ waitKeep' = 2
  /\ UNCHANGED <<now, register, synced, socket, pcGet, waitGet, TimeIsSet, sec>>
-----------------------------------------------------------------------------
(* GetTimeFromNTPServer and SNTP_run.                                      *)

\* SNTP_run returned 0: TimeIsSet is 0 and the task tries again soon.
TryAgain ==
  /\ TimeIsSet' = 0
  /\ pcGet' = "delay"
  /\ waitGet' = 1

\* case SOCK_CLOSED: open the socket; the request waits for the next turn.
OpenSocket ==
  /\ GetRuns /\ pcGet = "poll" /\ sr = "CLOSED"
  /\ sr' = "UDP"
  /\ rx' = <<>>
  /\ TryAgain
  /\ UNCHANGED <<clock, net, pcKeep, waitKeep, sec>>

\* case SOCK_UDP with nothing received: ask.
SendRequest ==
  /\ GetRuns /\ pcGet = "poll" /\ sr = "UDP" /\ rx = <<>>
  /\ net' = net \cup {[sent |-> now, answer |-> -1]}
  /\ TryAgain
  /\ UNCHANGED <<clock, sr, rx, pcKeep, waitKeep, sec>>

\* case SOCK_UDP with data: recvfrom takes the first datagram.
Receive ==
  /\ GetRuns /\ pcGet = "poll" /\ sr = "UDP" /\ rx # <<>>
  /\ sec' = Head(rx)
  /\ rx' = Tail(rx)
  /\ pcGet' = "set"
  /\ UNCHANGED <<clock, sr, net, pcKeep, waitKeep, waitGet, TimeIsSet>>

SetTime ==
  /\ GetRuns /\ pcGet = "set"
  /\ timenow' = sec
  /\ synced' = TRUE
  /\ pcGet' = "close"
  /\ UNCHANGED <<now, register, socket, pcKeep, waitKeep, waitGet, TimeIsSet, sec>>

\* Mutant: the socket stays open.
CloseSocket_Not ==
  /\ GetRuns /\ pcGet = "close"
  /\ TimeIsSet' = 1
  /\ pcGet' = "delay"
  /\ waitGet' = SyncPeriod
  /\ UNCHANGED <<clock, socket, pcKeep, waitKeep, sec>>

\* close(SOCK_SNTP) drops what else was received; SNTP_run returns 1 and the
\* task sleeps for two minutes.
CloseSocket ==
  /\ GetRuns /\ pcGet = "close"
  /\ sr' = "CLOSED"
  /\ rx' = <<>>
  /\ TimeIsSet' = 1
  /\ pcGet' = "delay"
  /\ waitGet' = SyncPeriod
  /\ UNCHANGED <<clock, net, pcKeep, waitKeep, sec>>
-----------------------------------------------------------------------------
(* The network, and time.                                                  *)

ServerAnswers(m) ==
  /\ m.answer = -1
  /\ net' = (net \ {m}) \cup {[m EXCEPT !.answer = TrueTime]}
  /\ UNCHANGED <<clock, sr, rx, tasks>>

Deliver(m) ==
  /\ m.answer # -1
  /\ net' = net \ {m}
  /\ rx' = IF sr = "UDP" THEN Append(rx, m.answer) ELSE rx
  /\ UNCHANGED <<clock, sr, tasks>>

Lose(m) ==
  /\ net' = net \ {m}
  /\ UNCHANGED <<clock, sr, rx, tasks>>

\* Half a second passes; delays that are over have made their tasks ready.
Pass ==
  /\ waitKeep > 0 /\ waitGet > 0
  /\ \A m \in net : now < m.sent + MaxDelay
  /\ now < MaxNow
  /\ now' = now + 1
  /\ waitKeep' = waitKeep - 1
  /\ waitGet' = waitGet - 1
  /\ UNCHANGED <<timenow, register, synced, socket, pcKeep, pcGet, TimeIsSet, sec>>

\* A tick readies a task, perhaps in the middle of the other one's code.
KeepWakes ==
  /\ ~KeepReady /\ waitKeep = 0
  /\ pcKeep' = "load"
  /\ UNCHANGED <<clock, socket, pcGet, waitKeep, waitGet, TimeIsSet, sec>>

GetWakes ==
  /\ ~GetReady /\ waitGet = 0
  /\ pcGet' = "poll"
  /\ UNCHANGED <<clock, socket, pcKeep, waitKeep, waitGet, TimeIsSet, sec>>

Next ==
  \/ Load \/ Store
  \/ OpenSocket \/ SendRequest \/ Receive \/ SetTime \/ CloseSocket
  \/ \E m \in net : ServerAnswers(m) \/ Deliver(m) \/ Lose(m)
  \/ Pass \/ KeepWakes \/ GetWakes

Spec == Init /\ [][Next]_vars
-----------------------------------------------------------------------------
(* Properties.                                                             *)

\* Every variable keeps its type.
SNTPTypeOK ==
  /\ now \in Start..MaxNow
  /\ {timenow, register, sec} \subseteq Nat
  /\ pcKeep \in {"load", "store", "delay"}
  /\ pcGet \in {"poll", "set", "close", "delay"}
  /\ waitKeep \in 0..2
  /\ waitGet \in 0..SyncPeriod
  /\ TimeIsSet \in {0, 1}
  /\ sr \in {"CLOSED", "UDP"}
  /\ rx \in Seq(Nat)
  /\ net \subseteq Request \cup Answer
  /\ synced \in BOOLEAN

\* The age of an answer when it is used, MaxDelay and one turn of the task,
\* the rounding to seconds, and the time to KeepTime's next turn.
MaxError == (MaxDelay + 1) \div 2 + 2

Abs(n) == IF n < 0 THEN -n ELSE n

\* Once timenow has been set it stays near the true time: no setting is lost
\* to a concurrent timenow++, and no answer to an earlier request is used.
ClockNearTrue == synced => Abs(timenow - TrueTime) <= MaxError
=============================================================================
