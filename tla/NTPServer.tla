------------------------------ MODULE NTPServer ------------------------------
(***************************************************************************)
(* The NTP server (ntpserver.c).  One function, NTPUDP, serves a request;  *)
(* it is called by the task NTPServer every two seconds and by             *)
(* EXTI3_IRQHandler when the W5500 pulls its interrupt line low.  Both     *)
(* share the packet buffers and recvTime.  PRIMASK is a variable because   *)
(* NTPUDP has returns between OS_ENTER_CRITICAL and OS_EXIT_CRITICAL.      *)
(*                                                                         *)
(* The kernel appears only as far as it decides who runs: NTPServer has a  *)
(* higher priority than KeepTime, and "idle" stands for every other task.  *)
(* Frames on the SPI bus are taken to be whole (see W5500Bus).             *)
(***************************************************************************)
EXTENDS Naturals, Sequences, FiniteSets, Functions

CONSTANTS
  Requests,   \* the datagrams the network may deliver, each at most once
  RawSize,    \* the bytes each takes in the chip, the header included
  SendFails,  \* whether sendto may end with SOCKERR_TIMEOUT
  MaxTime,    \* bound: timenow counts up to it
  None        \* no request

ASSUME NTPAssumption ==
  /\ RawSize \in [Requests -> Nat]
  /\ \A r \in Requests : RawSize[r] >= 8
  /\ SendFails \in BOOLEAN
  /\ MaxTime \in Nat \ {0}
  /\ None \notin Requests

VARIABLES
  sr,           \* Sn_SR of the server's socket
  rx,           \* the datagrams in the socket's receive buffer
  recvIR,       \* Sn_IR_RECV; the chip's INTn line is low while it is set
  exti,         \* the falling edge of INTn latched by EXTI line 3
  primask,      \* PRIMASK: interrupts, SysTick and PendSV are held off
  running,      \* the task that has the processor
  keepDue,      \* the task KeepTime is ready
  pc,           \* per caller, where it is in NTPUDP
  cpu_sr,       \* per caller, NTPUDP's local copy of PRIMASK
  destip,       \* per caller, whom NTPUDP's local address names
  clientPacket, \* the request whose stamp is in the shared buffer
  serverPacket, \* the reply in the shared buffer
  recvTime,     \* seconds, and whether they are in network byte order
  timenow,
  arrivedAt,    \* history: the time at which each request arrived, 0 if not
  replies,      \* history: what was sent
  failed        \* history: requests given up by an error return of NTPUDP

chip == <<sr, rx, recvIR, exti, arrivedAt>>
sent == <<replies, failed>>
cpu == <<primask, cpu_sr>>
sched == <<running, keepDue>>
packet == <<destip, clientPacket, serverPacket, recvTime>>
vars == <<chip, cpu, sched, packet, pc, timenow, sent>>

Callers == {"task", "isr"}
Time == 0..MaxTime
Stamp == [v : Time, net : BOOLEAN]
Packet == [origin : Requests \cup {None}, recv : Stamp, xmit : Stamp]

NTP_PACKET_SIZE == 48
NTP_PACKET_RAWSIZE == 56

\* The header that the chip puts in front of a datagram, and what it is of.
HEADER == 8
Payload(r) == RawSize[r] - HEADER
IsNTP(r) == RawSize[r] = NTP_PACKET_RAWSIZE

\* The macro htonl: an involution on the bytes of a word.
htonl(s) == [s EXCEPT !.net = ~s.net]

\* INTn goes low: an edge only if it was high.
Edge == exti' = (exti \/ ~recvIR)

Init ==
  /\ sr = "CLOSED"
  /\ rx = <<>>
  /\ recvIR = FALSE
  /\ exti = FALSE
  /\ primask = FALSE
  /\ running = "NTPServer"
  /\ keepDue = TRUE
  /\ pc = [c \in Callers |-> IF c = "task" THEN "enter" ELSE "out"]
  /\ cpu_sr = [c \in Callers |-> FALSE]
  /\ destip = [c \in Callers |-> None]
  /\ clientPacket = None
  /\ serverPacket = [origin |-> None, recv |-> [v |-> 0, net |-> FALSE],
                     xmit |-> [v |-> 0, net |-> FALSE]]
  /\ recvTime = [v |-> 0, net |-> FALSE]
  /\ timenow = 1
  /\ arrivedAt = [r \in Requests |-> 0]
  /\ replies = {}
  /\ failed = {}
-----------------------------------------------------------------------------
(* The chip.                                                               *)

Arrive(r) ==
  /\ sr = "UDP"
  /\ arrivedAt[r] = 0
  /\ rx' = Append(rx, r)
  /\ recvIR' = TRUE
  /\ Edge
  /\ arrivedAt' = [arrivedAt EXCEPT ![r] = timenow]
  /\ UNCHANGED <<sr, cpu, sched, packet, pc, timenow, sent>>

\* The bytes of all datagrams in the receive buffer.
getSn_RX_RSR == FoldFunction(LAMBDA r, n : RawSize[r] + n, 0, rx)
-----------------------------------------------------------------------------
(* The handler.                                                            *)

\* Mutant: the handler leaves the stamp of the previous request.
EXTI3_IRQHandler_NoStamp ==
  /\ exti /\ ~primask /\ pc["isr"] = "out"
  /\ exti' = FALSE
  /\ pc' = [pc EXCEPT !["isr"] = "enter"]
  /\ UNCHANGED <<sr, rx, recvIR, arrivedAt, cpu, sched, packet, timenow, sent>>

\* Mutant: the handler rounds up.
EXTI3_IRQHandler_RoundUp ==
  /\ exti /\ ~primask /\ pc["isr"] = "out"
  /\ exti' = FALSE
  /\ recvTime' = [v |-> timenow + 1, net |-> FALSE]
  /\ pc' = [pc EXCEPT !["isr"] = "enter"]
  /\ UNCHANGED <<sr, rx, recvIR, arrivedAt, cpu, sched, destip, clientPacket,
                 serverPacket, timenow, sent>>

\* Up to the call of NTPUDP.  Nothing that writes timenow runs meanwhile.
EXTI3_IRQHandler ==
  /\ exti /\ ~primask /\ pc["isr"] = "out"
  /\ exti' = FALSE
  /\ recvTime' = [v |-> timenow, net |-> FALSE]
  /\ pc' = [pc EXCEPT !["isr"] = "enter"]
  /\ UNCHANGED <<sr, rx, recvIR, arrivedAt, cpu, sched, destip, clientPacket,
                 serverPacket, timenow, sent>>

\* OSIntExit and the exception return.
EXTI3_Return ==
  /\ pc["isr"] = "return"
  /\ pc' = [pc EXCEPT !["isr"] = "out"]
  /\ UNCHANGED <<chip, cpu, sched, packet, timenow, sent>>
-----------------------------------------------------------------------------
(* NTPUDP, called by c.  A handler runs to its end before any task.        *)

Active(c) == IF c = "isr" THEN pc["isr"] # "out"
             ELSE running = "NTPServer" /\ pc["isr"] = "out"

At(c, here, next) ==
  /\ Active(c)
  /\ pc[c] = here
  /\ pc' = [pc EXCEPT ![c] = next]

\* case SOCK_CLOSED: socket() with its close().
NTPUDP_Open(c) ==
  /\ At(c, "enter", "return")
  /\ sr = "CLOSED"
  /\ sr' = "UDP"
  /\ recvIR' = FALSE
  /\ UNCHANGED <<rx, exti, arrivedAt, cpu, sched, packet, timenow, sent>>

\* Mutant: no critical section.
NTPUDP_Enter_Open(c) ==
  /\ At(c, "enter", "size")
  /\ sr = "UDP"
  /\ cpu_sr' = [cpu_sr EXCEPT ![c] = primask]
  /\ UNCHANGED <<primask, chip, sched, packet, timenow, sent>>

\* case SOCK_UDP: OS_ENTER_CRITICAL.
NTPUDP_Enter(c) ==
  /\ At(c, "enter", "size")
  /\ sr = "UDP"
  /\ cpu_sr' = [cpu_sr EXCEPT ![c] = primask]
  /\ primask' = TRUE
  /\ UNCHANGED <<chip, sched, packet, timenow, sent>>

\* Mutant: the size is compared without the header.
NTPUDP_Size_Net(c) ==
  /\ At(c, "size", IF getSn_RX_RSR = NTP_PACKET_SIZE THEN "recv" ELSE "leave")
  /\ UNCHANGED <<chip, cpu, sched, packet, timenow, sent>>

\* The bytes of one NTP message, or of several short datagrams.  The chip goes
\* on receiving inside the critical section, so the size that is read here
\* may be out of date in recvfrom.
NTPUDP_Size(c) ==
  /\ At(c, "size", IF getSn_RX_RSR = NTP_PACKET_RAWSIZE THEN "recv" ELSE "leave")
  /\ UNCHANGED <<chip, cpu, sched, packet, timenow, sent>>

\* Mutant: recvfrom empties the buffer.
Recvfrom_All(c) ==
  /\ rx # <<>>
  /\ rx' = <<>>
  /\ clientPacket' = IF Payload(Head(rx)) >= NTP_PACKET_SIZE THEN Head(rx) ELSE clientPacket
  /\ destip' = [destip EXCEPT ![c] = Head(rx)]
  /\ UNCHANGED <<sr, recvIR, exti, arrivedAt, cpu, sched, serverPacket, recvTime, timenow>>

\* recvfrom takes the first datagram with its header and copies the payload
\* to the start of clientPacket.  Datagrams that made the 56 bytes together
\* have 40 at most, and the stamp, bytes 40 to 47, stays what it was.
Recvfrom(c) ==
  /\ rx # <<>>
  /\ rx' = Tail(rx)
  /\ clientPacket' = IF Payload(Head(rx)) >= NTP_PACKET_SIZE THEN Head(rx) ELSE clientPacket
  /\ destip' = [destip EXCEPT ![c] = Head(rx)]
  /\ UNCHANGED <<sr, recvIR, exti, arrivedAt, cpu, sched, serverPacket, recvTime, timenow>>

NTPUDP_Recv(c) ==
  /\ At(c, "recv", "stamp")
  /\ Recvfrom(c)
  /\ Payload(Head(rx)) > 0
  /\ UNCHANGED sent

\* ret <= 0: the datagram was empty.  It is gone, and NTPUDP returns:
\* OS_EXIT_CRITICAL and OSIntExit are skipped.
NTPUDP_RecvError(c) ==
  /\ At(c, "recv", "return")
  /\ Recvfrom(c)
  /\ Payload(Head(rx)) = 0
  /\ failed' = failed \cup {Head(rx)}
  /\ UNCHANGED replies

\* recvTime is converted in place, and converted again by the next call
\* unless the handler has set it in between.
NTPUDP_Stamp(c) ==
  /\ At(c, "stamp", "send")
  /\ recvTime' = htonl(recvTime)
  /\ serverPacket' = [origin |-> clientPacket, recv |-> htonl(recvTime),
                      xmit |-> htonl([v |-> timenow, net |-> FALSE])]
  /\ UNCHANGED <<chip, cpu, sched, destip, clientPacket, timenow, sent>>

\* sendto sends the message in one call; Sn_IR_SENDOK pulls INTn low until
\* sendto clears it.
NTPUDP_Send(c) ==
  /\ At(c, "send", "event")
  /\ replies' = replies \cup {[to |-> destip[c], packet |-> serverPacket, by |-> c]}
  /\ Edge
  /\ UNCHANGED <<sr, rx, recvIR, arrivedAt, cpu, sched, packet, timenow, failed>>

\* sendto fails and NTPUDP returns: OS_EXIT_CRITICAL and OSIntExit are skipped.
NTPUDP_SendError(c) ==
  /\ SendFails
  /\ At(c, "send", "return")
  /\ failed' = failed \cup {destip[c]}
  /\ Edge
  /\ UNCHANGED <<sr, rx, recvIR, arrivedAt, cpu, sched, packet, timenow, replies>>

\* wzn_event_handle clears Sn_IR_RECV, whichever datagram set it.
NTPUDP_Event(c) ==
  /\ At(c, "event", "leave")
  /\ recvIR' = FALSE
  /\ UNCHANGED <<sr, rx, exti, arrivedAt, cpu, sched, packet, timenow, sent>>

\* Mutant: the saved PRIMASK is not used.
NTPUDP_Leave_Masked(c) ==
  /\ At(c, "leave", "return")
  /\ UNCHANGED <<primask, cpu_sr, chip, sched, packet, timenow, sent>>

\* OS_EXIT_CRITICAL, OSIntExit.
NTPUDP_Leave(c) ==
  /\ At(c, "leave", "return")
  /\ primask' = cpu_sr[c]
  /\ UNCHANGED <<cpu_sr, chip, sched, packet, timenow, sent>>

NTPUDP(c) ==
  \/ NTPUDP_Open(c) \/ NTPUDP_Enter(c) \/ NTPUDP_Size(c) \/ NTPUDP_Recv(c)
  \/ NTPUDP_RecvError(c) \/ NTPUDP_Stamp(c) \/ NTPUDP_Send(c) \/ NTPUDP_SendError(c)
  \/ NTPUDP_Event(c) \/ NTPUDP_Leave(c)
-----------------------------------------------------------------------------
(* The tasks.  A delay needs PendSV to take the processor away: with       *)
(* PRIMASK set OSTimeDlyHMSM returns at once and the task goes on.         *)

NTPServer_Delay ==
  /\ running = "NTPServer" /\ pc["isr"] = "out" /\ pc["task"] = "return"
  /\ IF primask
     THEN /\ pc' = [pc EXCEPT !["task"] = "enter"]
          /\ UNCHANGED running
     ELSE /\ pc' = [pc EXCEPT !["task"] = "delay"]
          /\ running' = IF keepDue THEN "KeepTime" ELSE "idle"
  /\ UNCHANGED <<keepDue, chip, cpu, packet, timenow, sent>>

\* The two seconds are over: the tick readies the task and PendSV switches.
NTPServer_Wake ==
  /\ ~primask /\ pc["isr"] = "out" /\ pc["task"] = "delay"
  /\ running' = "NTPServer"
  /\ pc' = [pc EXCEPT !["task"] = "enter"]
  /\ UNCHANGED <<keepDue, chip, cpu, packet, timenow, sent>>

KeepTime_Wake ==
  /\ ~primask /\ pc["isr"] = "out" /\ ~keepDue
  /\ keepDue' = TRUE
  /\ running' = IF running = "idle" THEN "KeepTime" ELSE running
  /\ UNCHANGED <<chip, cpu, packet, pc, timenow, sent>>

\* One turn of KeepTime's loop.
KeepTime ==
  /\ running = "KeepTime" /\ pc["isr"] = "out"
  /\ timenow < MaxTime
  /\ timenow' = timenow + 1
  /\ IF primask
     THEN UNCHANGED sched
     ELSE keepDue' = FALSE /\ running' = "idle"
  /\ UNCHANGED <<chip, cpu, packet, pc, sent>>

Next ==
  \/ \E r \in Requests : Arrive(r)
  \/ EXTI3_IRQHandler \/ EXTI3_Return
  \/ \E c \in Callers : NTPUDP(c)
  \/ NTPServer_Delay \/ NTPServer_Wake \/ KeepTime_Wake \/ KeepTime

Spec == Init /\ [][Next]_vars

\* The processor executes the code of whoever has it; the timer that wakes
\* the server runs on its own.  Nothing is assumed of the network.
Fairness ==
  /\ WF_vars(EXTI3_IRQHandler) /\ WF_vars(EXTI3_Return)
  /\ \A c \in Callers : WF_vars(NTPUDP(c))
  /\ WF_vars(NTPServer_Delay) /\ WF_vars(NTPServer_Wake)

FairSpec == Spec /\ Fairness
-----------------------------------------------------------------------------
(* Properties.                                                             *)

Points == {"enter", "size", "recv", "stamp", "send", "event", "leave", "return"}

\* Every variable keeps its type.
NTPTypeOK ==
  /\ sr \in {"CLOSED", "UDP"}
  /\ rx \in Seq(Requests)
  /\ {recvIR, exti, primask, keepDue} \subseteq BOOLEAN
  /\ running \in {"NTPServer", "KeepTime", "idle"}
  /\ pc \in [Callers -> Points \cup {"out", "delay"}]
  /\ cpu_sr \in [Callers -> BOOLEAN]
  /\ destip \in [Callers -> Requests \cup {None}]
  /\ clientPacket \in Requests \cup {None}
  /\ serverPacket \in Packet
  /\ recvTime \in Stamp
  /\ timenow \in Time
  /\ arrivedAt \in [Requests -> Time]
  /\ failed \subseteq Requests
  /\ replies \subseteq [to : Requests, packet : Packet, by : Callers]

\* The reply to an NTP message carries the transmit stamp of that message,
\* although the task and the handler build their replies in the same buffers,
\* short datagrams leave an older stamp there, and requests keep coming; and
\* no request of any size is answered twice.
ReplyMatchesRequest ==
  /\ \A p \in replies : IsNTP(p.to) => p.packet.origin = p.to
  /\ \A p, q \in replies : p.to = q.to => p = q

\* ntpserver.c:67 says it of every reply: "Transmit Timestamp, T3 from client,
\* copy and return!"
EveryReplyMatches == \A p \in replies : p.packet.origin = p.to

\* The time of reception in the packet lies between the arrival and the
\* transmission, in network byte order.
Stamped(p) ==
  /\ p.packet.recv.net /\ p.packet.xmit.net
  /\ arrivedAt[p.to] <= p.packet.recv.v
  /\ p.packet.recv.v <= p.packet.xmit.v

\* So it is in every reply of the handler, also when the handler finds a
\* request later than the one whose edge it serves.
HandlerStamps == \A p \in replies : p.by = "isr" => Stamped(p)

\* ntpserver.c:71 says of the field: "Thoi gian nhan dc ban tin", the time at
\* which the message was received.
EveryReplyStamped == \A p \in replies : Stamped(p)

\* Outside NTPUDP and the handler interrupts are on: the critical section
\* "restores the interrupt disable state" (os_cpu.h:84).
InterruptsRestored ==
  pc["isr"] = "out" /\ pc["task"] \in {"enter", "delay", "return"} => ~primask

\* Only the error returns of NTPUDP leave them off, however the handler's
\* section, which saves and restores PRIMASK too, falls between the task's.
OnlyErrorsMask == failed = {} => InterruptsRestored

\* An NTP message that lies alone in the buffer is answered, by the handler or
\* by the task, unless another datagram comes before its size has been read.
\* An error return, after which interrupts stay off, ends the promise.
LoneRequestAnswered ==
  \A r \in Requests :
    (rx = <<r>> /\ IsNTP(r)) ~>
      (\/ \E p \in replies : p.to = r
       \/ Len(rx) > 1
       \/ failed # {})

\* Every datagram that arrived, of whatever size, is in one place: in the
\* chip, in the hands of one caller, answered, or given up by an error return.
OneFate ==
  \A r \in Requests : arrivedAt[r] # 0 =>
    LET held == {c \in Callers : pc[c] \in {"stamp", "send"} /\ destip[c] = r}
        queued == {i \in DOMAIN rx : rx[i] = r}
        fates == IF \E p \in replies : p.to = r THEN 1 ELSE 0
    IN Cardinality(held) + Cardinality(queued) + fates
         = IF r \in failed THEN 0 ELSE 1
=============================================================================
