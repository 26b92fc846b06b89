---------------------------- MODULE NTPServerProof ----------------------------
(***************************************************************************)
(* The NTP server's shared buffers serve one caller at a time, so that     *)
(* every NTP message gets its own reply, no datagram is in two hands or    *)
(* answered twice, what the handler sends is stamped truly, and interrupts *)
(* stay off after error returns only: for every number of datagrams of any *)
(* sizes, read alone or several at once, with sends that may fail.         *)
(***************************************************************************)
EXTENDS NTPServer, FiniteSetTheorems, TLAPS

InSection == {"size", "recv", "stamp", "send", "event", "leave"}
Holding(c) == pc[c] \in {"stamp", "send"}

PcOK == /\ pc \in [Callers -> Points \cup {"out", "delay"}]
        /\ pc["task"] # "out" /\ pc["isr"] # "delay"

\* OS_ENTER_CRITICAL keeps the handler out of the task's section, and the
\* task does not run before the handler has returned.
ExclusiveInv ==
  /\ \A c \in Callers : pc[c] \in InSection => primask
  /\ pc["task"] \in InSection => pc["isr"] = "out"

\* What lies in the shared buffers is what the caller in the section put there.
BufferInv ==
  \A c \in Callers :
    /\ Holding(c) => /\ destip[c] \in Requests
                     /\ IsNTP(destip[c]) => clientPacket = destip[c]
    /\ pc[c] = "send" /\ IsNTP(destip[c]) => serverPacket.origin = destip[c]

Inv == NTPTypeOK /\ PcOK /\ ExclusiveInv /\ BufferInv

\* What the invariant says of the caller that has a datagram in its hands.
LEMMA HoldingFacts ==
  ASSUME BufferInv, NEW c \in Callers, pc[c] \in {"stamp", "send"}
  PROVE  /\ destip[c] \in Requests
         /\ IsNTP(destip[c]) => clientPacket = destip[c]
         /\ pc[c] = "send" /\ IsNTP(destip[c]) => serverPacket.origin = destip[c]
BY DEF BufferInv, Holding

\* What recvfrom does, whether it returns bytes or none.
LEMMA RecvfromFacts ==
  ASSUME NTPTypeOK, NEW c \in Callers, Recvfrom(c)
  PROVE  /\ rx' = Tail(rx) /\ rx # <<>> /\ Head(rx) \in Requests
         /\ rx' \in Seq(Requests)
         /\ destip' = [destip EXCEPT ![c] = Head(rx)]
         /\ clientPacket' \in {Head(rx), clientPacket}
         /\ IsNTP(Head(rx)) => clientPacket' = Head(rx)
         /\ UNCHANGED <<sr, recvIR, exti, arrivedAt, primask, cpu_sr, running, keepDue,
                        serverPacket, recvTime, timenow>>
<1>1. rx \in Seq(Requests) /\ rx # <<>>
  BY DEF NTPTypeOK, Recvfrom
<1>2. Head(rx) \in Requests /\ Tail(rx) \in Seq(Requests)
  BY <1>1
<1>3. IsNTP(Head(rx)) => Payload(Head(rx)) >= NTP_PACKET_SIZE
  BY DEF IsNTP, Payload, NTP_PACKET_SIZE, NTP_PACKET_RAWSIZE, HEADER
<1> QED
  BY <1>1, <1>2, <1>3 DEF Recvfrom, cpu, sched

\* The callers are two, and only one of them can be in the section.
LEMMA OneCaller ==
  ASSUME PcOK, ExclusiveInv, NEW c \in Callers, NEW d \in Callers,
         Active(c), pc[c] \in InSection, d # c
  PROVE  pc[d] \notin InSection
BY DEF PcOK, ExclusiveInv, Callers, InSection, Active

\* What a step within NTPUDP says of the program counters.
LEMMA AtStep ==
  ASSUME PcOK, NEW c \in Callers, NEW here, NEW next, At(c, here, next)
  PROVE  /\ pc[c] = here /\ pc'[c] = next
         /\ \A d \in Callers : d # c => pc'[d] = pc[d]
         /\ pc' = [pc EXCEPT ![c] = next]
BY DEF At, PcOK

-----------------------------------------------------------------------------
(* Types                                                                   *)

LEMMA InitTyped == Init => NTPTypeOK
<1> SUFFICES ASSUME Init PROVE NTPTypeOK
  OBVIOUS
<1>1. 0 \in Time /\ 1 \in Time
  BY NTPAssumption DEF Time
<1>2. serverPacket \in Packet /\ recvTime \in Stamp
  BY <1>1 DEF Init, Packet, Stamp
<1>3. pc \in [Callers -> Points \cup {"out", "delay"}]
  BY DEF Init, Callers, Points
<1>4. rx \in Seq(Requests)
  BY DEF Init
<1> QED
  BY <1>1, <1>2, <1>3, <1>4 DEF Init, NTPTypeOK

LEMMA htonlTyped ==
  ASSUME NEW s \in Stamp
  PROVE  /\ htonl(s) \in Stamp /\ htonl(s) = [v |-> s.v, net |-> ~s.net]
<1>1. s \in [v : Time, net : BOOLEAN]
  BY DEF Stamp
<1>2. htonl(s) \in [v : Time, net : BOOLEAN]
  BY <1>1 DEF htonl
<1>3. htonl(s).v = s.v /\ htonl(s).net = ~s.net
  BY <1>1 DEF htonl
<1> QED
  BY <1>2, <1>3 DEF Stamp

LEMMA NTPUDPTyped ==
  ASSUME Inv, NEW c \in Callers, NTPUDP(c)
  PROVE  NTPTypeOK'
<1> USE DEF Inv, NTPTypeOK
<1>1. ASSUME NEW here, NEW next \in Points, At(c, here, next)
      PROVE  pc' \in [Callers -> Points \cup {"out", "delay"}]
  BY <1>1 DEF At
<1>2. CASE NTPUDP_Open(c)
  <2>1. pc' \in [Callers -> Points \cup {"out", "delay"}]
    BY <1>1, <1>2 DEF NTPUDP_Open, Points
  <2> QED
    BY <2>1, <1>2 DEF NTPUDP_Open, cpu, sched, packet, sent
<1>3. CASE NTPUDP_Enter(c)
  <2>1. pc' \in [Callers -> Points \cup {"out", "delay"}]
    BY <1>1, <1>3 DEF NTPUDP_Enter, Points
  <2> QED
    BY <2>1, <1>3 DEF NTPUDP_Enter, chip, sched, packet, sent
<1>4. CASE NTPUDP_Size(c)
  <2>1. pc' \in [Callers -> Points \cup {"out", "delay"}]
    BY <1>1, <1>4 DEF NTPUDP_Size, Points
  <2> QED
    BY <2>1, <1>4 DEF NTPUDP_Size, chip, cpu, sched, packet, sent
<1>5. CASE NTPUDP_Recv(c)
  <2>1. pc' \in [Callers -> Points \cup {"out", "delay"}]
    BY <1>1, <1>5 DEF NTPUDP_Recv, Points
  <2> QED
    BY <2>1, <1>5, RecvfromFacts DEF NTPUDP_Recv, sent, Inv, NTPTypeOK
<1>6. CASE NTPUDP_Stamp(c)
  <2>1. pc' \in [Callers -> Points \cup {"out", "delay"}]
    BY <1>1, <1>6 DEF NTPUDP_Stamp, Points
  <2>2. [v |-> timenow, net |-> FALSE] \in Stamp
    BY DEF Stamp
  <2>3. recvTime' \in Stamp /\ htonl([v |-> timenow, net |-> FALSE]) \in Stamp
    BY <2>2, <1>6, htonlTyped DEF NTPUDP_Stamp
  <2>4. serverPacket' \in Packet
    BY <2>3, <1>6 DEF NTPUDP_Stamp, Packet
  <2> QED
    BY <2>1, <2>3, <2>4, <1>6 DEF NTPUDP_Stamp, chip, cpu, sched, sent
<1>7. CASE NTPUDP_Send(c)
  <2>1. pc' \in [Callers -> Points \cup {"out", "delay"}]
    BY <1>1, <1>7 DEF NTPUDP_Send, Points
  <2>2. destip[c] \in Requests
    BY <1>7, HoldingFacts DEF NTPUDP_Send, At
  <2>3. replies' \subseteq [to : Requests, packet : Packet, by : Callers]
    BY <2>2, <1>7 DEF NTPUDP_Send
  <2> QED
    BY <2>1, <2>3, <1>7 DEF NTPUDP_Send, Edge, cpu, sched, packet
<1>8. CASE NTPUDP_SendError(c)
  <2>1. pc' \in [Callers -> Points \cup {"out", "delay"}]
    BY <1>1, <1>8 DEF NTPUDP_SendError, Points
  <2>2. destip[c] \in Requests
    BY <1>8, HoldingFacts DEF NTPUDP_SendError, At
  <2> QED
    BY <2>1, <2>2, <1>8 DEF NTPUDP_SendError, Edge, cpu, sched, packet
<1>9. CASE NTPUDP_Event(c)
  <2>1. pc' \in [Callers -> Points \cup {"out", "delay"}]
    BY <1>1, <1>9 DEF NTPUDP_Event, Points
  <2> QED
    BY <2>1, <1>9 DEF NTPUDP_Event, cpu, sched, packet, sent
<1>10. CASE NTPUDP_Leave(c)
  <2>1. pc' \in [Callers -> Points \cup {"out", "delay"}]
    BY <1>1, <1>10 DEF NTPUDP_Leave, Points
  <2> QED
    BY <2>1, <1>10 DEF NTPUDP_Leave, chip, sched, packet, sent
<1>11. CASE NTPUDP_RecvError(c)
  <2>1. pc' \in [Callers -> Points \cup {"out", "delay"}]
    BY <1>1, <1>11 DEF NTPUDP_RecvError, Points
  <2> QED
    BY <2>1, <1>11, RecvfromFacts DEF NTPUDP_RecvError
<1> QED
  BY <1>2, <1>3, <1>4, <1>5, <1>6, <1>7, <1>8, <1>9, <1>10, <1>11 DEF NTPUDP

LEMMA ChipTyped ==
  ASSUME Inv, NEW r \in Requests, Arrive(r)
  PROVE  NTPTypeOK'
BY DEF Inv, NTPTypeOK, Arrive, Edge, cpu, sched, packet, sent

LEMMA HandlerTyped ==
  ASSUME Inv, EXTI3_IRQHandler \/ EXTI3_Return
  PROVE  NTPTypeOK'
<1> USE DEF Inv, NTPTypeOK
<1>1. CASE EXTI3_IRQHandler
  <2>1. recvTime' \in Stamp
    BY <1>1 DEF EXTI3_IRQHandler, Stamp
  <2> QED
    BY <1>1, <2>1 DEF EXTI3_IRQHandler, cpu, sched, sent, Points
<1>2. CASE EXTI3_Return
  BY <1>2 DEF EXTI3_Return, chip, cpu, sched, packet, sent
<1> QED
  BY <1>1, <1>2

LEMMA TasksTyped ==
  ASSUME Inv, NTPServer_Delay \/ NTPServer_Wake \/ KeepTime_Wake \/ KeepTime
  PROVE  NTPTypeOK'
<1> USE DEF Inv, NTPTypeOK
<1>1. CASE NTPServer_Delay
  BY <1>1 DEF NTPServer_Delay, chip, cpu, packet, sent, Points
<1>2. CASE NTPServer_Wake
  BY <1>2 DEF NTPServer_Wake, chip, cpu, packet, sent, Points
<1>3. CASE KeepTime_Wake
  BY <1>3 DEF KeepTime_Wake, chip, cpu, packet, sent
<1>4. CASE KeepTime
  <2>1. timenow' \in Time
    BY <1>4, NTPAssumption DEF KeepTime, Time
  <2> QED
    BY <1>4, <2>1 DEF KeepTime, chip, cpu, packet, sched, sent
<1> QED
  BY <1>1, <1>2, <1>3, <1>4

-----------------------------------------------------------------------------
(* One caller at a time                                                    *)

LEMMA InitExclusive == Init => PcOK /\ ExclusiveInv /\ BufferInv
BY DEF Init, PcOK, ExclusiveInv, BufferInv, Holding, InSection, Callers, Points

LEMMA NTPUDPExclusive ==
  ASSUME Inv, NEW c \in Callers, NTPUDP(c)
  PROVE  PcOK' /\ ExclusiveInv'
<1>1. PcOK /\ ExclusiveInv /\ cpu_sr \in [Callers -> BOOLEAN]
  BY DEF Inv, NTPTypeOK
<1>2. Active(c) /\ pc[c] \notin {"out", "delay"}
  BY DEF NTPUDP, NTPUDP_Open, NTPUDP_Enter, NTPUDP_Size, NTPUDP_Recv, NTPUDP_RecvError,
         NTPUDP_Stamp, NTPUDP_Send, NTPUDP_SendError, NTPUDP_Event, NTPUDP_Leave, At
<1>3. PICK next \in Points : pc' = [pc EXCEPT ![c] = next]
  BY DEF NTPUDP, NTPUDP_Open, NTPUDP_Enter, NTPUDP_Size, NTPUDP_Recv, NTPUDP_RecvError,
         NTPUDP_Stamp, NTPUDP_Send, NTPUDP_SendError, NTPUDP_Event, NTPUDP_Leave, At, Points
<1>4. PcOK'
  BY <1>1, <1>3 DEF PcOK, Points
<1>5. pc'["isr"] = "out" <=> pc["isr"] = "out"
  BY <1>1, <1>2, <1>3 DEF PcOK, Points, Callers
<1>6. \A d \in Callers : d # c => pc'[d] = pc[d]
  BY <1>1, <1>3 DEF PcOK
<1>7. CASE NTPUDP_Enter(c)
  BY <1>1, <1>2, <1>4, <1>5, <1>6, <1>7
  DEF ExclusiveInv, NTPUDP_Enter, Active, Callers
<1>8. CASE NTPUDP_Leave(c)
  <2>1. pc[c] \in InSection /\ pc'[c] \notin InSection
    BY <1>1, <1>8, AtStep DEF NTPUDP_Leave, InSection
  <2>2. \A d \in Callers : pc'[d] \notin InSection
    BY <1>1, <1>2, <1>6, <2>1, OneCaller
  <2> QED
    BY <1>4, <2>2 DEF ExclusiveInv, Callers
<1>9. ASSUME pc'[c] \in InSection => pc[c] \in InSection, primask' = primask
      PROVE  ExclusiveInv'
  BY <1>1, <1>5, <1>6, <1>9 DEF ExclusiveInv, Callers
<1>10. CASE NTPUDP_Open(c) \/ NTPUDP_Size(c) \/ NTPUDP_Recv(c) \/ NTPUDP_Stamp(c)
  <2>1. primask' = primask
    BY <1>10 DEF NTPUDP_Open, NTPUDP_Size, NTPUDP_Recv, NTPUDP_Stamp, Recvfrom, cpu
  <2>2. pc'[c] \in InSection => pc[c] \in InSection
    BY <1>1, <1>10, AtStep
    DEF NTPUDP_Open, NTPUDP_Size, NTPUDP_Recv, NTPUDP_Stamp, InSection
  <2> QED
    BY <1>4, <1>9, <2>1, <2>2
<1>11. CASE NTPUDP_Send(c) \/ NTPUDP_SendError(c) \/ NTPUDP_Event(c) \/ NTPUDP_RecvError(c)
  <2>1. primask' = primask
    BY <1>11 DEF NTPUDP_Send, NTPUDP_SendError, NTPUDP_Event, NTPUDP_RecvError, Recvfrom, cpu
  <2>2. pc'[c] \in InSection => pc[c] \in InSection
    BY <1>1, <1>11, AtStep
    DEF NTPUDP_Send, NTPUDP_SendError, NTPUDP_Event, NTPUDP_RecvError, InSection
  <2> QED
    BY <1>4, <1>9, <2>1, <2>2
<1> QED
  BY <1>4, <1>7, <1>8, <1>10, <1>11 DEF NTPUDP

LEMMA OthersExclusive ==
  ASSUME Inv,
         \/ \E r \in Requests : Arrive(r)
         \/ EXTI3_IRQHandler \/ EXTI3_Return
         \/ NTPServer_Delay \/ NTPServer_Wake \/ KeepTime_Wake \/ KeepTime
  PROVE  PcOK' /\ ExclusiveInv'
<1> USE DEF Inv, PcOK, ExclusiveInv, InSection, Callers, Points
<1>1. CASE (\E r \in Requests : Arrive(r)) \/ KeepTime_Wake \/ KeepTime
  BY <1>1 DEF Arrive, KeepTime_Wake, KeepTime, cpu
<1>2. CASE EXTI3_IRQHandler
  BY <1>2 DEF EXTI3_IRQHandler, cpu
<1>3. CASE EXTI3_Return
  BY <1>3 DEF EXTI3_Return, cpu
<1>4. CASE NTPServer_Delay \/ NTPServer_Wake
  BY <1>4 DEF NTPServer_Delay, NTPServer_Wake, cpu
<1> QED
  BY <1>1, <1>2, <1>3, <1>4

\* Only the caller in the section writes clientPacket and serverPacket.
LEMMA NTPUDPBuffers ==
  ASSUME Inv, NEW c \in Callers, NTPUDP(c)
  PROVE  BufferInv'
<1>1. PcOK /\ ExclusiveInv /\ BufferInv /\ NTPTypeOK
      /\ destip \in [Callers -> Requests \cup {None}]
  BY DEF Inv, NTPTypeOK
<1>2. CASE NTPUDP_Recv(c)
  <2>1. Active(c) /\ pc[c] = "recv" /\ pc' = [pc EXCEPT ![c] = "stamp"]
    BY <1>2 DEF NTPUDP_Recv, At
  <2>2. \A d \in Callers : d # c => ~Holding(d)'
    BY <1>1, <2>1, OneCaller DEF PcOK, InSection, Holding
  <2>3. /\ destip'[c] = Head(rx) /\ Head(rx) \in Requests /\ pc'[c] = "stamp"
        /\ IsNTP(Head(rx)) => clientPacket' = Head(rx)
    BY <1>1, <1>2, <2>1, RecvfromFacts DEF NTPUDP_Recv, PcOK
  <2> QED
    BY <2>2, <2>3 DEF BufferInv, Holding, IsNTP
<1>3. CASE NTPUDP_Stamp(c)
  <2>1. Active(c) /\ pc[c] = "stamp" /\ pc' = [pc EXCEPT ![c] = "send"]
    BY <1>3 DEF NTPUDP_Stamp, At
  <2>2. \A d \in Callers : d # c => ~Holding(d)'
    BY <1>1, <2>1, OneCaller DEF PcOK, InSection, Holding
  <2>3. destip' = destip /\ clientPacket' = clientPacket
        /\ serverPacket'.origin = clientPacket
    BY <1>3 DEF NTPUDP_Stamp
  <2>4. destip[c] \in Requests /\ (IsNTP(destip[c]) => clientPacket = destip[c])
    BY <1>1, <2>1, HoldingFacts
  <2> QED
    BY <1>1, <2>1, <2>2, <2>3, <2>4 DEF BufferInv, Holding, IsNTP
<1>4. CASE NTPUDP_Open(c) \/ NTPUDP_Enter(c) \/ NTPUDP_Size(c) \/ NTPUDP_Send(c)
           \/ NTPUDP_SendError(c) \/ NTPUDP_Event(c) \/ NTPUDP_Leave(c)
  <2>1. UNCHANGED <<destip, clientPacket, serverPacket>>
    BY <1>4 DEF NTPUDP_Open, NTPUDP_Enter, NTPUDP_Size, NTPUDP_Send,
                NTPUDP_SendError, NTPUDP_Event, NTPUDP_Leave, packet
  <2>2. \A d \in Callers : pc'[d] \in {"stamp", "send"} => pc'[d] = pc[d]
    BY <1>1, <1>4, AtStep DEF NTPUDP_Open, NTPUDP_Enter, NTPUDP_Size, NTPUDP_Send,
                NTPUDP_SendError, NTPUDP_Event, NTPUDP_Leave
  <2> QED
    BY <1>1, <2>1, <2>2 DEF BufferInv, Holding, IsNTP
<1>5. CASE NTPUDP_RecvError(c)
  <2>1. Active(c) /\ pc[c] = "recv" /\ pc' = [pc EXCEPT ![c] = "return"]
    BY <1>5 DEF NTPUDP_RecvError, At
  <2>2. \A d \in Callers : ~Holding(d)'
    BY <1>1, <2>1, OneCaller DEF PcOK, InSection, Holding
  <2> QED
    BY <2>2 DEF BufferInv, Holding
<1> QED
  BY <1>2, <1>3, <1>4, <1>5 DEF NTPUDP

LEMMA OthersBuffers ==
  ASSUME Inv,
         \/ \E r \in Requests : Arrive(r)
         \/ EXTI3_IRQHandler \/ EXTI3_Return
         \/ NTPServer_Delay \/ NTPServer_Wake \/ KeepTime_Wake \/ KeepTime
  PROVE  BufferInv'
<1>1. UNCHANGED <<destip, clientPacket, serverPacket>>
  BY DEF Arrive, EXTI3_IRQHandler, EXTI3_Return, NTPServer_Delay, NTPServer_Wake,
         KeepTime_Wake, KeepTime, packet
<1>2. \A d \in Callers : pc'[d] \in {"stamp", "send"} => pc'[d] = pc[d]
  BY DEF Inv, PcOK, Arrive, EXTI3_IRQHandler, EXTI3_Return, NTPServer_Delay,
         NTPServer_Wake, KeepTime_Wake, KeepTime
<1> QED
  BY <1>1, <1>2 DEF Inv, BufferInv, Holding, IsNTP

LEMMA NextInv == Inv /\ [Next]_vars => Inv'
<1> SUFFICES ASSUME Inv, [Next]_vars PROVE Inv'
  OBVIOUS
<1>1. CASE UNCHANGED vars
  BY <1>1 DEF vars, chip, sent, cpu, sched, packet, Inv, NTPTypeOK, PcOK,
              ExclusiveInv, BufferInv, Holding, IsNTP
<1>2. ASSUME NEW c \in Callers, NTPUDP(c)
      PROVE  Inv'
  BY <1>2, NTPUDPTyped, NTPUDPExclusive, NTPUDPBuffers DEF Inv
<1>3. CASE \E r \in Requests : Arrive(r)
  BY <1>3, ChipTyped, OthersExclusive, OthersBuffers DEF Inv
<1>4. CASE EXTI3_IRQHandler \/ EXTI3_Return
  BY <1>4, HandlerTyped, OthersExclusive, OthersBuffers DEF Inv
<1>5. CASE NTPServer_Delay \/ NTPServer_Wake \/ KeepTime_Wake \/ KeepTime
  BY <1>5, TasksTyped, OthersExclusive, OthersBuffers DEF Inv
<1> QED
  BY <1>1, <1>2, <1>3, <1>4, <1>5 DEF Next

LEMMA AlwaysInv == Spec => []Inv
<1>1. Init => Inv
  BY InitTyped, InitExclusive DEF Inv
<1> QED
  BY <1>1, NextInv, PTL DEF Spec

\* The buffers, the stamps and the chip's registers keep their types, in the
\* hands of the task as of the handler.
THEOREM NTPTyped == Spec => []NTPTypeOK
<1>1. Inv => NTPTypeOK
  BY DEF Inv
<1> QED
  BY <1>1, AlwaysInv, PTL

-----------------------------------------------------------------------------
(* PRIMASK                                                                 *)

\* As long as no error return has been taken, interrupts are off only while a
\* caller is in the section, and it has found them on.
MaskInv ==
  failed = {} =>
    /\ primask => \E c \in Callers : pc[c] \in InSection
    /\ \A c \in Callers : pc[c] \in InSection => ~cpu_sr[c]

LEMMA InitMask == Init => MaskInv
BY DEF Init, MaskInv, InSection, Callers

\* Who may enter NTPUDP finds nobody in the section.
LEMMA NobodyInside ==
  ASSUME PcOK, ExclusiveInv, NEW c \in Callers, Active(c), pc[c] = "enter"
  PROVE  \A d \in Callers : pc[d] \notin InSection
BY DEF PcOK, ExclusiveInv, Callers, InSection, Active

LEMMA NTPUDPMask ==
  ASSUME Inv, MaskInv, NEW c \in Callers, NTPUDP(c)
  PROVE  MaskInv'
<1>1. /\ PcOK /\ ExclusiveInv
      /\ cpu_sr \in [Callers -> BOOLEAN] /\ primask \in BOOLEAN
  BY DEF Inv, NTPTypeOK
<1>2. CASE NTPUDP_RecvError(c) \/ NTPUDP_SendError(c)
  BY <1>2 DEF NTPUDP_RecvError, NTPUDP_SendError, MaskInv
<1>3. CASE NTPUDP_Enter(c)
  <2>1. /\ Active(c) /\ pc[c] = "enter" /\ pc'[c] = "size"
        /\ \A d \in Callers : d # c => pc'[d] = pc[d]
        /\ cpu_sr' = [cpu_sr EXCEPT ![c] = primask] /\ failed' = failed
    BY <1>1, <1>3, AtStep DEF NTPUDP_Enter, At, sent
  <2>2. \A d \in Callers : pc[d] \notin InSection
    BY <1>1, <2>1, NobodyInside
  <2>3. failed = {} => ~primask
    BY <2>2 DEF MaskInv
  <2>4. pc'[c] \in InSection
    BY <2>1 DEF InSection
  <2> QED
    BY <1>1, <2>1, <2>2, <2>3, <2>4 DEF MaskInv
<1>4. CASE NTPUDP_Leave(c)
  <2>1. /\ Active(c) /\ pc[c] = "leave" /\ pc'[c] = "return"
        /\ \A d \in Callers : d # c => pc'[d] = pc[d]
        /\ primask' = cpu_sr[c] /\ cpu_sr' = cpu_sr /\ failed' = failed
    BY <1>1, <1>4, AtStep DEF NTPUDP_Leave, At, sent
  <2>2. pc[c] \in InSection /\ pc'[c] \notin InSection
    BY <2>1 DEF InSection
  <2>3. \A d \in Callers : pc'[d] \notin InSection
    BY <1>1, <2>1, <2>2, OneCaller
  <2> QED
    BY <2>1, <2>2, <2>3 DEF MaskInv
<1>5. ASSUME \/ NTPUDP_Open(c) \/ NTPUDP_Size(c) \/ NTPUDP_Recv(c)
             \/ NTPUDP_Stamp(c) \/ NTPUDP_Send(c) \/ NTPUDP_Event(c)
      PROVE  MaskInv'
  <2>1. UNCHANGED <<primask, cpu_sr, failed>>
    BY <1>5 DEF NTPUDP_Open, NTPUDP_Size, NTPUDP_Recv, NTPUDP_Stamp, NTPUDP_Send,
                NTPUDP_Event, Recvfrom, cpu, sent
  <2>2. pc'[c] \in InSection <=> pc[c] \in InSection
    BY <1>1, <1>5, AtStep DEF NTPUDP_Open, NTPUDP_Size, NTPUDP_Recv, NTPUDP_Stamp,
                NTPUDP_Send, NTPUDP_Event, InSection
  <2>3. \A d \in Callers : d # c => pc'[d] = pc[d]
    BY <1>1, <1>5, AtStep DEF NTPUDP_Open, NTPUDP_Size, NTPUDP_Recv, NTPUDP_Stamp,
                NTPUDP_Send, NTPUDP_Event
  <2> QED
    BY <2>1, <2>2, <2>3 DEF MaskInv
<1> QED
  BY <1>2, <1>3, <1>4, <1>5 DEF NTPUDP

LEMMA OthersMask ==
  ASSUME Inv, MaskInv,
         \/ \E r \in Requests : Arrive(r)
         \/ EXTI3_IRQHandler \/ EXTI3_Return
         \/ NTPServer_Delay \/ NTPServer_Wake \/ KeepTime_Wake \/ KeepTime
  PROVE  MaskInv'
<1>1. UNCHANGED <<primask, cpu_sr, failed>>
  BY DEF Arrive, EXTI3_IRQHandler, EXTI3_Return, NTPServer_Delay, NTPServer_Wake,
         KeepTime_Wake, KeepTime, cpu, sent
<1>2. \A d \in Callers : pc'[d] \in InSection <=> pc[d] \in InSection
  BY DEF Inv, PcOK, InSection, Arrive, EXTI3_IRQHandler, EXTI3_Return, NTPServer_Delay,
         NTPServer_Wake, KeepTime_Wake, KeepTime
<1> QED
  BY <1>1, <1>2 DEF MaskInv

LEMMA NextMask == Inv /\ MaskInv /\ [Next]_vars => MaskInv'
<1> SUFFICES ASSUME Inv, MaskInv, [Next]_vars PROVE MaskInv'
  OBVIOUS
<1>1. CASE UNCHANGED vars
  BY <1>1 DEF vars, cpu, sent, MaskInv
<1> QED
  BY <1>1, NTPUDPMask, OthersMask DEF Next

\* Interrupts are on wherever NTPUDP and the handler have been left, as long
\* as neither recvfrom nor sendto has made NTPUDP return within its section.
THEOREM OnlyErrorsEverMask == Spec => []OnlyErrorsMask
<1>1. Inv /\ MaskInv => OnlyErrorsMask
  BY DEF Inv, PcOK, MaskInv, OnlyErrorsMask, InterruptsRestored, InSection, Callers
<1> QED
  BY <1>1, AlwaysInv, InitMask, NextMask, PTL DEF Spec

-----------------------------------------------------------------------------
(* The fate of a datagram                                                  *)

In(s, r) == \E i \in 1..Len(s) : s[i] = r
Distinct(s) == \A i, j \in 1..Len(s) : s[i] = s[j] => i = j

LEMMA AppendFacts ==
  ASSUME NEW s \in Seq(Requests), NEW r \in Requests, Distinct(s), ~In(s, r)
  PROVE  /\ Distinct(Append(s, r))
         /\ \A q \in Requests : In(Append(s, r), q) <=> In(s, q) \/ q = r
<1>1. /\ Len(Append(s, r)) = Len(s) + 1
      /\ Append(s, r)[Len(s) + 1] = r
      /\ \A i \in 1..Len(s) : Append(s, r)[i] = s[i]
      /\ Len(s) \in Nat
  OBVIOUS
<1>2. \A i \in 1..Len(s)+1 : i \in 1..Len(s) \/ i = Len(s) + 1
  BY <1>1
<1>3. Distinct(Append(s, r))
  BY <1>1, <1>2 DEF Distinct, In
<1>4. \A q \in Requests : In(Append(s, r), q) => In(s, q) \/ q = r
  BY <1>1, <1>2 DEF In
<1>5. \A q \in Requests : In(s, q) \/ q = r => In(Append(s, r), q)
  BY <1>1 DEF In
<1> QED
  BY <1>3, <1>4, <1>5

LEMMA TailFacts ==
  ASSUME NEW s \in Seq(Requests), s # <<>>, Distinct(s)
  PROVE  /\ Distinct(Tail(s))
         /\ In(s, Head(s)) /\ Head(s) \in Requests
         /\ \A q \in Requests : In(Tail(s), q) <=> In(s, q) /\ q # Head(s)
<1>1. /\ Len(s) \in Nat /\ Len(s) >= 1
      /\ Len(Tail(s)) = Len(s) - 1
      /\ Head(s) = s[1] /\ Head(s) \in Requests
      /\ \A i \in 1..Len(s) - 1 : Tail(s)[i] = s[i + 1]
  OBVIOUS
<1>2. Distinct(Tail(s))
  <2> SUFFICES ASSUME NEW i \in 1..Len(s) - 1, NEW j \in 1..Len(s) - 1,
                      Tail(s)[i] = Tail(s)[j]
               PROVE  i = j
    BY <1>1 DEF Distinct
  <2>1. i + 1 \in 1..Len(s) /\ j + 1 \in 1..Len(s) /\ s[i + 1] = s[j + 1]
    BY <1>1
  <2>2. i + 1 = j + 1
    BY <2>1 DEF Distinct
  <2> QED
    BY <2>2
<1>3. In(s, Head(s))
  BY <1>1 DEF In
<1>4. ASSUME NEW q \in Requests, In(Tail(s), q)
      PROVE  In(s, q) /\ q # Head(s)
  <2>1. PICK i \in 1..Len(s) - 1 : Tail(s)[i] = q
    BY <1>1, <1>4 DEF In
  <2>2. i + 1 \in 1..Len(s) /\ s[i + 1] = q /\ i + 1 # 1
    BY <1>1, <2>1
  <2> QED
    BY <1>1, <2>2 DEF In, Distinct
<1>5. ASSUME NEW q \in Requests, In(s, q), q # Head(s)
      PROVE  In(Tail(s), q)
  <2>1. PICK i \in 1..Len(s) : s[i] = q
    BY <1>5 DEF In
  <2>2. i # 1 /\ i - 1 \in 1..Len(s) - 1 /\ Tail(s)[i - 1] = s[i]
    BY <1>1, <1>5, <2>1
  <2> QED
    BY <1>1, <2>1, <2>2 DEF In
<1> QED
  BY <1>1, <1>2, <1>3, <1>4, <1>5

Held(r) == \E c \in Callers : Holding(c) /\ destip[c] = r
Replied(r) == \E p \in replies : p.to = r

\* A datagram that has arrived is in one of four places, and only there.
FateInv ==
  /\ Distinct(rx)
  /\ \A r \in Requests :
       /\ In(rx, r) => ~Held(r) /\ ~Replied(r) /\ r \notin failed
       /\ Held(r) => ~Replied(r) /\ r \notin failed
       /\ Replied(r) => r \notin failed
       /\ arrivedAt[r] # 0 <=> In(rx, r) \/ Held(r) \/ Replied(r) \/ r \in failed
  /\ timenow # 0
  /\ ReplyMatchesRequest

LEMMA InitFate == Init => FateInv
BY DEF Init, FateInv, Distinct, In, Held, Replied, Holding, Callers, ReplyMatchesRequest

\* A step that moves no datagram.
LEMMA SameFate ==
  ASSUME Inv, FateInv, UNCHANGED <<rx, replies, failed, arrivedAt, destip>>,
         \A c \in Callers : Holding(c)' <=> Holding(c),
         timenow' # 0
  PROVE  FateInv'
<1>1. \A r \in Requests : Held(r)' <=> Held(r)
  BY DEF Held
<1> QED
  BY <1>1 DEF FateInv, Distinct, In, Replied, ReplyMatchesRequest, IsNTP

LEMMA ArriveFate ==
  ASSUME Inv, FateInv, NEW r \in Requests, Arrive(r)
  PROVE  FateInv'
<1>1. /\ arrivedAt[r] = 0 /\ rx \in Seq(Requests) /\ timenow # 0
      /\ rx' = Append(rx, r)
      /\ \A q \in Requests : arrivedAt'[q] = IF q = r THEN timenow ELSE arrivedAt[q]
      /\ UNCHANGED <<replies, failed, destip, pc, timenow>>
  BY DEF Arrive, Inv, NTPTypeOK, sent, packet, FateInv
<1>2. ~In(rx, r) /\ ~Held(r) /\ ~Replied(r) /\ r \notin failed
  BY <1>1 DEF FateInv
<1>3. Distinct(rx') /\ \A q \in Requests : In(rx', q) <=> In(rx, q) \/ q = r
  BY <1>1, <1>2, AppendFacts DEF FateInv
<1>4. \A q \in Requests : (Held(q)' <=> Held(q)) /\ (Replied(q)' <=> Replied(q))
  BY <1>1 DEF Held, Holding, Replied
<1>5. ReplyMatchesRequest'
  BY <1>1 DEF FateInv, ReplyMatchesRequest, IsNTP
<1> QED
  BY <1>1, <1>2, <1>3, <1>4, <1>5 DEF FateInv

\* recvfrom takes the datagram out of the chip into the caller's hands.
LEMMA RecvFate ==
  ASSUME Inv, FateInv, NEW c \in Callers, NTPUDP_Recv(c)
  PROVE  FateInv'
<1> DEFINE h == Head(rx)
<1>1. /\ rx \in Seq(Requests) /\ rx # <<>> /\ rx' = Tail(rx)
      /\ Active(c) /\ pc[c] = "recv" /\ pc'[c] = "stamp"
      /\ \A d \in Callers : d # c => pc'[d] = pc[d] /\ destip'[d] = destip[d]
      /\ destip'[c] = h
      /\ UNCHANGED <<replies, failed, arrivedAt, timenow>>
  BY AtStep, RecvfromFacts DEF NTPUDP_Recv, Inv, NTPTypeOK, At, sent
<1>2. \A d \in Callers : ~Holding(d) /\ (d # c => ~Holding(d)')
  BY <1>1, OneCaller DEF Inv, InSection, Holding
<1>3. /\ Distinct(rx') /\ In(rx, h) /\ h \in Requests
      /\ \A q \in Requests : In(rx', q) <=> In(rx, q) /\ q # h
  BY <1>1, TailFacts DEF FateInv
<1>4. \A q \in Requests : ~Held(q) /\ (Held(q)' <=> q = h)
  BY <1>1, <1>2 DEF Held, Holding
<1>5. \A q \in Requests : Replied(q)' <=> Replied(q)
  BY <1>1 DEF Replied
<1>6. ReplyMatchesRequest'
  BY <1>1 DEF FateInv, ReplyMatchesRequest, IsNTP
<1> QED
  BY <1>1, <1>3, <1>4, <1>5, <1>6 DEF FateInv

\* An empty datagram is given up as it is taken.
LEMMA RecvErrorFate ==
  ASSUME Inv, FateInv, NEW c \in Callers, NTPUDP_RecvError(c)
  PROVE  FateInv'
<1> DEFINE h == Head(rx)
<1>1. /\ rx \in Seq(Requests) /\ rx # <<>> /\ rx' = Tail(rx)
      /\ Active(c) /\ pc[c] = "recv" /\ pc'[c] = "return"
      /\ \A d \in Callers : d # c => pc'[d] = pc[d] /\ destip'[d] = destip[d]
      /\ failed' = failed \cup {h}
      /\ UNCHANGED <<replies, arrivedAt, timenow>>
  BY AtStep, RecvfromFacts DEF NTPUDP_RecvError, Inv, NTPTypeOK, At
<1>2. \A d \in Callers : ~Holding(d) /\ ~Holding(d)'
  BY <1>1, OneCaller DEF Inv, InSection, Holding
<1>3. /\ Distinct(rx') /\ In(rx, h) /\ h \in Requests
      /\ \A q \in Requests : In(rx', q) <=> In(rx, q) /\ q # h
  BY <1>1, TailFacts DEF FateInv
<1>4. \A q \in Requests : ~Held(q) /\ ~Held(q)'
  BY <1>2 DEF Held
<1>5. \A q \in Requests : Replied(q)' <=> Replied(q)
  BY <1>1 DEF Replied
<1>6. ReplyMatchesRequest'
  BY <1>1 DEF FateInv, ReplyMatchesRequest, IsNTP
<1> QED
  BY <1>1, <1>3, <1>4, <1>5, <1>6 DEF FateInv

\* sendto, good or bad, takes it out of the caller's hands.
LEMMA SendFate ==
  ASSUME Inv, FateInv, NEW c \in Callers, NTPUDP_Send(c) \/ NTPUDP_SendError(c)
  PROVE  FateInv'
<1> DEFINE d == destip[c]
<1> DEFINE reply == [to |-> d, packet |-> serverPacket, by |-> c]
<1>1. /\ Active(c) /\ pc[c] = "send" /\ pc'[c] \in {"event", "return"}
      /\ \A e \in Callers : e # c => pc'[e] = pc[e]
      /\ UNCHANGED <<rx, arrivedAt, destip, timenow>>
  BY AtStep DEF NTPUDP_Send, NTPUDP_SendError, Inv, At, packet
<1>2. d \in Requests /\ (IsNTP(d) => serverPacket.origin = d)
  BY <1>1, HoldingFacts DEF Inv
<1>3. \A e \in Callers : e # c => ~Holding(e)
  BY <1>1, OneCaller DEF Inv, InSection, Holding
<1>4. \A q \in Requests : ~Held(q)' /\ (Held(q) <=> q = d)
  BY <1>1, <1>3 DEF Held, Holding
<1>5. ~In(rx, d) /\ ~Replied(d) /\ d \notin failed
  BY <1>2, <1>4 DEF FateInv
<1>6. CASE NTPUDP_Send(c)
  <2>1. replies' = replies \cup {reply} /\ failed' = failed
    BY <1>6 DEF NTPUDP_Send
  <2>2. \A q \in Requests : Replied(q)' <=> Replied(q) \/ q = d
    <3>1. reply \in replies' /\ reply.to = d
      BY <2>1
    <3>2. \A q \in Requests : Replied(q) => Replied(q)'
      BY <2>1 DEF Replied
    <3>3. \A q \in Requests : Replied(q)' => Replied(q) \/ q = d
      BY <2>1 DEF Replied
    <3> QED
      BY <3>1, <3>2, <3>3 DEF Replied
  <2>3. ReplyMatchesRequest'
    BY <2>1, <1>2, <1>5 DEF FateInv, ReplyMatchesRequest, Replied, IsNTP
  <2> QED
    BY <1>1, <1>2, <1>4, <1>5, <2>1, <2>2, <2>3 DEF FateInv
<1>7. CASE NTPUDP_SendError(c)
  <2>1. failed' = failed \cup {d} /\ replies' = replies
    BY <1>7 DEF NTPUDP_SendError
  <2>2. \A q \in Requests : Replied(q)' <=> Replied(q)
    BY <2>1 DEF Replied
  <2>3. ReplyMatchesRequest'
    BY <2>1 DEF FateInv, ReplyMatchesRequest, IsNTP
  <2> QED
    BY <1>1, <1>2, <1>4, <1>5, <2>1, <2>2, <2>3 DEF FateInv
<1> QED
  BY <1>6, <1>7

LEMMA NTPUDPFate ==
  ASSUME Inv, FateInv, NEW c \in Callers, NTPUDP(c)
  PROVE  FateInv'
<1>1. ASSUME \/ NTPUDP_Open(c) \/ NTPUDP_Enter(c) \/ NTPUDP_Size(c)
             \/ NTPUDP_Stamp(c) \/ NTPUDP_Event(c) \/ NTPUDP_Leave(c)
      PROVE  FateInv'
  <2>1. UNCHANGED <<rx, replies, failed, arrivedAt, destip, timenow>>
    BY <1>1 DEF NTPUDP_Open, NTPUDP_Enter, NTPUDP_Size, NTPUDP_Stamp, NTPUDP_Event,
                NTPUDP_Leave, chip, sent, packet
  <2>2. \A d \in Callers : Holding(d)' <=> Holding(d)
    BY <1>1, AtStep DEF NTPUDP_Open, NTPUDP_Enter, NTPUDP_Size, NTPUDP_Stamp,
                NTPUDP_Event, NTPUDP_Leave, Holding, Inv
  <2> QED
    BY <2>1, <2>2, SameFate DEF FateInv
<1> QED
  BY <1>1, RecvFate, RecvErrorFate, SendFate DEF NTPUDP

LEMMA OthersFate ==
  ASSUME Inv, FateInv,
         \/ EXTI3_IRQHandler \/ EXTI3_Return
         \/ NTPServer_Delay \/ NTPServer_Wake \/ KeepTime_Wake \/ KeepTime
  PROVE  FateInv'
<1>1. UNCHANGED <<rx, replies, failed, arrivedAt, destip>>
  BY DEF EXTI3_IRQHandler, EXTI3_Return, NTPServer_Delay, NTPServer_Wake,
         KeepTime_Wake, KeepTime, chip, sent, packet
<1>2. timenow' \in {timenow, timenow + 1} /\ timenow \in Nat
  BY NTPAssumption DEF EXTI3_IRQHandler, EXTI3_Return, NTPServer_Delay, NTPServer_Wake,
         KeepTime_Wake, KeepTime, Inv, NTPTypeOK, Time
<1>3. \A d \in Callers : Holding(d)' <=> Holding(d)
  BY DEF Holding, Inv, PcOK, EXTI3_IRQHandler, EXTI3_Return, NTPServer_Delay,
         NTPServer_Wake, KeepTime_Wake, KeepTime
<1> QED
  BY <1>1, <1>2, <1>3, SameFate DEF FateInv

LEMMA NextFate == Inv /\ FateInv /\ [Next]_vars => FateInv'
<1> SUFFICES ASSUME Inv, FateInv, [Next]_vars PROVE FateInv'
  OBVIOUS
<1>1. CASE UNCHANGED vars
  <2>1. UNCHANGED <<rx, replies, failed, arrivedAt, destip, timenow, pc>>
    BY <1>1 DEF vars, chip, sent, packet
  <2> QED
    BY <2>1, SameFate DEF FateInv, Holding
<1> QED
  BY <1>1, ArriveFate, NTPUDPFate, OthersFate DEF Next

LEMMA AlwaysFate == Spec => [](Inv /\ FateInv)
BY AlwaysInv, InitFate, NextFate, PTL DEF Spec

\* A reply answers the request whose stamp it carries, and a request is
\* answered once, although task and handler share both packet buffers.
THEOREM RepliesMatch == Spec => []ReplyMatchesRequest
<1>1. FateInv => ReplyMatchesRequest
  BY DEF FateInv
<1> QED
  BY <1>1, AlwaysFate, PTL

\* A set with one element at most.
LEMMA SmallSet ==
  ASSUME NEW S, \A x, y \in S : x = y
  PROVE  Cardinality(S) = IF S = {} THEN 0 ELSE 1
<1>1. CASE S = {}
  BY <1>1, FS_EmptySet
<1>2. CASE S # {}
  <2>1. PICK x \in S : S = {x}
    BY <1>2
  <2> QED
    BY <1>2, <2>1, FS_Singleton
<1> QED
  BY <1>1, <1>2

\* Every datagram that arrived is in one place: in the chip, in the hands of
\* one caller, answered, or given up by a failed sendto.
THEOREM OneFateAlways == Spec => []OneFate
<1>1. ASSUME Inv, FateInv PROVE OneFate
  <2> SUFFICES ASSUME NEW r \in Requests, arrivedAt[r] # 0
               PROVE
        Cardinality({c \in Callers : pc[c] \in {"stamp", "send"} /\ destip[c] = r})
          + Cardinality({i \in DOMAIN rx : rx[i] = r})
          + (IF \E p \in replies : p.to = r THEN 1 ELSE 0)
        = IF r \in failed THEN 0 ELSE 1
    BY DEF OneFate
  <2> DEFINE held == {c \in Callers : pc[c] \in {"stamp", "send"} /\ destip[c] = r}
             queued == {i \in DOMAIN rx : rx[i] = r}
  <2>1. Cardinality(held) = IF Held(r) THEN 1 ELSE 0
    <3>1. \A c, d \in held : c = d
      BY <1>1 DEF Inv, PcOK, ExclusiveInv, InSection, Callers
    <3>2. held = {} <=> ~Held(r)
      BY DEF Held, Holding
    <3> QED
      BY <3>1, <3>2, SmallSet
  <2>2. Cardinality(queued) = IF In(rx, r) THEN 1 ELSE 0
    <3>1. DOMAIN rx = 1..Len(rx)
      BY <1>1 DEF Inv, NTPTypeOK
    <3>2. \A i, j \in queued : i = j
      BY <1>1, <3>1 DEF FateInv, Distinct
    <3>3. queued = {} <=> ~In(rx, r)
      BY <3>1 DEF In
    <3> QED
      BY <3>2, <3>3, SmallSet
  <2>3. (\E p \in replies : p.to = r) <=> Replied(r)
    BY DEF Replied
  <2> HIDE DEF held, queued
  <2>4. Cardinality(held) + Cardinality(queued) + (IF Replied(r) THEN 1 ELSE 0)
          = IF r \in failed THEN 0 ELSE 1
    BY <1>1, <2>1, <2>2 DEF FateInv
  <2> QED
    BY <2>3, <2>4 DEF held, queued
<1> QED
  BY <1>1, AlwaysFate, PTL

-----------------------------------------------------------------------------
(* The stamps of the handler                                               *)

Now(net) == [v |-> timenow, net |-> net]

\* The handler's stamp stays true until it is sent: KeepTime does not run
\* before the handler has returned, nor does the task touch the packet.
StampInv ==
  /\ pc["isr"] \in {"enter", "size", "recv", "stamp"} => recvTime = Now(FALSE)
  /\ pc["isr"] = "send" => serverPacket.recv = Now(TRUE) /\ serverPacket.xmit = Now(TRUE)
  /\ \A r \in Requests : arrivedAt[r] <= timenow
  /\ HandlerStamps

LEMMA InitStamp == Init => StampInv
BY DEF Init, StampInv, HandlerStamps, Callers

\* What has been sent well stays so.
LEMMA SentStamps ==
  ASSUME Inv, FateInv, HandlerStamps, replies' = replies,
         \A r \in Requests : arrivedAt[r] # 0 => arrivedAt'[r] = arrivedAt[r]
  PROVE  HandlerStamps'
<1>1. \A p \in replies : p.to \in Requests /\ arrivedAt[p.to] # 0
  BY DEF Inv, NTPTypeOK, FateInv, Replied
<1> QED
  BY <1>1 DEF HandlerStamps, Stamped

LEMMA NTPUDPStamp ==
  ASSUME Inv, FateInv, StampInv, NEW c \in Callers, NTPUDP(c)
  PROVE  StampInv'
<1>1. PcOK /\ timenow \in Nat
  BY DEF Inv, NTPTypeOK, Time
<1>2. UNCHANGED <<timenow, arrivedAt>>
  BY DEF NTPUDP, NTPUDP_Open, NTPUDP_Enter, NTPUDP_Size, NTPUDP_Recv, NTPUDP_RecvError,
         Recvfrom, NTPUDP_Stamp, NTPUDP_Send, NTPUDP_SendError, NTPUDP_Event,
         NTPUDP_Leave, chip
<1>3. ~NTPUDP_Send(c) => HandlerStamps'
  <2> SUFFICES ASSUME ~NTPUDP_Send(c) PROVE HandlerStamps'
    OBVIOUS
  <2>1. replies' = replies
    BY DEF NTPUDP, NTPUDP_Open, NTPUDP_Enter, NTPUDP_Size, NTPUDP_Recv,
           NTPUDP_RecvError, NTPUDP_Stamp, NTPUDP_SendError, NTPUDP_Event,
           NTPUDP_Leave, sent
  <2> QED
    BY <1>2, <2>1, SentStamps DEF StampInv
<1>4. CASE NTPUDP_Stamp(c)
  <2>1. pc[c] = "stamp" /\ pc'[c] = "send" /\ \A d \in Callers : d # c => pc'[d] = pc[d]
    BY <1>1, <1>4, AtStep DEF NTPUDP_Stamp
  <2>2. c = "isr" => serverPacket'.recv = Now(TRUE)' /\ serverPacket'.xmit = Now(TRUE)'
    <3> SUFFICES ASSUME c = "isr"
                 PROVE  serverPacket'.recv = Now(TRUE) /\ serverPacket'.xmit = Now(TRUE)
      BY <1>2 DEF Now
    <3>1. recvTime = Now(FALSE)
      BY <2>1 DEF StampInv
    <3>2. htonl(Now(FALSE)) = Now(TRUE)
      <4>1. Now(FALSE) \in Stamp
        BY DEF Inv, NTPTypeOK, Now, Stamp
      <4> QED
        BY <4>1, htonlTyped DEF Now
    <3>3. serverPacket'.recv = htonl(recvTime) /\ serverPacket'.xmit = htonl(Now(FALSE))
      BY <1>4 DEF NTPUDP_Stamp, Now
    <3> QED
      BY <3>1, <3>2, <3>3
  <2>3. c = "task" => pc'["isr"] = "out"
    BY <1>1, <1>4, <2>1 DEF NTPUDP_Stamp, At, Active, Callers
  <2> QED
    BY <1>2, <1>3, <1>4, <2>1, <2>2, <2>3
    DEF StampInv, Now, Callers, NTPUDP_Stamp, NTPUDP_Send, At
<1>5. CASE NTPUDP_Send(c)
  <2>1. /\ pc[c] = "send" /\ pc'[c] = "event" /\ Active(c)
        /\ \A d \in Callers : d # c => pc'[d] = pc[d]
    BY <1>1, <1>5, AtStep DEF NTPUDP_Send, At
  <2>2. pc'["isr"] \in {"out", "event"}
    BY <2>1 DEF Active, Callers
  <2>3. destip[c] \in Requests
    BY <2>1, HoldingFacts DEF Inv
  <2> DEFINE reply == [to |-> destip[c], packet |-> serverPacket, by |-> c]
  <2>4. reply.by = "isr" => Stamped(reply)
    <3> SUFFICES ASSUME c = "isr" PROVE Stamped(reply)
      OBVIOUS
    <3>1. serverPacket.recv = Now(TRUE) /\ serverPacket.xmit = Now(TRUE)
      BY <2>1 DEF StampInv
    <3>2. arrivedAt[destip[c]] <= timenow
      BY <2>3 DEF StampInv
    <3> QED
      BY <1>1, <3>1, <3>2 DEF Stamped, Now
  <2>5. replies' = replies \cup {reply}
    BY <1>5 DEF NTPUDP_Send
  <2>6. \A p \in replies' : p.by = "isr" => Stamped(p)
    BY <2>4, <2>5 DEF StampInv, HandlerStamps
  <2>7. HandlerStamps'
    BY <1>2, <2>6 DEF HandlerStamps, Stamped
  <2> QED
    BY <1>2, <2>2, <2>7 DEF StampInv, Now
<1>6. ASSUME \/ NTPUDP_Open(c) \/ NTPUDP_Enter(c) \/ NTPUDP_Size(c) \/ NTPUDP_Recv(c)
             \/ NTPUDP_RecvError(c) \/ NTPUDP_SendError(c) \/ NTPUDP_Event(c) \/ NTPUDP_Leave(c)
      PROVE  StampInv'
  <2>1. recvTime' = recvTime /\ serverPacket' = serverPacket /\ ~NTPUDP_Send(c)
    <3>1. recvTime' = recvTime /\ serverPacket' = serverPacket
      BY <1>6 DEF NTPUDP_Open, NTPUDP_Enter, NTPUDP_Size, NTPUDP_Recv,
                  NTPUDP_RecvError, Recvfrom, NTPUDP_SendError, NTPUDP_Event, NTPUDP_Leave, packet
    <3>2. CASE NTPUDP_SendError(c)
      BY <1>1, <3>2, AtStep, <3>1 DEF NTPUDP_Send, NTPUDP_SendError
    <3>3. CASE ~NTPUDP_SendError(c)
      BY <1>1, <1>6, <3>1, <3>3, AtStep DEF NTPUDP_Open, NTPUDP_Enter, NTPUDP_Size,
         NTPUDP_Recv, NTPUDP_RecvError, NTPUDP_Event, NTPUDP_Leave, NTPUDP_Send
    <3> QED
      BY <3>2, <3>3
  <2>2. pc'["isr"] \in {"size", "recv", "stamp"} => pc["isr"] \in {"enter", "size", "recv", "stamp"}
    BY <1>1, <1>6, AtStep DEF NTPUDP_Open, NTPUDP_Enter, NTPUDP_Size, NTPUDP_Recv,
       NTPUDP_RecvError, NTPUDP_SendError, NTPUDP_Event, NTPUDP_Leave, Callers
  <2>3. pc'["isr"] \in {"enter", "send"} => pc'["isr"] = pc["isr"]
    BY <1>1, <1>6, AtStep DEF NTPUDP_Open, NTPUDP_Enter, NTPUDP_Size, NTPUDP_Recv,
       NTPUDP_RecvError, NTPUDP_SendError, NTPUDP_Event, NTPUDP_Leave, Callers
  <2> QED
    BY <1>2, <1>3, <2>1, <2>2, <2>3 DEF StampInv, Now
<1> QED
  BY <1>4, <1>5, <1>6 DEF NTPUDP

LEMMA OthersStamp ==
  ASSUME Inv, FateInv, StampInv,
         \/ \E r \in Requests : Arrive(r)
         \/ EXTI3_IRQHandler \/ EXTI3_Return
         \/ NTPServer_Delay \/ NTPServer_Wake \/ KeepTime_Wake \/ KeepTime
  PROVE  StampInv'
<1>1. PcOK /\ timenow \in Nat /\ arrivedAt \in [Requests -> Nat]
  BY DEF Inv, NTPTypeOK, Time
<1>2. replies' = replies /\ serverPacket' = serverPacket
  BY DEF Arrive, EXTI3_IRQHandler, EXTI3_Return, NTPServer_Delay, NTPServer_Wake,
         KeepTime_Wake, KeepTime, sent, packet
<1>3. \A r \in Requests : arrivedAt[r] # 0 => arrivedAt'[r] = arrivedAt[r]
  BY <1>1 DEF Arrive, EXTI3_IRQHandler, EXTI3_Return, NTPServer_Delay, NTPServer_Wake,
         KeepTime_Wake, KeepTime, chip
<1>4. HandlerStamps'
  BY <1>2, <1>3, SentStamps DEF StampInv
<1>5. CASE \E r \in Requests : Arrive(r)
  <2>1. \A r \in Requests : arrivedAt'[r] <= timenow'
    BY <1>1, <1>5 DEF Arrive, StampInv
  <2> QED
    BY <1>2, <1>4, <1>5, <2>1 DEF Arrive, packet, StampInv, Now
<1>6. CASE EXTI3_IRQHandler
  BY <1>1, <1>4, <1>6 DEF EXTI3_IRQHandler, StampInv, Now, PcOK, Callers
<1>7. CASE EXTI3_Return
  BY <1>1, <1>4, <1>7 DEF EXTI3_Return, chip, packet, StampInv, Now, PcOK, Callers
<1>8. CASE NTPServer_Delay \/ NTPServer_Wake \/ KeepTime_Wake
  BY <1>1, <1>4, <1>8 DEF NTPServer_Delay, NTPServer_Wake, KeepTime_Wake, chip, packet,
     StampInv, Now, PcOK, Callers
<1>9. CASE KeepTime
  <2>1. \A r \in Requests : arrivedAt'[r] <= timenow'
    BY <1>1, <1>9 DEF KeepTime, chip, StampInv
  <2> QED
    BY <1>4, <1>9, <2>1 DEF KeepTime, StampInv
<1> QED
  BY <1>5, <1>6, <1>7, <1>8, <1>9

LEMMA NextStamp == Inv /\ FateInv /\ StampInv /\ [Next]_vars => StampInv'
<1> SUFFICES ASSUME Inv, FateInv, StampInv, [Next]_vars PROVE StampInv'
  OBVIOUS
<1>1. CASE UNCHANGED vars
  BY <1>1 DEF vars, chip, sent, packet, StampInv, HandlerStamps, Stamped, Now
<1> QED
  BY <1>1, NTPUDPStamp, OthersStamp DEF Next

\* Whatever the task has done to recvTime before, a reply of the handler
\* carries a time of reception between the arrival and the transmission.
THEOREM HandlerAlwaysStamps == Spec => []HandlerStamps
<1>1. StampInv => HandlerStamps
  BY DEF StampInv
<1> QED
  BY <1>1, AlwaysFate, InitStamp, NextStamp, PTL DEF Spec
=============================================================================
