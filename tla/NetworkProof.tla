----------------------------- MODULE NetworkProof -----------------------------
(***************************************************************************)
(* The two halves of the time client, and the bus below it.                *)
(*                                                                         *)
(* When DNS_run gives up, called before OSStart as in main or while the    *)
(* one-second handler runs: for every number of retries, every time to     *)
(* wait, and a network that loses and delays what it likes.  That the      *)
(* clock, once set, stays near the true time, for every life of the        *)
(* messages, every period of synchronisation and every time at which the   *)
(* clocks start.  And that with callbacks that hold off interrupts every   *)
(* frame on the W5500's bus is whole, for every set of users, registers    *)
(* and values.                                                             *)
(***************************************************************************)
EXTENDS DNSClient, SNTPClient, W5500Bus, TLAPS

-----------------------------------------------------------------------------
(* DNS_run *)

Waiting == pc \in {"poll", "check"}
Limit == Documented + DNS_WAIT_TIME
Spent == retry_count * DNS_WAIT_TIME

\* Before OSStart nobody counts.  Afterwards the time since the call is that of
\* the retries made and of the wait under way, whose end the loop sees before
\* another second has passed.
WaitInv ==
  /\ elapsed \in Nat /\ dns_1s_tick \in Nat
  /\ retry_count \in 0..MAX_DNS_RETRY
  /\ pc = "start" => elapsed = 0 /\ fresh /\ sent = 0
  /\ pc = "check" => len = 0
  /\ Waiting => IF BeforeOSStart THEN dns_1s_tick = 0
                ELSE /\ elapsed = Spent + dns_1s_tick
                     /\ dns_1s_tick <= DNS_WAIT_TIME
                     /\ fresh => dns_1s_tick < DNS_WAIT_TIME
  /\ TimeoutsAreLate

\* What a retry more, and all of them, come to.
LEMMA RetryTimes ==
  ASSUME DNSParameters, NEW n \in 0..MAX_DNS_RETRY
  PROVE  /\ n * DNS_WAIT_TIME \in Nat /\ Limit \in Nat
         /\ (n + 1) * DNS_WAIT_TIME = n * DNS_WAIT_TIME + DNS_WAIT_TIME
         /\ n * DNS_WAIT_TIME + DNS_WAIT_TIME <= Limit
<1> USE DEF DNSParameters
<1>1. (n + 1) * DNS_WAIT_TIME = n * DNS_WAIT_TIME + DNS_WAIT_TIME
  OBVIOUS
<1>2. n * DNS_WAIT_TIME \in Nat /\ Documented \in Nat /\ Limit \in Nat
  BY DEF Limit, Documented
<1>3. PICK k \in Nat : MAX_DNS_RETRY = n + k
  <2>1. MAX_DNS_RETRY - n \in Nat /\ MAX_DNS_RETRY = n + (MAX_DNS_RETRY - n)
    OBVIOUS
  <2> QED
    BY <2>1
<1>4. Documented = n * DNS_WAIT_TIME + k * DNS_WAIT_TIME /\ k * DNS_WAIT_TIME >= 0
  BY <1>3 DEF Documented
<1>5. n * DNS_WAIT_TIME + DNS_WAIT_TIME <= Limit
  BY <1>2, <1>4 DEF Limit
<1> QED
  BY <1>1, <1>2, <1>5

LEMMA InitWait == ASSUME DNSParameters PROVE DNSInit => WaitInv
<1>1. 0 \in 0..MAX_DNS_RETRY
  BY DEF DNSParameters
<1>2. Limit \in Nat
  BY <1>1, RetryTimes
<1> QED
  BY <1>1, <1>2 DEF DNSInit, WaitInv, Waiting, TimeoutsAreLate, Limit

\* The retries made are in Spent; Limit bounds them together with one more wait.
LEMMA SpentFacts ==
  ASSUME DNSParameters, WaitInv
  PROVE  /\ Spent \in Nat /\ Limit \in Nat
         /\ Spent + DNS_WAIT_TIME <= Limit
         /\ retry_count = MAX_DNS_RETRY => Spent + DNS_WAIT_TIME = Limit
         /\ retry_count = 0 => Spent = 0
         /\ retry_count' = retry_count => Spent' = Spent
         /\ retry_count' = retry_count + 1 => Spent' = Spent + DNS_WAIT_TIME
         /\ retry_count' = 0 => Spent' = 0
<1> USE DEF DNSParameters
<1>1. retry_count \in 0..MAX_DNS_RETRY
  BY DEF WaitInv
<1>2. /\ Spent \in Nat /\ Limit \in Nat
      /\ (retry_count + 1) * DNS_WAIT_TIME = Spent + DNS_WAIT_TIME
      /\ Spent + DNS_WAIT_TIME <= Limit
  BY <1>1, RetryTimes DEF Spent
<1>3. retry_count = MAX_DNS_RETRY => Spent + DNS_WAIT_TIME = Limit
  BY DEF Limit, Documented, Spent
<1>4. 0 * DNS_WAIT_TIME = 0
  OBVIOUS
<1>5. retry_count' = retry_count + 1 => Spent' = Spent + DNS_WAIT_TIME
  BY <1>2 DEF Spent
<1> QED
  BY <1>2, <1>3, <1>4, <1>5 DEF Spent

\* A step after which no time has passed and no call has been given up.
LEMMA NotLate ==
  ASSUME WaitInv, elapsed' = elapsed, sent' <= 1, pc' = "timeout" => pc = "timeout"
  PROVE  TimeoutsAreLate'
BY DEF WaitInv, TimeoutsAreLate, Documented

LEMMA LoopKeeps ==
  ASSUME DNSParameters, WaitInv, Loop
  PROVE  WaitInv'
<1> USE DEF DNSParameters
<1>1. CASE DNS_run
  <2>1. /\ elapsed' = 0 /\ elapsed = 0 /\ dns_1s_tick' = 0 /\ retry_count' = 0
        /\ pc' = "poll" /\ sent' = 1
    BY <1>1 DEF DNS_run, sendto, WaitInv
  <2>2. TimeoutsAreLate'
    BY <2>1, NotLate
  <2>3. Spent' = 0
    BY <2>1, SpentFacts
  <2> QED
    BY <2>1, <2>2, <2>3 DEF WaitInv, Waiting
<1>2. CASE Poll \/ Answered \/ StillWaiting
  <2>1. /\ UNCHANGED <<elapsed, retry_count, dns_1s_tick, sent>>
        /\ Waiting /\ pc' \notin {"start", "timeout"}
        /\ fresh' => fresh \/ dns_1s_tick < DNS_WAIT_TIME
        /\ pc' = "check" => len' = 0
    <3>1. CASE Poll
      BY <3>1 DEF Poll, Waiting
    <3>2. CASE Answered
      BY <3>2 DEF Answered, Waiting
    <3>3. CASE StillWaiting
      BY <3>3 DEF StillWaiting, Waiting, WaitInv
    <3> QED
      BY <1>2, <3>1, <3>2, <3>3
  <2>2. Spent' = Spent
    BY <2>1, SpentFacts
  <2>3. TimeoutsAreLate'
    BY <2>1, NotLate DEF WaitInv, TimeoutsAreLate
  <2> QED
    BY <2>1, <2>2, <2>3 DEF WaitInv, Waiting
<1>3. CASE Retry
  <2>1. /\ retry_count' = retry_count + 1 /\ retry_count' \in 0..MAX_DNS_RETRY
        /\ dns_1s_tick >= DNS_WAIT_TIME /\ dns_1s_tick' = 0 /\ sent' = sent
        /\ pc = "check" /\ pc' = "poll" /\ elapsed' = elapsed
    BY <1>3 DEF Retry, sendto, WaitInv
  <2>2. ~BeforeOSStart /\ elapsed = Spent + DNS_WAIT_TIME
    BY <2>1 DEF WaitInv, Waiting
  <2>3. elapsed' = Spent' + dns_1s_tick'
    BY <2>1, <2>2, SpentFacts
  <2>4. TimeoutsAreLate'
    BY <2>1, NotLate DEF WaitInv, TimeoutsAreLate
  <2> QED
    BY <2>1, <2>2, <2>3, <2>4 DEF WaitInv, Waiting
<1>4. CASE GiveUp
  <2>1. /\ retry_count = MAX_DNS_RETRY /\ dns_1s_tick >= DNS_WAIT_TIME
        /\ retry_count' = 0 /\ dns_1s_tick' = 0 /\ sent' = sent
        /\ pc = "check" /\ pc' = "timeout" /\ elapsed' = elapsed
    BY <1>4 DEF GiveUp, WaitInv
  <2>2. ~BeforeOSStart /\ elapsed = Spent + DNS_WAIT_TIME
    BY <2>1 DEF WaitInv, Waiting
  <2>3. elapsed' = Limit /\ Limit \in Nat
    BY <2>1, <2>2, SpentFacts
  <2>4. TimeoutsAreLate'
    BY <2>1, <2>2, <2>3 DEF WaitInv, TimeoutsAreLate, Limit, Documented
  <2> QED
    BY <2>1, <2>4 DEF WaitInv, Waiting
<1> QED
  BY <1>1, <1>2, <1>3, <1>4 DEF Loop

LEMMA SecondKeeps ==
  ASSUME DNSParameters, WaitInv, Second
  PROVE  WaitInv'
<1> USE DEF DNSParameters
<1>1. /\ Waiting /\ fresh /\ ~fresh' /\ pc' = pc /\ sent' = sent /\ len' = len
      /\ retry_count' = retry_count /\ elapsed' = elapsed + 1
      /\ dns_1s_tick' = IF BeforeOSStart THEN dns_1s_tick ELSE dns_1s_tick + 1
  BY DEF Second, DNS_time_handler, Waiting
<1>2. CASE BeforeOSStart
  <2>1. TimeoutsAreLate'
    BY <1>1, <1>2 DEF WaitInv, TimeoutsAreLate, Waiting
  <2> QED
    BY <1>1, <1>2, <2>1 DEF WaitInv, Waiting
<1>3. CASE ~BeforeOSStart
  <2>1. dns_1s_tick' = dns_1s_tick + 1 /\ dns_1s_tick' <= DNS_WAIT_TIME
    BY <1>1, <1>3 DEF WaitInv
  <2>2. elapsed' = Spent' + dns_1s_tick'
    BY <1>1, <1>3, <2>1, SpentFacts DEF WaitInv
  <2>3. elapsed' <= Limit
    BY <1>1, <2>1, <2>2, SpentFacts DEF WaitInv
  <2>4. TimeoutsAreLate'
    BY <1>1, <1>3, <2>3 DEF WaitInv, TimeoutsAreLate, Limit, Documented, Waiting
  <2> QED
    BY <1>1, <1>3, <2>1, <2>2, <2>4 DEF WaitInv, Waiting
<1> QED
  BY <1>2, <1>3

LEMMA DNSNextKeeps ==
  ASSUME DNSParameters, WaitInv, [DNSNext]_dnsVars
  PROVE  WaitInv'
<1>1. CASE DeliverAnswer \/ LoseMessage \/ UNCHANGED dnsVars
  <2>1. UNCHANGED <<pc, elapsed, retry_count, dns_1s_tick, len, fresh, sent>>
    BY <1>1 DEF DeliverAnswer, LoseMessage, dnsVars
  <2> QED
    BY <2>1, SpentFacts DEF WaitInv, Waiting, TimeoutsAreLate, Documented
<1> QED
  BY <1>1, LoopKeeps, SecondKeeps DEF DNSNext

\* A call of DNS_run made before OSStart, as main's is, is never given up; one
\* made while KeepTime counts the seconds ends after one wait more than dns.h
\* allows, neither before nor later, if nobody answers; and the retries that
\* it counts send nothing.
THEOREM TimeoutsAlwaysLate ==
  ASSUME DNSParameters
  PROVE  DNSSpec => []TimeoutsAreLate
<1>1. WaitInv /\ [DNSNext]_dnsVars => WaitInv'
  BY DNSNextKeeps
<1>2. WaitInv => TimeoutsAreLate
  BY DEF WaitInv
<1> QED
  BY <1>1, <1>2, InitWait, PTL DEF DNSSpec

-----------------------------------------------------------------------------
(* The clock *)

ClockTypeOK ==
  /\ now \in Nat /\ timenow \in Int /\ register \in Int /\ sec \in Int
  /\ waitKeep \in 0..2 /\ waitGet \in Nat
  /\ rx \in Seq(Int)
  /\ net \subseteq [sent : Nat, answer : Int]

\* A message lives MaxDelay at most; its answer was right while it lived.
InTime(m) ==
  /\ m.sent <= now /\ now <= m.sent + MaxDelay
  /\ m.answer # -1 => 2 * m.answer <= now /\ m.sent <= 2 * m.answer + 1

\* An answer waits in the socket until the task's next turn.
Recent(v) == 2 * v <= now /\ now <= 2 * v + MaxDelay + 2 - waitGet

AllRecent == \A i \in 1..Len(rx) : Recent(rx[i])

\* How far, in half seconds, timenow is ahead of the time at which KeepTime
\* last counted or will next.  Only a setting changes it.
Ahead == 2 * timenow - now - waitKeep

ClockInv ==
  /\ ClockTypeOK
  /\ pcKeep # "delay" => waitKeep = 0
  /\ pcGet # "delay" => waitGet = 0
  /\ pcKeep = "store" => register = timenow
  /\ sr = "UDP" => waitGet <= 1
  /\ sr # "UDP" => rx = <<>>
  /\ \A m \in net : InTime(m)
  /\ AllRecent
  /\ pcGet = "set" => 2 * sec <= now /\ now <= 2 * sec + MaxDelay + 2
  /\ synced => -(MaxDelay + 4) <= Ahead /\ Ahead <= 0

USE SNTPAssumption

LEMMA SecondsOf ==
  ASSUME now \in Nat
  PROVE  TrueTime \in Nat /\ 2 * TrueTime <= now /\ now <= 2 * TrueTime + 1
BY DEF TrueTime

LEMMA NearTrue == ClockInv => ClockNearTrue
<1> SUFFICES ASSUME ClockInv, synced PROVE Abs(timenow - TrueTime) <= MaxError
  BY DEF ClockNearTrue
<1> DEFINE error == timenow - TrueTime
<1>1. /\ now \in Nat /\ timenow \in Int /\ waitKeep \in 0..2
      /\ -(MaxDelay + 4) <= 2 * timenow - now - waitKeep
      /\ 2 * timenow - now - waitKeep <= 0
  BY DEF ClockInv, ClockTypeOK, Ahead
<1>2. TrueTime \in Nat /\ 2 * TrueTime <= now /\ now <= 2 * TrueTime + 1
  BY <1>1, SecondsOf
<1>3. error \in Int /\ -(MaxDelay + 4) <= 2 * error /\ error <= 1
  BY <1>1, <1>2
<1>4. MaxError \in Nat /\ MaxError >= 2 /\ 2 * MaxError >= MaxDelay + 4
  BY DEF MaxError
<1>5. -MaxError <= error /\ error <= MaxError
  BY <1>3, <1>4
<1> HIDE DEF error
<1>6. Abs(error) <= MaxError
  BY <1>3, <1>4, <1>5 DEF Abs
<1> QED
  BY <1>6 DEF error

LEMMA AnswerOf ==
  ASSUME NEW m \in [sent : Nat, answer : Int], NEW a \in Int
  PROVE  /\ [m EXCEPT !.answer = a] \in [sent : Nat, answer : Int]
         /\ [m EXCEPT !.answer = a].sent = m.sent
         /\ [m EXCEPT !.answer = a].answer = a
OBVIOUS

LEMMA InitClock == Init => ClockInv
BY DEF Init, ClockInv, ClockTypeOK, AllRecent

-----------------------------------------------------------------------------
\* The messages and the answers are as old as before.
LEMMA SameAge ==
  ASSUME ClockInv, UNCHANGED <<now, net>>
  PROVE  \A m \in net' : InTime(m)'
BY DEF ClockInv, InTime

\* KeepTime has the processor, so nobody sets timenow between its two halves.
LEMMA KeepKeeps ==
  ASSUME ClockInv, Load \/ Store \/ KeepWakes
  PROVE  ClockInv'
<1>1. UNCHANGED <<now, net, rx, sr, sec, pcGet, waitGet, synced>>
  BY DEF Load, Store, KeepWakes, socket, clock
<1>2. AllRecent'
  BY <1>1 DEF ClockInv, AllRecent, Recent
<1>3. CASE Load \/ KeepWakes
  BY <1>1, <1>2, <1>3, SameAge DEF Load, KeepWakes, clock, ClockInv, ClockTypeOK, Ahead, KeepReady
<1>4. CASE Store
  <2>1. timenow' = timenow + 1 /\ waitKeep' = 2 /\ waitKeep = 0 /\ pcKeep' = "delay"
    BY <1>4 DEF Store, ClockInv
  <2>2. Ahead' = Ahead
    BY <1>1, <2>1 DEF ClockInv, ClockTypeOK, Ahead
  <2> QED
    BY <1>1, <1>2, <1>4, <2>1, <2>2, SameAge DEF Store, ClockInv, ClockTypeOK
<1> QED
  BY <1>3, <1>4

\* The fetching task asks and takes the first answer.
LEMMA AskKeeps ==
  ASSUME ClockInv, OpenSocket \/ SendRequest \/ Receive \/ GetWakes
  PROVE  ClockInv'
<1> USE DEF ClockInv, ClockTypeOK
<1>1. UNCHANGED <<now, timenow, register, synced, pcKeep, waitKeep>>
  BY DEF OpenSocket, SendRequest, Receive, GetWakes, clock
<1>2. Ahead' = Ahead
  BY <1>1 DEF Ahead
<1>3. CASE OpenSocket
  BY <1>1, <1>2, <1>3, SameAge DEF OpenSocket, TryAgain, AllRecent
<1>4. CASE SendRequest
  <2> DEFINE q == [sent |-> now, answer |-> -1]
  <2>1. net' = net \cup {q} /\ rx' = <<>> /\ sr' = sr /\ sec' = sec /\ pcGet' = "delay"
        /\ waitGet' = 1
    BY <1>4 DEF SendRequest, TryAgain
  <2>2. q \in [sent : Nat, answer : Int] /\ InTime(q)
    BY DEF InTime
  <2>3. \A m \in net' : InTime(m)'
    BY <1>1, <2>1, <2>2 DEF InTime
  <2> QED
    BY <1>1, <1>2, <2>1, <2>2, <2>3 DEF AllRecent
<1>5. CASE Receive
  <2>1. /\ rx # <<>> /\ sec' = Head(rx) /\ rx' = Tail(rx) /\ pcGet' = "set"
        /\ UNCHANGED <<sr, net, waitGet>> /\ waitGet = 0 /\ sr = "UDP"
    BY <1>5 DEF Receive
  <2>2. /\ Len(rx) \in Nat /\ 1 \in 1..Len(rx) /\ Head(rx) = rx[1]
        /\ Tail(rx) \in Seq(Int) /\ Head(rx) \in Int
        /\ \A i \in 1..Len(Tail(rx)) : i + 1 \in 1..Len(rx) /\ Tail(rx)[i] = rx[i + 1]
    BY <2>1
  <2>3. AllRecent'
    BY <1>1, <2>1, <2>2 DEF ClockInv, AllRecent, Recent
  <2>4. Recent(Head(rx))
    BY <2>2 DEF AllRecent
  <2>5. 2 * sec' <= now /\ now <= 2 * sec' + MaxDelay + 2
    BY <2>1, <2>2, <2>4 DEF Recent
  <2> QED
    BY <1>1, <1>2, <2>1, <2>2, <2>3, <2>5, SameAge
<1>6. CASE GetWakes
  <2>1. /\ pcGet' = "poll" /\ waitGet = 0
        /\ UNCHANGED <<sr, rx, net, waitGet, sec>>
    BY <1>6 DEF GetWakes, socket
  <2>2. AllRecent'
    BY <1>1, <2>1 DEF ClockInv, AllRecent, Recent
  <2> QED
    BY <1>1, <1>2, <2>1, <2>2, SameAge
<1> QED
  BY <1>3, <1>4, <1>5, <1>6

\* It sets the time only while KeepTime sleeps.
LEMMA SetKeeps ==
  ASSUME ClockInv, SetTime \/ CloseSocket
  PROVE  ClockInv'
<1> USE DEF ClockInv, ClockTypeOK
<1>1. CASE SetTime
  <2>1. /\ timenow' = sec /\ pcGet = "set" /\ pcGet' = "close"
        /\ UNCHANGED <<now, register, sr, rx, net, pcKeep, waitKeep, waitGet, sec>>
    BY <1>1 DEF SetTime, socket
  <2>2. pcKeep = "delay"
    BY <1>1 DEF SetTime, GetRuns, KeepReady, GetTimePRIO, KEEPTIMEPRIO
  <2>3. -(MaxDelay + 4) <= Ahead' /\ Ahead' <= 0
    BY <2>1 DEF Ahead
  <2>4. AllRecent'
    BY <2>1 DEF ClockInv, AllRecent, Recent
  <2> QED
    BY <2>1, <2>2, <2>3, <2>4, SameAge
<1>2. CASE CloseSocket
  <2>1. /\ sr' = "CLOSED" /\ rx' = <<>> /\ pcGet' = "delay" /\ waitGet' = SyncPeriod
        /\ UNCHANGED <<now, timenow, register, synced, net, pcKeep, waitKeep, sec>>
    BY <1>2 DEF CloseSocket, clock
  <2> QED
    BY <2>1, SameAge DEF Ahead, AllRecent
<1> QED
  BY <1>1, <1>2

\* The server answers with its time; what arrives at an open socket is kept.
LEMMA NetKeeps ==
  ASSUME ClockInv, NEW m \in net, ServerAnswers(m) \/ Deliver(m) \/ Lose(m)
  PROVE  ClockInv'
<1> USE DEF ClockInv, ClockTypeOK
<1>1. UNCHANGED <<clock, sr, tasks>> /\ UNCHANGED <<now, timenow, register, synced,
        pcKeep, pcGet, waitKeep, waitGet, sec>>
  BY DEF ServerAnswers, Deliver, Lose, clock, tasks
<1>2. Ahead' = Ahead
  BY <1>1 DEF Ahead
<1>3. m \in [sent : Nat, answer : Int] /\ InTime(m)
      /\ m.sent \in Nat /\ m.answer \in Int /\ now \in Nat
  OBVIOUS
<1>4. CASE ServerAnswers(m)
  <2> DEFINE a == [m EXCEPT !.answer = TrueTime]
  <2>1. net' = (net \ {m}) \cup {a} /\ rx' = rx
    BY <1>4 DEF ServerAnswers
  <2>2. TrueTime \in Nat /\ 2 * TrueTime <= now /\ now <= 2 * TrueTime + 1
    BY SecondsOf
  <2>3. a \in [sent : Nat, answer : Int] /\ a.sent = m.sent /\ a.answer = TrueTime
    <3>1. TrueTime \in Int
      BY <2>2
    <3> QED
      BY <1>3, <3>1, AnswerOf
  <2> HIDE DEF a, ClockInv, ClockTypeOK
  <2>4. InTime(a)
    BY <1>3, <2>2, <2>3 DEF InTime
  <2>5. \A n \in net' : InTime(n)'
    BY <1>1, <2>1, <2>4 DEF InTime, ClockInv
  <2>6. AllRecent'
    BY <1>1, <2>1 DEF ClockInv, AllRecent, Recent
  <2> QED
    BY <1>1, <1>2, <2>1, <2>3, <2>5, <2>6 DEF ClockInv, ClockTypeOK
<1>5. CASE Deliver(m)
  <2>1. net' \subseteq net /\ (\A n \in net' : InTime(n)')
    BY <1>1, <1>5 DEF Deliver, InTime
  <2>2. rx' = IF sr = "UDP" THEN Append(rx, m.answer) ELSE rx
    BY <1>5 DEF Deliver
  <2>3. CASE sr = "UDP"
    <3>1. m.answer \in Int /\ Recent(m.answer)
      <4>1. /\ m.answer \in Int /\ m.sent \in Nat /\ now \in Nat
            /\ waitGet \in Nat /\ waitGet <= 1 /\ MaxDelay \in Nat
        BY <1>3, <2>3
      <4> HIDE DEF ClockInv, ClockTypeOK
      <4>2. /\ now <= m.sent + MaxDelay
            /\ 2 * m.answer <= now /\ m.sent <= 2 * m.answer + 1
        BY <1>3, <1>5 DEF Deliver, InTime
      <4> QED
        BY <4>1, <4>2 DEF Recent
    <3>2. /\ rx' \in Seq(Int) /\ Len(rx') = Len(rx) + 1 /\ Len(rx) \in Nat
          /\ rx'[Len(rx) + 1] = m.answer
          /\ \A i \in 1..Len(rx) : rx'[i] = rx[i]
      BY <2>2, <2>3, <3>1
    <3>3. \A i \in 1..Len(rx') : i \in 1..Len(rx) \/ i = Len(rx) + 1
      BY <3>2
    <3>4. \A i \in 1..Len(rx') : Recent(rx'[i])
      BY <3>1, <3>2, <3>3 DEF AllRecent
    <3>5. AllRecent'
      BY <1>1, <3>4 DEF AllRecent, Recent
    <3> QED
      BY <1>1, <1>2, <2>1, <2>3, <3>2, <3>5
  <2>4. CASE sr # "UDP"
    <3>1. rx' = <<>> /\ AllRecent'
      BY <2>2, <2>4 DEF AllRecent
    <3> QED
      BY <1>1, <1>2, <2>1, <3>1
  <2> QED
    BY <2>3, <2>4
<1>6. CASE Lose(m)
  <2>1. net' \subseteq net /\ rx' = rx /\ (\A n \in net' : InTime(n)')
    BY <1>1, <1>6 DEF Lose, InTime
  <2>2. AllRecent'
    BY <1>1, <2>1 DEF ClockInv, AllRecent, Recent
  <2> QED
    BY <1>1, <1>2, <2>1, <2>2
<1> QED
  BY <1>4, <1>5, <1>6

\* Time passes only while both tasks sleep and no message is at its end.
LEMMA PassKeeps ==
  ASSUME ClockInv, Pass
  PROVE  ClockInv'
<1> USE DEF ClockInv, ClockTypeOK
<1>1. /\ waitKeep > 0 /\ waitGet > 0 /\ now' = now + 1
      /\ waitKeep' = waitKeep - 1 /\ waitGet' = waitGet - 1
      /\ \A m \in net : now < m.sent + MaxDelay
      /\ UNCHANGED <<timenow, register, synced, sr, rx, net, pcKeep, pcGet, sec>>
  BY DEF Pass, socket
<1>2. Ahead' = Ahead
  BY <1>1 DEF Ahead
<1>3. \A m \in net' : InTime(m)'
  <2> SUFFICES ASSUME NEW m \in net PROVE InTime(m)'
    BY <1>1
  <2>1. m.sent \in Nat /\ m.answer \in Int /\ InTime(m) /\ now < m.sent + MaxDelay
    BY <1>1
  <2> QED
    BY <1>1, <2>1 DEF InTime
<1>4. AllRecent'
  <2> SUFFICES ASSUME NEW i \in 1..Len(rx)
               PROVE  2 * rx[i] <= now' /\ now' <= 2 * rx[i] + MaxDelay + 2 - waitGet'
    BY <1>1 DEF AllRecent, Recent
  <2>1. rx[i] \in Int /\ Recent(rx[i])
    BY DEF AllRecent
  <2>2. now \in Nat /\ waitGet \in Nat
    OBVIOUS
  <2> HIDE DEF ClockInv, ClockTypeOK
  <2> DEFINE v == rx[i]
  <2>3. v \in Int /\ 2 * v <= now /\ now <= 2 * v + MaxDelay + 2 - waitGet
    BY <2>1 DEF Recent
  <2> HIDE DEF v
  <2>4. 2 * v <= now' /\ now' <= 2 * v + MaxDelay + 2 - waitGet'
    BY <1>1, <2>2, <2>3
  <2> QED
    BY <2>4 DEF v
<1> QED
  BY <1>1, <1>2, <1>3, <1>4

LEMMA NextKeeps == ClockInv /\ [Next]_vars => ClockInv'
<1> SUFFICES ASSUME ClockInv, [Next]_vars PROVE ClockInv'
  OBVIOUS
<1>1. CASE UNCHANGED vars
  BY <1>1 DEF vars, clock, socket, tasks, ClockInv, ClockTypeOK, InTime, AllRecent, Recent,
              Ahead
<1> QED
  BY <1>1, KeepKeeps, AskKeeps, SetKeeps, NetKeeps, PassKeeps DEF Next

\* No timenow++ of KeepTime undoes a setting or is undone by one, and no
\* answer to an earlier request is used: the error of the clock is bounded by
\* the life of the messages, the turns of the two tasks and the rounding.
THEOREM ClockStaysNear == Spec => []ClockNearTrue
BY InitClock, NextKeeps, NearTrue, PTL DEF Spec
-----------------------------------------------------------------------------
(* Frames on the bus                                                       *)

Active(u) == step[u] # "idle"

\* Whoever is in a frame has interrupts held off, so it is alone.
AloneInv ==
  /\ \A u \in Users : Active(u) => masked
  /\ \A u, v \in Users : Active(u) /\ Active(v) => u = v

\* The user's step tells the state of the bus.
Released == ~selected /\ frame = None

StepInv(u) ==
  /\ step[u] = "idle" => ((\A v \in Users : ~Active(v)) => Released)
  /\ step[u] \in {"select", "header", "data", "deselect"} => op[u] \in Ops
  /\ step[u] \in {"select", "header"} => left[u] = op[u].len /\ frame = None
  /\ step[u] = "header" => selected
  /\ step[u] = "data" =>
       /\ left[u] \in 1..op[u].len
       /\ selected
       /\ frame = [pos |-> Target(u), write |-> op[u].write]
  /\ step[u] = "exit" => Released

BusInv == BusTypeOK /\ AloneInv /\ (\A u \in Users : StepInv(u))

USE BusAssumption, NoneAssumption

\* What an operation's record is.
LEMMA OpFields ==
  ASSUME NEW o \in Ops
  PROVE  /\ o.reg \in Nat /\ o.len \in Nat \ {0}
         /\ o.reg + o.len <= NRegs
         /\ o.reg \in Regs /\ o.len \in 1..NRegs
         /\ o.write \in BOOLEAN /\ o.val \in Values
BY DEF Ops, Regs

\* While a byte is to come its target is a register.
LEMMA TargetInRegs ==
  ASSUME NEW u \in Users, op[u] \in Ops, left[u] \in 1..op[u].len
  PROVE  /\ Target(u) \in Regs
         /\ left[u] > 1 => Target(u) + 1 < NRegs
<1> DEFINE o == op[u]
<1>1. o.reg \in Nat /\ o.len \in Nat /\ o.reg + o.len <= NRegs
  BY OpFields
<1>2. left[u] \in Nat /\ 1 <= left[u] /\ left[u] <= o.len
  BY <1>1
<1>3. Target(u) = o.reg + (o.len - left[u])
  BY DEF Target
<1> QED BY <1>1, <1>2, <1>3 DEF Regs

\* Initially nobody uses the bus.
LEMMA BusInitOK == BusInit => BusInv
<1> SUFFICES ASSUME BusInit PROVE BusInv
  OBVIOUS
<1>1. regs \in [Regs -> Bytes]
  BY DEF BusInit, Bytes
<1>2. BusTypeOK
  <2>1. 0 \in 0..NRegs /\ Junk \in Bytes
    BY DEF Bytes
  <2>2. /\ step \in [Users -> {"idle", "select", "header", "data", "deselect", "exit"}]
        /\ op \in [Users -> Ops \cup {None}]
        /\ left \in [Users -> 0..NRegs]
        /\ got \in [Users -> Bytes]
    BY <2>1 DEF BusInit
  <2>3. {masked, selected} \subseteq BOOLEAN /\ frame \in Frames \cup {None}
    BY DEF BusInit
  <2> QED BY <1>1, <2>2, <2>3 DEF BusTypeOK
<1>3. AloneInv /\ (\A u \in Users : StepInv(u))
  BY DEF BusInit, AloneInv, StepInv, Active, Released
<1> QED BY <1>2, <1>3 DEF BusInv

\* A user that takes a step within a call is the only active one.
LEMMA OnlyUser ==
  ASSUME BusInv, NEW u \in Users, Active(u)
  PROVE  masked /\ \A v \in Users : v # u => step[v] = "idle"
BY DEF BusInv, AloneInv, Active

\* Every step of the bus keeps the invariant, given the callbacks.
LEMMA BusStepOK ==
  ASSUME Protected, BusInv, BusNext
  PROVE  BusInv'
<1>1. PICK u \in Users :
         \/ \E o \in Ops : CriticalEnter(u, o)
         \/ Select(u) \/ Header(u) \/ Data(u) \/ Deselect(u) \/ CriticalExit(u)
  BY DEF BusNext
<1>2. BusTypeOK /\ AloneInv /\ (\A v \in Users : StepInv(v))
  BY DEF BusInv
<1>3. CASE \E o \in Ops : CriticalEnter(u, o)
  <2>1. PICK o \in Ops : CriticalEnter(u, o)
    BY <1>3
  <2>2. \A v \in Users : step[v] = "idle"
    BY <1>2, <2>1 DEF CriticalEnter, AloneInv, Active
  <2>3. Released
    BY <1>2, <2>2 DEF StepInv, Active
  <2>4. o.len \in 1..NRegs
    BY OpFields
  <2>5. BusTypeOK'
    BY <1>2, <2>1, <2>4 DEF CriticalEnter, At, BusTypeOK, chip
  <2>6. step' = [step EXCEPT ![u] = "select"] /\ op' = [op EXCEPT ![u] = o]
        /\ left' = [left EXCEPT ![u] = o.len] /\ masked' = TRUE
        /\ UNCHANGED <<selected, frame>>
    BY <2>1 DEF CriticalEnter, At, chip
  <2>7. AloneInv'
    BY <1>2, <2>2, <2>6 DEF AloneInv, Active, BusTypeOK
  <2>8. ASSUME NEW v \in Users PROVE StepInv(v)'
    BY <1>2, <2>2, <2>3, <2>6 DEF StepInv, Active, Released, BusTypeOK
  <2> QED BY <2>5, <2>7, <2>8 DEF BusInv
<1>4. ASSUME Active(u), NEW q \in {"header", "data", "deselect", "exit"},
             step' = [step EXCEPT ![u] = q], masked' = masked
      PROVE  AloneInv'
  BY <1>2, <1>4 DEF AloneInv, Active, BusTypeOK
<1>5. ASSUME Active(u), step' = [step EXCEPT ![u] = step'[u]],
             op' = op, left' = [left EXCEPT ![u] = left'[u]],
             step'[u] # "idle", StepInv(u)'
      PROVE  \A v \in Users : StepInv(v)'
  <2>1. \A v \in Users : v # u => step'[v] = "idle"
    BY <1>2, <1>5, OnlyUser DEF BusInv, BusTypeOK
  <2> QED BY <1>5, <2>1 DEF StepInv, Active
<1>6. CASE Select(u)
  <2>1. /\ step[u] = "select" /\ step' = [step EXCEPT ![u] = "header"]
        /\ selected' = TRUE /\ op' = op /\ left' = left /\ masked' = masked
    BY <1>6 DEF Select, At
  <2>2. frame' = None
    BY <1>2, <1>6, <2>1 DEF Select, StepInv
  <2>3. BusTypeOK'
    BY <1>2, <1>6, <2>1, <2>2 DEF Select, BusTypeOK
  <2>4. AloneInv'
    BY <1>4, <2>1 DEF Active
  <2>5. StepInv(u)'
    BY <1>2, <2>1, <2>2 DEF StepInv, BusTypeOK
  <2> QED BY <1>2, <1>5, <2>1, <2>3, <2>4, <2>5 DEF BusInv, BusTypeOK, Active
<1>7. CASE Header(u)
  <2>1. /\ step[u] = "header" /\ step' = [step EXCEPT ![u] = "data"]
        /\ op' = op /\ left' = left /\ masked' = masked /\ selected' = selected
        /\ got' = got
    BY <1>7 DEF Header, At
  <2>2. op[u] \in Ops /\ left[u] = op[u].len /\ frame = None /\ selected
    BY <1>2, <2>1 DEF StepInv
  <2>3. frame' = [pos |-> op[u].reg, write |-> op[u].write] /\ regs' = regs
    BY <1>7, <2>2 DEF Header
  <2>4. op[u].reg \in Regs /\ op[u].write \in BOOLEAN /\ op[u].len \in Nat \ {0}
        /\ op[u].reg \in Nat
    BY <2>2, OpFields
  <2>5. BusTypeOK'
    BY <1>2, <2>1, <2>3, <2>4 DEF BusTypeOK, Frames
  <2>6. AloneInv'
    BY <1>4, <2>1 DEF Active
  <2>7. Target(u)' = op[u].reg
    BY <2>1, <2>2, <2>4 DEF Target
  <2>8. StepInv(u)'
    BY <1>2, <2>1, <2>2, <2>3, <2>4, <2>7 DEF StepInv, BusTypeOK
  <2> QED BY <1>2, <1>5, <2>1, <2>5, <2>6, <2>8 DEF BusInv, BusTypeOK, Active
<1>8. CASE Data(u)
  <2>1. /\ step[u] = "data" /\ op' = op /\ masked' = masked /\ selected' = selected
        /\ step' = [step EXCEPT ![u] = IF left[u] = 1 THEN "deselect" ELSE "data"]
        /\ left' = [left EXCEPT ![u] = @ - 1]
    BY <1>8 DEF Data, At
  <2>2. /\ op[u] \in Ops /\ left[u] \in 1..op[u].len /\ selected
        /\ frame = [pos |-> Target(u), write |-> op[u].write]
    BY <1>2, <2>1 DEF StepInv
  <2>3. Target(u) \in Regs /\ (left[u] > 1 => Target(u) + 1 < NRegs)
    BY <2>2, TargetInRegs
  <2>4. op[u].reg \in Nat /\ op[u].len \in 1..NRegs /\ op[u].write \in BOOLEAN
        /\ op[u].val \in Values
    BY <2>2, OpFields
  <2>5. frame # None
    BY <2>2, <2>3, <2>4 DEF Frames
  <2>6. /\ frame' = [frame EXCEPT !.pos = Next_pos]
        /\ \/ regs' = regs
           \/ \E b \in Bytes : regs' = [regs EXCEPT ![Target(u)] = b]
    BY <1>8, <2>2, <2>4, <2>5 DEF Data, ChipByte, Bytes
  <2>7. Next_pos \in Regs
    BY <2>2, <2>3 DEF Next_pos, Regs
  <2>8. frame' = [pos |-> Next_pos, write |-> op[u].write]
    BY <2>2, <2>6
  <2>9. got' \in [Users -> Bytes]
    <3>1. ChipOut \in Bytes
      BY <1>2, <2>2, <2>3 DEF ChipOut, Bytes, BusTypeOK
    <3> QED BY <1>2, <1>8, <3>1 DEF Data, BusTypeOK
  <2>10. left' \in [Users -> 0..NRegs] /\ left'[u] = left[u] - 1
    BY <1>2, <2>1, <2>2, <2>4 DEF BusTypeOK
  <2>11. regs' \in [Regs -> Bytes]
    BY <1>2, <2>6 DEF BusTypeOK
  <2>12. step' \in [Users -> {"idle", "select", "header", "data", "deselect", "exit"}]
    BY <1>2, <2>1 DEF BusTypeOK
  <2>13. BusTypeOK'
    BY <1>2, <2>1, <2>4, <2>7, <2>8, <2>9, <2>10, <2>11, <2>12 DEF BusTypeOK, Frames
  <2>14. AloneInv'
    BY <1>4, <2>1 DEF Active
  <2>15. left[u] # 1 => Target(u)' = Next_pos
    <3>1. Target(u) = op[u].reg + (op[u].len - left[u]) /\ frame.pos = Target(u)
      BY <2>2 DEF Target
    <3>2. Target(u)' = op[u].reg + (op[u].len - (left[u] - 1))
      BY <2>1, <2>10 DEF Target
    <3> QED BY <2>2, <2>3, <2>4, <3>1, <3>2 DEF Next_pos, Regs
  <2>16. left[u] # 1 => left'[u] \in 1..op[u].len
    BY <2>2, <2>4, <2>10
  <2>17. StepInv(u)'
    BY <1>2, <2>1, <2>2, <2>8, <2>15, <2>16 DEF StepInv, BusTypeOK
  <2> QED BY <1>2, <1>5, <2>1, <2>10, <2>13, <2>14, <2>17 DEF BusInv, BusTypeOK, Active
<1>9. CASE Deselect(u)
  <2>1. /\ step[u] = "deselect" /\ step' = [step EXCEPT ![u] = "exit"]
        /\ op' = op /\ left' = left /\ masked' = masked
        /\ selected' = FALSE /\ frame' = None /\ got' = got /\ regs' = regs
    BY <1>9 DEF Deselect, At
  <2>2. BusTypeOK'
    BY <1>2, <2>1 DEF BusTypeOK
  <2>3. AloneInv'
    BY <1>4, <2>1 DEF Active
  <2>4. StepInv(u)'
    BY <1>2, <2>1 DEF StepInv, Released, BusTypeOK
  <2> QED BY <1>2, <1>5, <2>1, <2>2, <2>3, <2>4 DEF BusInv, BusTypeOK, Active
<1>10. CASE CriticalExit(u)
  <2>1. /\ step[u] = "exit" /\ step' = [step EXCEPT ![u] = "idle"]
        /\ op' = [op EXCEPT ![u] = None] /\ got' = [got EXCEPT ![u] = Junk]
        /\ left' = left /\ masked' = FALSE /\ UNCHANGED <<selected, frame, regs>>
    BY <1>10 DEF CriticalExit, At, chip
  <2>2. Released
    BY <1>2, <2>1 DEF StepInv
  <2>3. \A v \in Users : step'[v] = "idle"
    BY <1>2, <2>1, OnlyUser DEF BusInv, BusTypeOK, Active
  <2>4. BusTypeOK'
    BY <1>2, <2>1 DEF BusTypeOK, Bytes
  <2>5. AloneInv'
    BY <2>3 DEF AloneInv, Active
  <2>6. \A v \in Users : StepInv(v)'
    BY <2>1, <2>2, <2>3 DEF StepInv, Released
  <2> QED BY <2>4, <2>5, <2>6 DEF BusInv
<1> QED BY <1>1, <1>3, <1>6, <1>7, <1>8, <1>9, <1>10

\* In a state of the invariant every step treats the registers rightly.
LEMMA FrameStep ==
  ASSUME BusInv, BusNext
  PROVE  /\ \A u \in Users : DataStep(u) =>
              IF op[u].write
              THEN regs' = [regs EXCEPT ![Target(u)] = op[u].val]
              ELSE regs' = regs /\ got'[u] = regs[Target(u)]
         /\ (\A u \in Users : ~DataStep(u)) => regs' = regs
<1>1. PICK u \in Users :
         \/ \E o \in Ops : CriticalEnter(u, o)
         \/ Select(u) \/ Header(u) \/ Data(u) \/ Deselect(u) \/ CriticalExit(u)
  BY DEF BusNext
<1>2. BusTypeOK /\ AloneInv /\ (\A v \in Users : StepInv(v))
  BY DEF BusInv
<1>3. CASE Data(u)
  <2>1. /\ step[u] = "data" /\ left' = [left EXCEPT ![u] = @ - 1]
        /\ got' = [got EXCEPT ![u] = ChipOut]
        /\ ChipByte(IF op[u].write THEN op[u].val ELSE Junk)
    BY <1>3 DEF Data, At
  <2>2. /\ op[u] \in Ops /\ left[u] \in 1..op[u].len /\ selected
        /\ frame = [pos |-> Target(u), write |-> op[u].write]
    BY <1>2, <2>1 DEF StepInv
  <2>3. Target(u) \in Regs /\ op[u].write \in BOOLEAN
    BY <2>2, TargetInRegs, OpFields
  <2>4. frame # None
    BY <2>2, <2>3 DEF Frames
  <2>5. \A v \in Users : v # u => ~DataStep(v)
    BY <1>2, <2>1 DEF DataStep, AloneInv, Active
  <2>6. DataStep(u)
    <3>1. left[u] \in Nat /\ left'[u] = left[u] - 1
      BY <1>2, <2>1 DEF BusTypeOK
    <3> QED BY <2>1, <3>1 DEF DataStep
  <2>7. CASE op[u].write
    BY <2>1, <2>2, <2>4, <2>5, <2>6, <2>7 DEF ChipByte
  <2>8. CASE ~op[u].write
    <3>1. got'[u] = regs[Target(u)]
      BY <1>2, <2>1, <2>2, <2>4, <2>8 DEF ChipOut, BusTypeOK
    <3> QED BY <2>1, <2>2, <2>4, <2>5, <2>6, <2>8, <3>1 DEF ChipByte
  <2> QED BY <2>7, <2>8
<1>4. CASE ~Data(u)
  <2>1. regs' = regs
    <3>1. CASE Header(u)
      BY <1>2, <3>1 DEF Header, At, StepInv
    <3>2. CASE \E o \in Ops : CriticalEnter(u, o)
      BY <3>2 DEF CriticalEnter, chip
    <3> QED BY <1>1, <1>4, <3>1, <3>2 DEF Select, Deselect, CriticalExit, chip
  <2>2. \A v \in Users : ~DataStep(v)
    <3>1. CASE \E o \in Ops : CriticalEnter(u, o)
      <4>1. step[u] = "idle" /\ \A v \in Users : v # u => left'[v] = left[v]
        BY <1>2, <3>1 DEF CriticalEnter, At, BusTypeOK
      <4> QED BY <4>1 DEF DataStep
    <3>2. CASE Select(u) \/ Header(u) \/ Deselect(u) \/ CriticalExit(u)
      BY <3>2 DEF Select, Header, Deselect, CriticalExit, DataStep
    <3> QED BY <1>1, <1>4, <3>1, <3>2
  <2> QED BY <2>1, <2>2
<1> QED BY <1>3, <1>4

\* The invariant of every behaviour with protected frames.
LEMMA BusInvariant == ASSUME Protected PROVE BusSpec => []BusInv
<1>1. BusInv /\ UNCHANGED busVars => BusInv'
  BY DEF BusInv, BusTypeOK, AloneInv, StepInv, Active, Released, Target, busVars,
         caller, chip
<1>2. BusInv /\ [BusNext]_busVars => BusInv'
  BY BusStepOK, <1>1
<1> QED BY BusInitOK, <1>2, PTL DEF BusSpec

\* With the callbacks registered, every frame is whole: a byte written or read
\* is that of the register its caller named, whatever preempts whom.
THEOREM ProtectedFramesWhole == ASSUME Protected PROVE BusSpec => WholeFrames
<1>1. BusInv /\ [BusNext]_busVars =>
        [/\ \A u \in Users : DataStep(u) =>
              IF op[u].write
              THEN regs' = [regs EXCEPT ![Target(u)] = op[u].val]
              ELSE regs' = regs /\ got'[u] = regs[Target(u)]
         /\ (\A u \in Users : ~DataStep(u)) => regs' = regs]_busVars
  BY FrameStep
<1> QED BY BusInvariant, <1>1, PTL DEF BusSpec, WholeFrames
=====================================================================================================================================================
