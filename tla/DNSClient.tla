------------------------------ MODULE DNSClient ------------------------------
(***************************************************************************)
(* DNS_run (dns.c), the query that main makes through SNTP_init before it  *)
(* starts the kernel.  The loop looks for an answer and at dns_1s_tick,    *)
(* which only the task KeepTime counts.  BeforeOSStart tells the order of  *)
(* main from the use dns.h describes, a call while the one-second handler  *)
(* runs.  Queries and answers may be lost or late.                         *)
(***************************************************************************)
EXTENDS Naturals

CONSTANTS
  MAX_DNS_RETRY, DNS_WAIT_TIME,
  BeforeOSStart,  \* DNS_run is called before OSStart, as in main
  QueryLen,       \* the length of a query
  MaxElapsed      \* bound: seconds observed

\* What the theorem about DNS_run assumes of them.
DNSParameters ==
  /\ MAX_DNS_RETRY \in Nat
  /\ {DNS_WAIT_TIME, QueryLen} \subseteq Nat \ {0}
  /\ BeforeOSStart \in BOOLEAN
  /\ MaxElapsed \in Nat

VARIABLES
  pc,           \* where DNS_run is
  retry_count,
  dns_1s_tick,
  len,          \* DNS_run's local length: of the query, then of what came
  sock,         \* the socket is open
  onWire,       \* queries on the wire that may still be answered
  answers,      \* answers in the receive buffer
  fresh,        \* the loop has turned since the last second
  elapsed,      \* history: seconds since the call
  sent          \* history: queries put on the wire

dnsVars == <<pc, retry_count, dns_1s_tick, len, sock, onWire, answers, fresh, elapsed, sent>>

DNSInit ==
  /\ pc = "start"
  /\ retry_count = 0
  /\ dns_1s_tick = 0
  /\ len = 0
  /\ sock = FALSE
  /\ onWire = 0
  /\ answers = 0
  /\ fresh = TRUE
  /\ elapsed = 0
  /\ sent = 0

\* sendto: a length of zero is SOCKERR_DATALEN and sends nothing.
sendto(n) == IF n = 0 THEN UNCHANGED <<onWire, sent>>
             ELSE onWire' = onWire + 1 /\ sent' = sent + 1

\* Both counters are reset, the socket is opened and the query is sent.
DNS_run ==
  /\ pc = "start"
  /\ pc' = "poll"
  /\ retry_count' = 0
  /\ dns_1s_tick' = 0
  /\ sock' = TRUE
  /\ len' = QueryLen
  /\ sendto(QueryLen)
  /\ UNCHANGED <<answers, fresh, elapsed>>

\* The test of getSn_RX_RSR assigns len, with nothing received as well.
Poll ==
  /\ pc = "poll" /\ answers = 0
  /\ pc' = "check"
  /\ len' = 0
  /\ UNCHANGED <<retry_count, dns_1s_tick, sock, onWire, answers, fresh, elapsed, sent>>

\* An answer is parsed, for better or worse, and the socket is closed.
Answered ==
  /\ pc = "poll" /\ answers > 0
  /\ \E ret \in {"answered", "parse error"} : pc' = ret
  /\ sock' = FALSE
  /\ answers' = 0
  /\ UNCHANGED <<retry_count, dns_1s_tick, len, onWire, fresh, elapsed, sent>>

\* check_DNS_timeout returns 1: no time is over.
StillWaiting ==
  /\ pc = "check" /\ dns_1s_tick < DNS_WAIT_TIME
  /\ pc' = "poll"
  /\ fresh' = TRUE
  /\ UNCHANGED <<retry_count, dns_1s_tick, len, sock, onWire, answers, elapsed, sent>>

\* check_DNS_timeout returns 0: the query is repeated.
Retry ==
  /\ pc = "check" /\ dns_1s_tick >= DNS_WAIT_TIME /\ retry_count < MAX_DNS_RETRY
  /\ pc' = "poll"
  /\ dns_1s_tick' = 0
  /\ retry_count' = retry_count + 1
  /\ sendto(len)
  /\ fresh' = TRUE
  /\ UNCHANGED <<len, sock, answers, elapsed>>

\* check_DNS_timeout returns -1: DNS_run returns 0 and leaves the socket open.
GiveUp ==
  /\ pc = "check" /\ dns_1s_tick >= DNS_WAIT_TIME /\ retry_count >= MAX_DNS_RETRY
  /\ pc' = "timeout"
  /\ dns_1s_tick' = 0
  /\ retry_count' = 0
  /\ UNCHANGED <<len, sock, onWire, answers, fresh, elapsed, sent>>

\* DNS_time_handler is called by KeepTime, a task.
DNS_time_handler ==
  dns_1s_tick' = IF BeforeOSStart THEN dns_1s_tick ELSE dns_1s_tick + 1

\* A second passes: the loop turns far more often than that.
Second ==
  /\ pc \in {"poll", "check"} /\ fresh
  /\ elapsed < MaxElapsed
  /\ elapsed' = elapsed + 1
  /\ fresh' = FALSE
  /\ DNS_time_handler
  /\ UNCHANGED <<pc, retry_count, len, sock, onWire, answers, sent>>

\* The network answers a query or loses it; the chip keeps what comes to an
\* open socket.
DeliverAnswer ==
  /\ onWire > 0
  /\ onWire' = onWire - 1
  /\ answers' = IF sock THEN answers + 1 ELSE answers
  /\ UNCHANGED <<pc, retry_count, dns_1s_tick, len, sock, fresh, elapsed, sent>>

LoseMessage ==
  /\ onWire > 0
  /\ onWire' = onWire - 1
  /\ UNCHANGED <<pc, retry_count, dns_1s_tick, len, sock, answers, fresh, elapsed, sent>>

Loop == DNS_run \/ Poll \/ Answered \/ StillWaiting \/ Retry \/ GiveUp

DNSNext == Loop \/ Second \/ DeliverAnswer \/ LoseMessage

DNSSpec == DNSInit /\ [][DNSNext]_dnsVars

\* main goes on, and so does time.
DNSFairSpec == DNSSpec /\ WF_dnsVars(Loop) /\ WF_dnsVars(Second)
-----------------------------------------------------------------------------
Returned == pc \in {"answered", "parse error", "timeout"}

\* Every variable keeps its type.
DNSTypeOK ==
  /\ pc \in {"start", "poll", "check", "answered", "parse error", "timeout"}
  /\ retry_count \in 0..MAX_DNS_RETRY
  /\ {dns_1s_tick, onWire, answers, elapsed, sent} \subseteq Nat
  /\ len \in {0, QueryLen}
  /\ {sock, fresh} \subseteq BOOLEAN

\* dns.h:95: "This funtion blocks until success or fail": it returns.
DNSReturns == <>Returned

\* dns.h:95 goes on: "max time = MAX_DNS_RETRY * DNS_WAIT_TIME".
Documented == MAX_DNS_RETRY * DNS_WAIT_TIME

\* A call that is given up has lasted one DNS_WAIT_TIME more than that, and
\* was not made before OSStart; none lasts longer while the seconds are
\* counted; and the query is sent once, whatever MAX_DNS_RETRY is, for the
\* poll that finds nothing has set len to 0.
TimeoutsAreLate ==
  /\ ~BeforeOSStart => elapsed <= Documented + DNS_WAIT_TIME
  /\ pc = "timeout" => ~BeforeOSStart /\ elapsed = Documented + DNS_WAIT_TIME
  /\ sent <= 1
=============================================================================
