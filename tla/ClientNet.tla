------------------------------- MODULE ClientNet -------------------------------
(***************************************************************************)
(* How a client's request reaches a server (krb5-protocol/src/transport.rs *)
(* and the sending half of chpw.rs): a walk over the located KDCs, one     *)
(* given KDC, or the password servers.  `todo' is what is left of the      *)
(* passes: a datagram, a connection, or a wait on the open sockets.  A     *)
(* server answers in time, late (the datagram is read by a later wait or   *)
(* read), or never.                                                        *)
(***************************************************************************)
EXTENDS Integers, Sequences, SequencesExt

CONSTANTS
    Servers,  \* per server: [udp, tcp, found], its transports and its address
    Modes,    \* among "walk", "one" and "kpasswd"
    Lives,    \* the sets of servers that may be up: they answer every request in time
    Limited   \* request_timeout is set

VARIABLES mode, big, live, n

vars == <<mode, big, live, n>>

Udp(i) == [how |-> "udp", to |-> i]

Tcp(i) == [how |-> "tcp", to |-> i]

Wait(i) == [how |-> "wait", to |-> i]

Udps == [i \in DOMAIN Servers |-> Udp(i)]

Tcps == [i \in DOMAIN Servers |-> Tcp(i)]

(* exchange_passes: one pass over both transports, the larger requests     *)
(* over TCP first, and two more over the open sockets.                     *)
WalkPlan ==
    (IF big THEN Tcps \o Udps ELSE Udps \o Tcps) \o <<Wait(0)>> \o Udps \o <<Wait(0)>>
        \o Udps \o <<Wait(0)>>

(* exchange_one: three datagrams, then a connection. *)
OnePlan == IF big THEN <<Tcp(1)>> ELSE <<Udp(1), Udp(1), Udp(1), Tcp(1)>>

(* send_listed: every server over TCP, then every server over UDP, three   *)
(* passes each.                                                            *)
KpasswdPlan ==
    Tcps \o FlattenSeq([i \in DOMAIN Servers |->
                           <<Udp(i), Wait(i), Udp(i), Wait(i), Udp(i), Wait(i)>>])

PlanOf == CASE mode = "walk" -> WalkPlan [] mode = "one" -> OnePlan [] OTHER -> KpasswdPlan

Stop(c, r) == [c EXCEPT !.pc = "ended", !.out = r]

(* The walk is over: the remembered KDC_ERR_SVC_UNAVAILABLE, or the error. *)
Over(c) == Stop(c, IF c.svc THEN "svc" ELSE "none")

Pass(c) == IF Len(c.todo) = 1 THEN Over([c EXCEPT !.todo = <<>>]) ELSE [c EXCEPT !.todo = Tail(@)]

(* What a server may do with a datagram, and with a connection. *)
UdpAnswers(i) ==
    IF i \in live THEN {"reply"} ELSE {"reply", "big", "svc", "late", "lost"}

TcpAnswers(i) == IF i \in live THEN {"reply"} ELSE {"reply", "svc", "failed"}

(* tcp_one and exchange_tcp_capped: what comes over a connection is the    *)
(* answer.  After RESPONSE_TOO_BIG the deadline is a fresh one.            *)
Connected(c, a) == IF a = "failed" THEN Pass(c) ELSE Stop(c, IF a = "svc" THEN "busy" ELSE "reply")

TcpStep(c, i, fresh) ==
    IF ~ Servers[i].tcp \/ ~ Servers[i].found \/ (c.expired /\ ~ fresh) THEN {Pass(c)}
    ELSE {Connected(c, a) : a \in TcpAnswers(i)}

(* exchange_one gives up when the connection it falls back to fails. *)
TooBig(c, i) == TcpStep(IF mode = "one" THEN [c EXCEPT !.todo = <<Tcp(1)>>] ELSE c, i, TRUE)

(* Mutant of Accept: a busy KDC's word is final. *)
AcceptBusy(c, i, a) ==
    IF a = "big" /\ mode # "kpasswd" THEN TooBig(c, i) ELSE {Stop(c, a)}

(* Passes::accept: too big goes over TCP, a busy KDC is passed over.       *)
Accept(c, i, a) ==
    CASE a = "big" /\ mode # "kpasswd" -> TooBig(c, i)
      [] a = "svc" /\ mode = "walk" -> {Pass([c EXCEPT !.svc = TRUE])}
      [] OTHER -> {Stop(c, IF a = "reply" THEN "reply" ELSE "busy")}

Sent(c, i, a) ==
    CASE a = "late" -> {Pass([c EXCEPT !.open = @ \cup {i}, !.late = @ \cup {i}])}
      [] a = "lost" -> {Pass([c EXCEPT !.open = @ \cup {i}])}
      [] OTHER -> Accept([c EXCEPT !.open = @ \cup {i}], i, a)

(* udp_one: the socket of a server is opened once and stays open, so that  *)
(* what an earlier pass left unread is read now.                           *)
UdpStep(c, i) ==
    IF ~ Servers[i].udp \/ ~ Servers[i].found \/ c.expired THEN {Pass(c)}
    ELSE UNION {Sent(c, i, a) : a \in UdpAnswers(i) \cup (IF i \in c.late THEN {"reply"} ELSE {})}

(* backoff and wait_udp: a late answer, a dead socket, or the time is up.  *)
WaitStep(c) ==
    IF c.open = {} /\ mode = "walk" THEN {Over(c)}
    ELSE {Pass(c)}
         \cup (IF c.expired THEN {} ELSE UNION {Accept(c, i, "reply") : i \in c.late})
         \cup {Pass([c EXCEPT !.open = @ \ {i}, !.late = @ \ {i}]) : i \in c.open \ live}

(* exchange_one: a datagram error past the deadline is the end of it. *)
Step(c) ==
    LET leg == c.todo[1] IN
    CASE leg.how = "udp" -> UdpStep(c, leg.to)
      [] leg.how = "tcp" -> TcpStep(c, leg.to, FALSE)
      [] OTHER -> WaitStep(c)

Init ==
    /\ mode \in Modes
    /\ big \in BOOLEAN
    /\ live \in Lives
    /\ n = [pc |-> "send", todo |-> PlanOf, open |-> {}, late |-> {}, svc |-> FALSE,
            expired |-> FALSE, out |-> "none"]

Exchange == n.pc = "send" /\ n' \in Step(n) /\ UNCHANGED <<mode, big, live>>

(* request_deadline *)
Expire ==
    /\ n.pc = "send" /\ Limited /\ ~ n.expired
    /\ n' = [n EXCEPT !.expired = TRUE]
    /\ UNCHANGED <<mode, big, live>>

Next == Exchange \/ Expire

Spec == Init /\ [][Next]_vars /\ WF_vars(Exchange)

-----------------------------------------------------------------------------
(* A server that answers is heard however many dead, slow or busy ones the *)
(* list puts before it: unless the deadline passes, a walk does not end    *)
(* with an error or with the word of a KDC that was busy over UDP.         *)
LiveIsHeard ==
    n.pc = "ended" /\ ~ n.expired /\ (IF mode = "one" THEN 1 \in live ELSE live # {}) => n.out \in {"reply", "busy"}
=============================================================================
