------------------------------ MODULE KdcServer ------------------------------
(***************************************************************************)
(* The KDC's event loop (krb5-kdc/src/net_server.rs), its dispatch with    *)
(* the lookaside cache (issue/dispatch.rs, lookaside.rs) and the pool of   *)
(* OTP verifiers (plugins.rs, preauth/otp.rs).                             *)
(*                                                                         *)
(* One thread polls, handles the ready descriptors one by one, and then    *)
(* looks at every parked request.  A request that needs an OTP verifier is *)
(* handed to a worker over a bounded queue and parked; the whole request   *)
(* is processed again once the worker's verdict is in or its deadline has  *)
(* passed.  Workers, clients, the clock and an administrator who edits the *)
(* client's tokens go on between any two of the loop's steps.              *)
(***************************************************************************)
EXTENDS Integers, Sequences, FiniteSets, Functions

CONSTANTS
    Req,         \* requests, as the clients send and retransmit them
    TokenLists,  \* the OTP token lists the clients' principal may be given
    Enrolled,    \* the lists it may begin with
    Workers,     \* the pool's threads (OTP_WORKERS)
    QueueMax,    \* jobs that wait for a worker (OTP_QUEUE)
    MaxStreams,  \* max_tcp_workers, the connections kept open
    MaxSends,    \* bound on the messages clients send
    MaxChans,    \* bound on the jobs submitted
    MaxEdits     \* bound on the administrator's edits

ASSUME TokenListsAssumption == \A l \in TokenLists : l \in Seq(Range(l))
ASSUME EnrolledAssumption == Enrolled \subseteq TokenLists

(* Two tokens, of which the first may be taken away: small lists to check  *)
(* an instance with.                                                       *)
SmallEnrolled == {<<"t", "u">>}
SmallTokenLists == SmallEnrolled \cup {<<"u">>}

Udp == 0         \* the target of a datagram's reply; a connection's is its id

VARIABLES
    conns,      \* Streams::conns; ids grow, so the lowest is the oldest
    cache,      \* the lookaside's entries, oldest first: [req, reply]
    parks,      \* the parked requests: [req, target, index, chan]
    loop,       \* where the loop is
    pipe,       \* whether the pool's wake pipe has a byte in it
    queue,      \* the pool's queue of channels
    worker,     \* what each worker is doing
    chans,      \* the verdict channels: [verdict, token, late]
    tokens,     \* the client's token list in the database
    sends,      \* messages sent so far
    edits,      \* edits made so far
    dropped     \* history: the parked requests whose mark an insert dropped

vars == <<conns, cache, parks, loop, pipe, queue, worker, chans, tokens, sends,
          edits, dropped>>

poolVars == <<queue, worker, chans, pipe>>

-----------------------------------------------------------------------------
Ids == 1 .. MaxSends + 1
Mark == "in progress"
Replies == {"ticket", "error"}
Entry == [req : Req, reply : Replies \cup {Mark}]
Conn == [id : Ids, req : Req, io : {"read", "parked", "write"}]
Chan == [verdict : {"none", "accept", "reject", "error", "dropped", "unheard"},
         token : UNION {Range(l) : l \in TokenLists}, late : BOOLEAN]
Park == [req : Req, target : {Udp} \cup Ids, index : 1 .. 2, chan : 1 .. MaxChans]
Event == [kind : {"wake", "udp", "listener"}] \cup [kind : {"conn"}, id : Ids]

AllParks == Range(parks) \cup IF loop.at = "resolve" THEN Range(loop.todo) ELSE {}

Idle == [at |-> "idle"]
Polling == [at |-> "poll"]

Init ==
    /\ conns = {}
    /\ cache = <<>>
    /\ parks = <<>>
    /\ loop = Polling
    /\ pipe = FALSE
    /\ queue = <<>>
    /\ worker = [w \in Workers |-> Idle]
    /\ chans = <<>>
    /\ tokens \in Enrolled
    /\ sends = 0
    /\ edits = 0
    /\ dropped = {}

-----------------------------------------------------------------------------
(* The administrator and the clock. *)

(* An edit while nothing is parked is another list to begin with. *)
EditTokens(l) ==
    /\ edits < MaxEdits
    /\ sends <= MaxSends
    /\ AllParks # {}
    /\ l # tokens
    /\ edits' = edits + 1
    /\ tokens' = l
    /\ UNCHANGED <<conns, cache, parks, loop, poolVars, sends, dropped>>

(* A deadline matters while there is no verdict: a verdict that is in is   *)
(* taken whether or not the deadline has passed since.                     *)
DeadlinePasses(c) ==
    /\ \E p \in AllParks : p.chan = c
    /\ chans[c].verdict = "none"
    /\ ~chans[c].late
    /\ chans' = [chans EXCEPT ![c].late = TRUE]
    /\ UNCHANGED <<conns, cache, parks, loop, pipe, queue, worker, tokens, sends, edits, dropped>>

-----------------------------------------------------------------------------
(* The pool's workers. *)

(* A job past its deadline is skipped and its sender dropped. *)
TakeJob(w) ==
    /\ worker[w] = Idle
    /\ queue # <<>>
    /\ queue' = Tail(queue)
    /\ IF chans[Head(queue)].late
       THEN /\ chans' = [chans EXCEPT ![Head(queue)].verdict = "dropped"]
            /\ UNCHANGED worker
       ELSE /\ worker' = [worker EXCEPT ![w] = [at |-> "verify", chan |-> Head(queue)]]
            /\ UNCHANGED chans
    /\ UNCHANGED <<conns, cache, parks, loop, pipe, tokens, sends, edits, dropped>>

(* The verifier answers, or panics; the verdict is in the channel before   *)
(* the loop is woken.                                                      *)
SendVerdict(w, v) ==
    /\ worker[w].at = "verify"
    /\ LET c == worker[w].chan
       IN /\ chans' = IF chans[c].verdict = "unheard" THEN chans
                      ELSE [chans EXCEPT ![c].verdict = v]
          /\ worker' = [worker EXCEPT ![w] = [at |-> "wake"]]
    /\ UNCHANGED <<conns, cache, parks, loop, pipe, queue, tokens, sends, edits, dropped>>

WakeLoop(w) ==
    /\ worker[w].at = "wake"
    /\ pipe' = TRUE
    /\ worker' = [worker EXCEPT ![w] = Idle]
    /\ UNCHANGED <<conns, cache, parks, loop, queue, chans, tokens, sends, edits, dropped>>

-----------------------------------------------------------------------------
(* The lookaside cache. *)

(* What an insert may leave of the cache: it drops the oldest entries, for *)
(* their age or for room, a mark like any other.                           *)
Evicted(c) == {SubSeq(c, n + 1, Len(c)) : n \in 0 .. Len(c)}

Inserted(c, r, reply) == {Append(d, [req |-> r, reply |-> reply]) : d \in Evicted(c)}

(* discard: the map has one entry of a request at most. *)
Without(c, r) ==
    IF \A i \in 1 .. Len(c) : c[i].req # r THEN c
    ELSE LET k == CHOOSE i \in 1 .. Len(c) : c[i].req = r
         IN SubSeq(c, 1, k - 1) \o SubSeq(c, k + 1, Len(c))

FinishedAlways(c, r, kind) ==
    IF kind \in Replies THEN Inserted(Without(c, r), r, kind) ELSE {Without(c, r)}

(* finish_dispatch_cache: a reply replaces the mark, a failure or a panic  *)
(* removes it, a discarded request and a parked one keep it.               *)
Finished(c, r, kind) ==
    CASE kind \in Replies -> Inserted(Without(c, r), r, kind)
      [] kind \in {"refused", "panic"} -> {Without(c, r)}
      [] kind \in {"discard", "parked"} -> {c}

-----------------------------------------------------------------------------
(* One pass over a request: what it comes to, and the token it waits for.  *)

Outcome(kind) == [kind |-> kind, index |-> 1]

(* The job goes on the queue and the request is parked, or the queue is    *)
(* full and the client is refused.                                         *)
Submitted(i) ==
    IF Len(queue) < QueueMax THEN [kind |-> "parked", index |-> i] ELSE Outcome("error")

(* A request may be answered, dropped or refused before or without an OTP. *)
FirstPass ==
    {Outcome("error"), Outcome("discard"), Outcome("refused"), Outcome("panic"),
     IF tokens = <<>> THEN Outcome("error") ELSE Submitted(1)}

VerdictUnbound(p, v) ==
    IF p.index > Len(tokens) THEN Outcome("error")
    ELSE CASE v = "accept" -> Outcome("ticket")
           [] v = "reject" /\ p.index < Len(tokens) -> Submitted(p.index + 1)
           [] OTHER -> Outcome("error")

(* otp_verify with a verdict: the tokens before it are skipped, the one at *)
(* its place must be the one that was verified.                            *)
Verdict(p, v) ==
    IF p.index > Len(tokens) \/ tokens[p.index] # chans[p.chan].token THEN Outcome("error")
    ELSE CASE v = "accept" -> Outcome("ticket")
           [] v = "reject" /\ p.index < Len(tokens) -> Submitted(p.index + 1)
           [] OTHER -> Outcome("error")

(* The request is looked at from the start, so it may fail before the OTP. *)
LaterPass(p, v) == {Outcome("error"), Outcome("panic"), Verdict(p, v)}

(* A connection's reply is written to it; without one it is dropped. *)
Answered(target, kind) ==
    {c \in conns : c.id # target} \cup
    {[c EXCEPT !.io = "write"] : c \in {d \in conns : d.id = target /\ kind \in Replies}}

Parked(target) ==
    {[c EXCEPT !.io = IF c.id = target THEN "parked" ELSE @] : c \in conns}

(* What a pass leaves behind, from the cache c and the channels ch it ran  *)
(* with.                                                                   *)
Conclude(c, ch, r, target, o) ==
    /\ cache' \in Finished(c, r, o.kind)
    /\ IF o.kind = "parked"
       THEN /\ Len(ch) < MaxChans
            /\ chans' = Append(ch, [verdict |-> "none", token |-> tokens[o.index],
                                    late |-> FALSE])
            /\ queue' = Append(queue, Len(ch) + 1)
            /\ parks' = Append(parks, [req |-> r, target |-> target, index |-> o.index,
                                       chan |-> Len(ch) + 1])
            /\ conns' = Parked(target)
       ELSE /\ conns' = Answered(target, o.kind)
            /\ chans' = ch
            /\ UNCHANGED <<parks, queue>>
    /\ dropped' = {x \in Req : /\ \E p \in AllParks' : p.req = x
                               /\ \/ x \in dropped
                                  \/ x # r /\ \A e \in Range(cache') : e.req # x}

(* A retransmit is answered from the cache, or dropped while its request   *)
(* is in progress.                                                         *)
Dispatch(r, target) ==
    /\ \/ \E e \in Range(cache) :
              /\ e.req = r
              /\ conns' = Answered(target, e.reply)
              /\ UNCHANGED <<cache, parks, chans, queue, dropped>>
       \/ /\ \A e \in Range(cache) : e.req # r
          /\ \E c \in Inserted(cache, r, Mark), o \in FirstPass : Conclude(c, chans, r, target, o)
    /\ UNCHANGED <<pipe, worker, tokens, edits>>

-----------------------------------------------------------------------------
(* The loop. *)

(* A request whose mark was dropped may come once more than the bound has  *)
(* it, as a datagram and in place of an edit.                              *)
Arrivals ==
    {new \in SUBSET {"udp", "listener"} :
        \/ new # {} => sends + Cardinality(new) <= MaxSends
        \/ new = {"udp"} /\ sends = MaxSends /\ edits < MaxEdits /\ dropped # {}}

PollForever(S, new) ==
    /\ loop = Polling
    /\ pipe \/ new # {} \/ S # {} \/ \E c \in conns : c.io = "write"
    /\ loop' = [at |-> "events",
                batch |-> {e \in {[kind |-> "wake"]} : pipe}
                          \cup {[kind |-> k] : k \in new}
                          \cup {[kind |-> "conn", id |-> c.id] :
                                  c \in S \cup {d \in conns : d.io = "write"}}]
    /\ UNCHANGED <<conns, cache, parks, poolVars, tokens, sends, edits, dropped>>

(* poll returns with every descriptor that is ready, or at the earliest    *)
(* deadline of a parked request.  The kernel has a datagram or a           *)
(* connection for the loop, and the connections S have sent something, as  *)
(* the peers choose; a reply fits the socket's buffer, so a connection     *)
(* with one can be written to; a parked connection is not polled.          *)
Poll(S, new) ==
    /\ loop = Polling
    /\ LET ready == {e \in {[kind |-> "wake"]} : pipe}
                    \cup {[kind |-> k] : k \in new}
                    \cup {[kind |-> "conn", id |-> c.id] :
                            c \in S \cup {d \in conns : d.io = "write"}}
       IN /\ ready # {} \/ \E i \in 1 .. Len(parks) : chans[parks[i].chan].late
          /\ loop' = [at |-> "events", batch |-> ready]
    /\ UNCHANGED <<conns, cache, parks, poolVars, tokens, sends, edits, dropped>>

Handles(e) ==
    /\ loop.at = "events"
    /\ e \in loop.batch
    /\ loop' = [loop EXCEPT !.batch = @ \ {e}]

NoneOf(kinds) == \A e \in loop.batch : e.kind \notin kinds

DrainWake ==
    /\ Handles([kind |-> "wake"])
    /\ pipe' = FALSE
    /\ UNCHANGED <<conns, cache, parks, queue, worker, chans, tokens, sends, edits, dropped>>

ProcessPacket(r) ==
    /\ Handles([kind |-> "udp"])
    /\ NoneOf({"wake"})
    /\ sends = MaxSends => r \in dropped
    /\ sends' = sends + 1
    /\ Dispatch(r, Udp)

(* kill_lru: neither the newest connection nor a parked one. *)
Victims(new) == {c \in conns : c.io # "parked"}

(* Over the limit, the oldest goes. *)
Accept(r) ==
    /\ Handles([kind |-> "listener"])
    /\ NoneOf({"wake", "udp"})
    /\ sends' = sends + 1
    /\ LET new == [id |-> sends + 1, req |-> r, io |-> "read"]
           old == Victims(new)
       IN conns' = (IF Cardinality(conns) < MaxStreams THEN conns
                    ELSE {c \in conns : c \notin old \/ \E d \in old : d.id < c.id}) \cup {new}
    /\ UNCHANGED <<cache, parks, poolVars, tokens, edits, dropped>>

(* A connection's turn.  One that was dropped since the poll has none.     *)
ConnTurn(id) ==
    /\ Handles([kind |-> "conn", id |-> id])
    /\ NoneOf({"wake", "udp", "listener"})

Gone(id) ==
    /\ ConnTurn(id)
    /\ \A c \in conns : c.id # id
    /\ UNCHANGED <<conns, cache, parks, poolVars, tokens, sends, edits, dropped>>

(* The peer closes, or sends too little, or its length is over the limit   *)
(* and is answered.                                                        *)
ReadEnds(c) ==
    /\ ConnTurn(c.id)
    /\ c.io = "read"
    /\ conns' \in {conns \ {c}, Answered(c.id, "error")}
    /\ UNCHANGED <<cache, parks, poolVars, tokens, sends, edits, dropped>>

ReadRequest(c) ==
    /\ ConnTurn(c.id)
    /\ c.io = "read"
    /\ Dispatch(c.req, c.id)
    /\ UNCHANGED sends

(* The reply is written, or cannot be; the connection closes either way. *)
WriteReply(c) ==
    /\ ConnTurn(c.id)
    /\ c.io = "write"
    /\ conns' = conns \ {c}
    /\ UNCHANGED <<cache, parks, poolVars, tokens, sends, edits, dropped>>

(* resolve_parks takes the whole list and reads the clock once. *)
BeginResolve ==
    /\ loop.at = "events"
    /\ loop.batch = {}
    /\ loop' = IF parks = <<>> THEN Polling
               ELSE [at |-> "resolve", todo |-> parks,
                     late |-> {p \in Range(parks) : chans[p.chan].late}]
    /\ parks' = <<>>
    /\ UNCHANGED <<conns, cache, poolVars, tokens, sends, edits, dropped>>

(* No verdict and time left: it waits on. *)
KeepWaiting ==
    /\ loop.at = "resolve"
    /\ loop.todo # <<>>
    /\ LET p == Head(loop.todo)
       IN /\ chans[p.chan].verdict = "none"
          /\ p \notin loop.late
          /\ parks' = Append(parks, p)
    /\ loop' = [loop EXCEPT !.todo = Tail(@)]
    /\ UNCHANGED <<conns, cache, poolVars, tokens, sends, edits, dropped>>

(* The request is processed again with the verdict, or with a time-out. *)
Resume ==
    /\ loop.at = "resolve"
    /\ loop.todo # <<>>
    /\ loop' = [loop EXCEPT !.todo = Tail(@)]
    /\ LET p == Head(loop.todo)
           v == IF chans[p.chan].verdict \in {"none", "dropped"} THEN "timeout"
                ELSE chans[p.chan].verdict
       IN /\ chans[p.chan].verdict # "none" \/ p \in loop.late
          /\ \E o \in LaterPass(p, v) :
                Conclude(cache, [chans EXCEPT ![p.chan].verdict = "unheard",
                                              ![p.chan].late = TRUE],
                         p.req, p.target, o)
    /\ UNCHANGED <<pipe, worker, tokens, sends, edits>>

EndResolve ==
    /\ loop.at = "resolve"
    /\ loop.todo = <<>>
    /\ loop' = Polling
    /\ UNCHANGED <<conns, cache, parks, poolVars, tokens, sends, edits, dropped>>

LoopStep ==
    \/ \E S \in SUBSET {c \in conns : c.io = "read"}, new \in Arrivals : Poll(S, new)
    \/ DrainWake
    \/ \E r \in Req : ProcessPacket(r)
    \/ \E r \in Req : Accept(r)
    \/ \E id \in Ids : Gone(id)
    \/ \E c \in conns : ReadEnds(c)
    \/ \E c \in conns : ReadRequest(c)
    \/ \E c \in conns : WriteReply(c)
    \/ BeginResolve
    \/ KeepWaiting
    \/ Resume
    \/ EndResolve

Next ==
    \/ \E l \in TokenLists : EditTokens(l)
    \/ \E i \in 1 .. Len(chans) : DeadlinePasses(i)
    \/ \E w \in Workers : TakeJob(w)
    \/ \E w \in Workers, v \in {"accept", "reject", "error"} : SendVerdict(w, v)
    \/ \E w \in Workers : WakeLoop(w)
    \/ LoopStep

Spec == Init /\ [][Next]_vars

(* The loop is always run, time passes, and a worker with a verdict wakes  *)
(* the loop; a verifier may hang.                                          *)
FairSpec ==
    /\ Spec
    /\ WF_vars(LoopStep)
    /\ \A w \in Workers : WF_vars(WakeLoop(w))
    /\ WF_vars(\E i \in 1 .. Len(chans) : DeadlinePasses(i))

-----------------------------------------------------------------------------
(* Every variable has its type, the pool's queue stays within its bound    *)
(* and no request is on it twice (plugins.rs, OTP_QUEUE).                  *)
TypeOK ==
    /\ conns \subseteq Conn
    /\ cache \in Seq(Entry)
    /\ AllParks \subseteq Park
    /\ loop.at \in {"poll", "events", "resolve"}
    /\ pipe \in BOOLEAN
    /\ Len(queue) <= QueueMax /\ IsInjective(queue)
    /\ \A w \in Workers : worker[w].at \in {"idle", "verify", "wake"}
    /\ chans \in Seq(Chan)
    /\ tokens \in TokenLists
    /\ dropped \subseteq Req

(* The loop never sleeps on a verdict: whenever it is about to poll and a  *)
(* parked request's verdict is in its channel, the wake pipe is readable   *)
(* or the worker is about to write to it (net_server.rs drains the pipe    *)
(* before it looks at the channels; plugins.rs sends before it wakes).     *)
NoLostWakeup ==
    loop = Polling =>
        \A p \in Range(parks) :
            chans[p.chan].verdict \in {"accept", "reject", "error"} =>
                pipe \/ \E w \in Workers : worker[w].at = "wake"

(* A parked connection is open, unread and waiting for its own request     *)
(* until that is resumed, however many connections arrive in between, and  *)
(* no connection stays parked without a parked request to resume it        *)
(* (net_server.rs, kill_lru and resume_one).                               *)
ParkedConnsResume ==
    /\ \A p \in AllParks : p.target # Udp =>
           \E c \in conns : c.id = p.target /\ c.io = "parked" /\ c.req = p.req
    /\ \A c \in conns : c.io = "parked" => \E p \in AllParks : p.target = c.id

(* A request has one verification at a time: retransmits of it, by either  *)
(* transport, are dropped while it is parked, and a later one is answered  *)
(* from the cache (dispatch.rs: "OTP verify pending: hold the lookaside    *)
(* mark; the loop resumes us").  The mark is an entry of the cache like    *)
(* any other: a request whose mark an insert dropped, for its age or for   *)
(* room, while it was parked is verified again when it comes again.        *)
OneVerification ==
    \A p, q \in AllParks : p.req = q.req /\ p.req \notin dropped => p = q

Granted(r) ==
    /\ [req |-> r, reply |-> "ticket"] \in Range(cache')
    /\ [req |-> r, reply |-> "ticket"] \notin Range(cache)

(* A ticket is granted only on a verifier's accept of a token the client   *)
(* still has when its request is processed again (otp.rs: "Bind the        *)
(* verdict to its token").                                                 *)
GrantsAreAccepted ==
    [][\A r \in Req : Granted(r) =>
          \E p \in AllParks : /\ p.req = r
                              /\ chans[p.chan].verdict = "accept"
                              /\ chans[p.chan].token \in Range(tokens)]_vars

(* Every parked request is processed again, even if its verifier hangs     *)
(* (net_server.rs, the poll's time-out and resolve_parks).                 *)
Resolved ==
    \A i \in 1 .. MaxChans :
        (\E p \in AllParks : p.chan = i) ~> (\A p \in AllParks : p.chan # i)

(* The loop never sleeps over a verdict that has come, a parked            *)
(* connection is still there when its request is processed again, and a    *)
(* request has one verification at a time unless the cache dropped its     *)
(* mark, however clients retransmit and connections are evicted            *)
(* (NoLostWakeup, ParkedConnsResume and OneVerification).                  *)
ParkedRequestsHold == NoLostWakeup /\ ParkedConnsResume /\ OneVerification
=============================================================================
