------------------------------- MODULE Streams -------------------------------
(***************************************************************************)
(* The stream connections of the event loop that kadmind and the KDC share *)
(* (krb5-kdc/src/net_server.rs): accepting, the RPC record marking, the    *)
(* length-prefixed requests of kpasswd and the KDC, replies written in     *)
(* pieces, the limits on connections and records, and the deadlines.       *)
(*                                                                         *)
(* A peer's bytes are cells: a mark or a length takes Mark of them, a      *)
(* fragment as many as its length.  A read takes any number of the cells   *)
(* that are left, or none; a peer that stays silent is one nothing is read *)
(* from any more.  Ages count ticks of the clock.                          *)
(***************************************************************************)
EXTENDS Integers, Sequences, FiniteSets, SequencesExt, Functions

CONSTANTS
    Casts,       \* who connects, in order: [ip, kind, script], a script being
                 \* the records the peer sends
    Mark,        \* cells of a record mark (4 octets)
    MaxRecord,   \* max_record, in cells
    Cap,         \* the longest request of a TCP stream, below MaxRecord
    Deadline,    \* rpc_record_deadline
    Idle,        \* idle_timeout, {} or one number
    PerIp,       \* per_ip_conns, {} or one number
    MaxStreams,  \* connections kept open
    MaxFailures  \* bound on failures of accept

VARIABLES
    conns,       \* Streams::conns, in the order of the vector
    peers,       \* per connection: the cells not read yet, calls and replies
    waiting,     \* the listeners' backlogs, in the order of arrival
    paused,      \* listeners that are left alone after a failure
    loop,        \* where the loop is, and the ready descriptors still to do
    clock,       \* the second, as far as connections tell it apart
    coming,      \* who is still to connect
    failures     \* failures of accept so far

vars == <<conns, peers, waiting, paused, loop, clock, coming, failures>>

None == -1

-----------------------------------------------------------------------------
(* What a peer sends.  A record is the sequence of its fragments' lengths. *)
Cell(len, last, data) == [len |-> len, last |-> last, data |-> data]

Fragment(r, i, n) ==
    [j \in 1 .. Mark |-> Cell(r[i], i = Len(r), 0)] \o
    [j \in 1 .. r[i] |-> Cell(r[i], i = Len(r), n)]

RecordCells(r, n) == FlattenSeq([i \in DOMAIN r |-> Fragment(r, i, n)])

Cells(script) == FlattenSeq([n \in DOMAIN script |-> RecordCells(script[n], n)])

Content(r, n) == [i \in 1 .. SumFunction(r) |-> n]

(* A record takes its marks and its octets. *)
Size(r) == Mark * Len(r) + SumFunction(r)

-----------------------------------------------------------------------------
(* A connection.  off counts the cells of the mark, left those of the      *)
(* fragment, age is the time since the record was begun.                   *)
NewRead == [off |-> 0, left |-> 0, last |-> FALSE, record |-> <<>>, taken |-> 0, age |-> None]

NewConn(id, c) ==
    [id |-> id, ip |-> c.ip, kind |-> c.kind, start |-> clock, phase |-> "read", rd |-> NewRead,
     auth |-> FALSE, idle |-> 0, out |-> 0]

NewPeer(c) == [client |-> c, pos |-> 0, calls |-> <<>>, replies |-> 0]

Rest(id) ==
    SubSeq(Cells(peers[id].client.script), peers[id].pos + 1,
           Len(Cells(peers[id].client.script)))

At(id) == CHOOSE i \in DOMAIN conns : conns[i].id = id

Open(id) == \E i \in DOMAIN conns : conns[i].id = id

(* swap_remove: the last connection takes the place of the one that goes. *)
SwapRemove(s, i) ==
    IF i = Len(s) THEN Front(s) ELSE [Front(s) EXCEPT ![i] = s[Len(s)]]

-----------------------------------------------------------------------------
(* rpc_step: marks and fragments, cell by cell.                            *)
TakeMark(rd, cell) ==
    IF rd.off + 1 < Mark
    THEN [rd EXCEPT !.off = @ + 1, !.age = IF @ = None THEN 0 ELSE @]
    ELSE [rd EXCEPT !.off = Mark, !.last = cell.last, !.left = cell.len,
                    !.taken = @ + Mark + cell.len, !.age = IF @ = None THEN 0 ELSE @]

TakeOctet(rd, cell) == [rd EXCEPT !.record = Append(@, cell.data), !.left = @ - 1]


(* A fragment that is not the last one is followed by another mark. *)
NextFragment(rd) ==
    IF rd.off = Mark /\ rd.left = 0 /\ ~ rd.last THEN [rd EXCEPT !.off = 0] ELSE rd

TakeCell(rd, cell) ==
    NextFragment(IF rd.off < Mark THEN TakeMark(rd, cell) ELSE TakeOctet(rd, cell))

TooLong(rd) == rd.taken > MaxRecord
Whole(rd) == rd.off = Mark /\ rd.left = 0 /\ rd.last

(* The states a step of reading may leave: it goes on until the peer has   *)
(* nothing more for now, the record is whole or it is refused.             *)
Progress(rd, cells) ==
    FoldLeft(LAMBDA sofar, cell : Append(sofar, TakeCell(Last(sofar), cell)), <<rd>>, cells)

Stops(rd) == Whole(rd) \/ TooLong(rd)

Reached(states) ==
    {[n |-> k - 1, rd |-> states[k]] :
        k \in {j \in 2 .. Len(states) : \A i \in 1 .. j - 1 : ~ Stops(states[i])}}

ReadStates(rd, cells) == Reached(Progress(rd, cells))

-----------------------------------------------------------------------------
(* read_step of a TCP stream: one read for the length or for the body.     *)
TcpLimit(rd) == IF rd.off < Mark THEN Mark - rd.off ELSE rd.left

TcpStates(rd, cells) ==
    {r \in ReadStates(rd, cells) : r.n <= TcpLimit(rd)}

TcpTooLong(rd) == rd.off = Mark /\ rd.left + Len(rd.record) > Cap

-----------------------------------------------------------------------------
Closed(i) == conns' = SwapRemove(conns, i)

Turn == Head(loop.todo)

Done(s) == [s EXCEPT !.todo = Tail(@)]

(* The session's answer to a whole record. *)
Called(c, answer, authed) ==
    LET known == [c EXCEPT !.auth = @ \/ authed, !.idle = 0]
    IN  IF answer = "send" THEN [known EXCEPT !.phase = "write", !.out = Mark, !.rd = NewRead]
        ELSE [known EXCEPT !.rd = NewRead]

RpcCall(i, r, answer, authed) ==
    /\ peers' = [peers EXCEPT ![conns[i].id].pos = @ + r.n,
                              ![conns[i].id].calls = Append(@, r.rd.record)]
    /\ IF answer = "close" THEN Closed(i)
       ELSE conns' = [conns EXCEPT ![i] = Called(@, answer, authed)]

ReadMore(i, r) ==
    /\ conns' = [conns EXCEPT ![i].rd = r.rd, ![i].idle = 0]
    /\ peers' = [peers EXCEPT ![conns[i].id].pos = @ + r.n]

RpcStep(i) ==
    /\ conns[i].kind = "rpc"
    /\ \E r \in ReadStates(conns[i].rd, Rest(conns[i].id)) :
           \/ TooLong(r.rd) /\ Closed(i) /\ UNCHANGED peers
           \/ /\ Whole(r.rd) /\ ~ TooLong(r.rd)
              /\ \E answer \in {"send", "nothing", "close"}, authed \in BOOLEAN :
                     RpcCall(i, r, answer, authed)
           \/ ~ Whole(r.rd) /\ ~ TooLong(r.rd) /\ ReadMore(i, r)

(* A request's reply moves its connection to the end; one without a reply, *)
(* and one without a body, closes it.                                      *)
Replying(c) == [c EXCEPT !.phase = "write", !.out = Mark, !.rd = NewRead]

Respond(i, sent) ==
    conns' = IF sent THEN Append(SwapRemove(conns, i), Replying(conns[i])) ELSE SwapRemove(conns, i)

ReadStep(i) ==
    /\ conns[i].kind = "tcp"
    /\ \E r \in TcpStates(conns[i].rd, Rest(conns[i].id)) :
           \/ TcpTooLong(r.rd) /\ conns[i].rd.off < Mark /\ Respond(i, TRUE) /\ UNCHANGED peers
           \/ /\ Whole(r.rd) /\ r.rd.record # <<>>
              /\ peers' = [peers EXCEPT ![conns[i].id].pos = @ + r.n,
                                        ![conns[i].id].calls = Append(@, r.rd.record)]
              /\ \E sent \in BOOLEAN : Respond(i, sent)
           \/ ~ TcpTooLong(r.rd) /\ (~ Whole(r.rd) \/ r.rd.record = <<>>) /\ ReadMore(i, r)

(* The peer has closed, the read failed, or an empty request was announced. *)
ReadFails(i) == Closed(i) /\ UNCHANGED peers

(* readable: the descriptor may be gone by the time its turn comes. *)
Readable(i) ==
    /\ conns[i].phase = "read"
    /\ ReadFails(i) \/ RpcStep(i) \/ ReadStep(i)

(* writable: a piece of the reply; an RPC connection then reads the next   *)
(* record, a TCP one is closed.                                            *)
Written(c, n) ==
    [c EXCEPT !.idle = 0, !.out = @ - n, !.phase = IF c.out = n THEN "read" ELSE "write"]

Writable(i) ==
    /\ conns[i].phase = "write"
    /\ \/ \E n \in 1 .. conns[i].out :
              /\ peers' = [peers EXCEPT ![conns[i].id].replies =
                                            IF n = conns[i].out THEN @ + 1 ELSE @]
              /\ IF n = conns[i].out /\ conns[i].kind = "tcp" THEN Closed(i)
                 ELSE conns' = [conns EXCEPT ![i] = Written(@, n)]
       \/ ReadFails(i)

StreamEvent ==
    /\ loop.at = "events" /\ loop.todo # <<>> /\ Turn.who = "stream"
    /\ \/ Open(Turn.id) /\ Readable(At(Turn.id))
       \/ Open(Turn.id) /\ Writable(At(Turn.id))
       \/ ~ Open(Turn.id) /\ UNCHANGED <<conns, peers>>
    /\ loop' = Done(loop)
    /\ UNCHANGED <<waiting, paused, clock, coming, failures>>

-----------------------------------------------------------------------------
(* Accepting. *)
Unauthenticated(c) == c.kind = "rpc" /\ ~ c.auth

(* Mutant of Better: the age alone decides. *)
BetterByAge(c, best) == best.start > c.start

(* kill_lru goes from the last connection to the first: one that has not   *)
(* authenticated before one that has, then the one with the earlier start. *)
Better(c, best) ==
    IF Unauthenticated(c) # Unauthenticated(best) THEN Unauthenticated(c)
    ELSE best.start > c.start

Victim(s) ==
    LET candidates == [i \in 1 .. Len(s) - 1 |-> Len(s) - i]
    IN  FoldLeft(LAMBDA best, i : IF Better(s[i], s[best]) THEN i ELSE best,
                 candidates[1], candidates)

(* insert: the newest, which is the last, stays. *)
Insert(s) == IF Len(s) > MaxStreams THEN SwapRemove(s, Victim(s)) ELSE s

FromIp(ip) == {i \in DOMAIN conns : conns[i].kind = "rpc" /\ conns[i].ip = ip}

(* admit_rpc: the limit per address. *)
Admits(c) == c.kind = "rpc" => \A n \in PerIp : Cardinality(FromIp(c.ip)) < n

NextId == Cardinality(DOMAIN peers) + 1

Admit(c) ==
    /\ conns' = Insert(Append(conns, NewConn(NextId, c)))
    /\ peers' = [id \in 1 .. NextId |-> IF id = NextId THEN NewPeer(c) ELSE peers[id]]

(* The oldest of its backlog; a session that cannot be made, and a socket  *)
(* that cannot be set up, are dropped.                                     *)
Accept(i) ==
    /\ \A j \in 1 .. i - 1 : waiting[j].kind # waiting[i].kind
    /\ waiting' = RemoveAt(waiting, i)
    /\ \/ Admits(waiting[i]) /\ Admit(waiting[i])
       \/ UNCHANGED <<conns, peers>>
    /\ UNCHANGED <<paused, failures>>

(* A failure of accept that is not passing pauses the listener. *)
AcceptFails(kind) ==
    /\ failures < MaxFailures
    /\ failures' = failures + 1
    /\ paused' = paused \cup {kind}
    /\ UNCHANGED <<conns, peers, waiting>>

ListenerEvent ==
    /\ loop.at = "events" /\ loop.todo # <<>> /\ Turn.who # "stream"
    /\ \/ \E i \in DOMAIN waiting : waiting[i].kind = Turn.who /\ Accept(i)
       \/ AcceptFails(Turn.who)
    /\ loop' = Done(loop)
    /\ UNCHANGED <<clock, coming>>

-----------------------------------------------------------------------------
(* The loop: poll, the ready descriptors, the sweep.                       *)
Over(c) ==
    /\ c.kind = "rpc"
    /\ \/ c.phase = "read" /\ c.rd.age > Deadline
       \/ \E d \in Idle : c.idle > d

(* Mutant of Due: no deadline ends poll. *)
DueNever(c) == FALSE

(* next_rpc_deadline: poll ends when a record or an idle time is due. *)
Due(c) ==
    /\ c.kind = "rpc"
    /\ \/ c.phase = "read" /\ c.rd.age >= Deadline
       \/ \E d \in Idle : c.idle >= d

(* wait: the listeners that are not paused and have someone waiting, then  *)
(* the connections whose peers have done something, in their order.        *)
Listening ==
    SelectSeq(<<"tcp", "rpc">>, LAMBDA k : /\ k \notin paused
                                           /\ \E i \in DOMAIN waiting : waiting[i].kind = k)

Ids == [i \in DOMAIN conns |-> conns[i].id]

Ready(some) ==
    [i \in DOMAIN Listening |-> [who |-> Listening[i], id |-> 0]] \o
    [i \in DOMAIN some |-> [who |-> "stream", id |-> some[i]]]

Polled(some) ==
    /\ loop.at = "poll"
    /\ loop' = [at |-> "events", todo |-> Ready(some)]
    /\ UNCHANGED <<conns, peers, waiting, paused, clock, coming, failures>>

Some == {SelectSeq(Ids, LAMBDA id : id \in ids) : ids \in SUBSET ToSet(Ids)}

(* poll returns for a peer, and by itself for the backlog and a deadline. *)
PollPeers == \E some \in Some \ {<<>>} : Polled(some)

PollOwn ==
    /\ Listening # <<>> \/ \E i \in DOMAIN conns : Due(conns[i])
    /\ \E some \in Some : Polled(some)

(* sweep_rpc, at the end of every round; the order it leaves does not      *)
(* matter to what it takes.                                                *)
Sweep ==
    /\ loop.at = "events" /\ loop.todo = <<>>
    /\ conns' = SelectSeq(conns, LAMBDA c : ~ Over(c))
    /\ loop' = [at |-> "poll", todo |-> <<>>]
    /\ UNCHANGED <<peers, waiting, paused, clock, coming, failures>>

-----------------------------------------------------------------------------
(* The peers and the clock.                                                *)
Connect ==
    /\ coming # <<>>
    /\ coming' = Tail(coming)
    /\ waiting' = Append(waiting, Head(coming))
    /\ UNCHANGED <<conns, peers, paused, loop, clock, failures>>

Capped(n, limit) == IF n > limit THEN n ELSE n + 1

Aged(c) ==
    [c EXCEPT !.rd.age = IF @ = None THEN None ELSE Capped(@, Deadline),
              !.idle = IF Idle = {} THEN 0 ELSE Capped(@, CHOOSE d \in Idle : TRUE)]

(* Time passes while poll waits and while requests are handled; the pause  *)
(* of a listener ends.  A new second begins when that can be told.         *)
Tick ==
    /\ conns # <<>> \/ paused # {}
    /\ conns' = [i \in DOMAIN conns |-> Aged(conns[i])]
    /\ paused' = {}
    /\ clock' \in {clock, IF \E i \in DOMAIN conns : conns[i].start = clock
                          THEN clock + 1 ELSE clock}
    /\ UNCHANGED <<peers, waiting, loop, coming, failures>>

Init ==
    /\ conns = <<>>
    /\ peers = <<>>
    /\ waiting = <<>>
    /\ paused = {}
    /\ loop = [at |-> "poll", todo |-> <<>>]
    /\ clock = 0
    /\ coming \in Casts
    /\ failures = 0

Loop == PollOwn \/ StreamEvent \/ ListenerEvent \/ Sweep

Next == Loop \/ PollPeers \/ Tick \/ Connect

(* The loop goes on and time passes; no peer has to do anything. *)
Spec == Init /\ [][Next]_vars /\ WF_vars(Loop) /\ WF_vars(Tick)

-----------------------------------------------------------------------------
(* RecordsAreWhole: what a session or the dispatcher is called with is, in *)
(* order, what its peer sent as one record or request, however the octets  *)
(* were split into fragments and reads; none is longer than the limit, and *)
(* no more replies are written than calls were made, but for a TCP peer    *)
(* that is told its request is too long (rpc_step, read_step, writable).   *)
RecordsAreWhole ==
    \A id \in DOMAIN peers :
        LET p == peers[id]
        IN  /\ Len(p.calls) <= Len(p.client.script)
            /\ \A n \in DOMAIN p.calls :
                   /\ p.calls[n] = Content(p.client.script[n], n)
                   /\ p.client.kind = "rpc" => Size(p.client.script[n]) <= MaxRecord
                   /\ p.client.kind = "tcp" => Len(p.calls[n]) <= Cap
            /\ p.client.kind = "rpc" => p.replies <= Len(p.calls)

(* KeptFairly: there are never more connections than the limits allow, in  *)
(* all and per address; a connection that is dropped for a new one is not  *)
(* an authenticated one while another has not authenticated, nor, among    *)
(* equals, one that was made in a later second (insert, kill_lru,          *)
(* admit_rpc).                                                             *)
InLimits ==
    /\ Len(conns) <= MaxStreams
    /\ \A n \in PerIp : \A i \in DOMAIN conns : Cardinality(FromIp(conns[i].ip)) <= n

Dropped == {i \in DOMAIN conns : \A j \in DOMAIN conns' : conns'[j].id # conns[i].id}

DroppedFairly ==
    \A i \in Dropped, j \in DOMAIN conns \ Dropped :
        /\ Unauthenticated(conns[j]) => Unauthenticated(conns[i])
        /\ Unauthenticated(conns[j]) = Unauthenticated(conns[i]) =>
               conns[i].start <= conns[j].start

DropStep == ListenerEvent => DroppedFairly

KeptFairly == []InLimits /\ [][DropStep]_vars

(* StalledEnds: a record that was begun is completed, or its connection is *)
(* dropped at the deadline, even when no peer ever sends anything again;   *)
(* and whoever waits to connect is taken from the backlog, failures of     *)
(* accept notwithstanding (next_rpc_deadline, sweep_rpc, Paused).  Only    *)
(* finitely many peers come, so in the end nobody waits and nothing is     *)
(* half read.                                                              *)
Begun(c) == c.kind = "rpc" /\ c.rd.age # None

Settled == waiting = <<>> /\ \A i \in DOMAIN conns : ~ Begun(conns[i])

StalledEnds == <>[]Settled
=============================================================================
