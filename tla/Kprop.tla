-------------------------------- MODULE Kprop --------------------------------
(***************************************************************************)
(* A database sent to a replica (krb5-admin/src/kprop.rs, kprop/send.rs,   *)
(* kprop/poll.rs, kadm5/iprop.rs, bin/krb5-kprop.rs, bin/krb5-kpropd.rs).  *)
(* A sender is the kprop command or the thread kadmind starts for a full   *)
(* resync.  kpropd takes a connection in a thread of its own, one of which *)
(* at a time receives a dump, starts kdb5_util to load it, and answers;    *)
(* beside them its poller asks the primary for updates.  A dump is a       *)
(* number of blocks; a connection delivers in order until it is cut.       *)
(***************************************************************************)
EXTENDS Integers, Sequences, FiniteSets

CONSTANTS
    Commands,     \* the kprop commands
    Kadmind,      \* kadmind's thread for a full resync
    Primary,      \* who kadmind is: [vers, ticket, name]
    Peers,        \* who runs the commands
    Acl,          \* the names kpropd's ACL file holds
    Keytabs,      \* what kpropd's keytab may be: sequences of entries
    Expected,     \* the server name kpropd answers to, or "any"
    Blocks,       \* the blocks of a dump
    InFlight,     \* bound: the messages on their way to the replica
    MaxRuns,      \* bound: how often a sender runs
    MaxVersion,   \* bound: the changes of the primary
    MaxFaults     \* bound: failures the environment brings

VARIABLES
    primary,  \* its log's last and oldest: [ver, start]
    snd,      \* each sender: [pc, runs, peer, ver, sent]
    net,      \* each connection: [up, toR, toS]
    hnd,      \* its thread in kpropd: [pc, want, got, lost]
    turn,     \* the thread that holds ONE_AT_A_TIME, or nobody
    file,     \* the dump the replica received last
    loads,    \* each kdb5_util: [pc, text]
    rdb,      \* the dump the replica's database is
    loaded,   \* history: the senders whose last dump was loaded, whole, by its own kdb5_util
    pl,       \* the poller: [pc, fr]
    faults

Senders == Commands \cup {Kadmind}
vars == <<primary, snd, net, hnd, turn, file, loads, rdb, loaded, pl, faults>>

Nobody == "nobody"
ASSUME NobodyAssumption == Nobody \notin Senders   \* it stands for no thread
NoText == [from |-> Nobody, ver |-> 0, whole |-> TRUE]
NoHandler == [pc |-> "none", want |-> 0, got |-> 0, lost |-> FALSE]
Closed == [up |-> FALSE, toR |-> <<>>, toS |-> <<>>]
NoPoller == [pc |-> "init", fr |-> FALSE]

Init ==
    /\ primary = [ver |-> 1, start |-> 1]
    /\ \E peers \in [Commands -> Peers] :
         snd = [s \in Senders |-> [pc |-> "idle", runs |-> 0, ver |-> 0, sent |-> 0,
                                  peer |-> IF s = Kadmind THEN Primary ELSE peers[s]]]
    /\ net = [s \in Senders |-> Closed]
    /\ hnd = [s \in Senders |-> NoHandler]
    /\ turn = Nobody
    /\ file = NoText /\ rdb = NoText
    /\ loads = [s \in Senders |-> [pc |-> "none", text |-> NoText]]
    /\ loaded = {}
    /\ pl = NoPoller
    /\ faults = 0

Fault == faults < MaxFaults /\ faults' = faults + 1

-----------------------------------------------------------------------------
(* kpropd's keytab.  An entry and a ticket are [name, kvno, etype, key]; a *)
(* kvno of 0 asks for any.                                                 *)

(* sname_match with the server name kpropd answers to. *)
SnameMatch(entry) == Expected \in {"any", entry.name}

(* kt_get_entry: of the entries with the name and the encryption type, the *)
(* one with the kvno, or with the low byte of it, else the newest.         *)
KtGetEntry(kt, t) ==
    SelectSeq(kt, LAMBDA e : /\ e.name = t.name /\ e.etype = t.etype
                             /\ t.kvno \in {0, e.kvno} \/ e.kvno = t.kvno % 256)

MoreRecent(found, i, j) == found[i].kvno > found[j].kvno \/ (found[i].kvno = found[j].kvno /\ i > j)

Entry(found) ==
    LET newest == {i \in DOMAIN found : \A j \in DOMAIN found \ {i} : MoreRecent(found, i, j)}
    IN  {found[i] : i \in newest}

DecryptTicketPart(found, t, own) ==
    IF \E e \in found : e.key = t.key THEN "key"
    ELSE IF ~ own THEN "NOT_US"
    ELSE IF found = {} THEN "BADKEYVER" ELSE "BAD_INTEGRITY"

(* kpropd_ticket_key with a server name: the entry of that name, or none.  *)
(* Without one every entry that matches is tried.                          *)
Named(kt, t) ==
    IF \E i \in DOMAIN kt : kt[i].name = Expected
    THEN DecryptTicketPart(Entry(KtGetEntry(kt, [t EXCEPT !.name = Expected])), t, t.name = Expected)
    ELSE "NOKEY"

Walked(kt, t) ==
    IF \E i \in DOMAIN kt : kt[i].key = t.key /\ kt[i].etype = t.etype THEN "key"
    ELSE IF kt = <<>> THEN "NOKEY"
    ELSE IF \A i \in DOMAIN kt : kt[i].name # t.name THEN "NOT_US"
    ELSE IF \A i \in DOMAIN kt : kt[i].kvno # t.kvno \/ kt[i].etype # t.etype THEN "BADKEYVER"
    ELSE "BAD_INTEGRITY"

TicketKey(kt, t) ==
    IF Expected = "any" THEN Walked(SelectSeq(kt, SnameMatch), t) ELSE Named(kt, t)

(* kpropd_authorized_principal: a line of the ACL file. *)
Authorized(name) == name \in Acl

-----------------------------------------------------------------------------
(* The primary, and the senders. *)

(* A change of the primary; now and then its log starts anew. *)
Change ==
    /\ primary.ver < MaxVersion
    /\ \E start \in {primary.start, primary.ver + 1} :
         primary' = [ver |-> primary.ver + 1, start |-> start]
    /\ UNCHANGED <<snd, net, hnd, turn, file, loads, rdb, loaded, pl, faults>>

(* A sender's end.  The peer reads what was written before it sees the     *)
(* connection closed.                                                      *)
Ends(s, how) == snd' = [snd EXCEPT ![s].pc = how]
Hangs(s) == net' = [net EXCEPT ![s].up = FALSE]
Stops(s) == Ends(s, "failed") /\ Hangs(s)

ToReplica(s, m) == net' = [net EXCEPT ![s].toR = Append(@, m)]

senderKeeps == UNCHANGED <<primary, hnd, turn, file, loads, rdb, pl>>
senderLeaves == senderKeeps /\ UNCHANGED loaded

(* A sender at rest, its last transfer over on both sides. *)
Rests(s) ==
    /\ snd[s].pc \in {"idle", "done", "failed"} /\ ~ net[s].up
    /\ hnd[s].pc = "none" /\ loads[s].pc = "none"

(* The kprop command is run. *)
Run(s) ==
    /\ Rests(s) /\ snd[s].runs < MaxRuns
    /\ snd' = [snd EXCEPT ![s].pc = "open", ![s].runs = @ + 1]
    /\ UNCHANGED <<net, faults>>
    /\ senderLeaves

(* KpropDump::open: the dump of some version, if its mark covers it.       *)
(* kadmind's thread has run conditional_iprop_dump_fresh before it.        *)
Dumps(s) ==
    IF s = Kadmind THEN {[ver |-> primary.ver, marked |-> TRUE]}
    ELSE [ver : 1 .. primary.ver, marked : BOOLEAN]
DumpOkCovers(dump) == dump.marked

(* krb5-kprop's main, resync_dump_and_send: the tickets, the dump, the     *)
(* connection, and the two versions on it.                                 *)
Open(s) ==
    /\ snd[s].pc = "open"
    /\ loaded' = loaded \ {s}
    /\ \E dump \in Dumps(s) :
       IF DumpOkCovers(dump) /\ pl.pc # "ended"
       THEN /\ snd' = [snd EXCEPT ![s].pc = "versions", ![s].ver = dump.ver, ![s].sent = 0]
            /\ net' = [net EXCEPT ![s] = [up |-> TRUE, toR |-> <<snd[s].peer.vers>>, toS |-> <<>>]]
       ELSE Stops(s)
    /\ UNCHANGED faults
    /\ senderKeeps

(* What the sender reads next; a closed connection ends it. *)
Heard(s) == net[s].toS # <<>>
Cut(s) == ~ Heard(s) /\ ~ net[s].up

Reads(s, next, answer) ==
    net' = [net EXCEPT ![s].toS = Tail(@), ![s].toR = @ \o answer,
                       ![s].up = @ /\ next # "failed"]
    /\ Ends(s, next)

(* kprop_sendauth: the result byte, then the AP-REQ; an empty message and  *)
(* the AP-REP, or a KRB-ERROR.                                             *)
Sendauth(s) ==
    /\ snd[s].pc \in {"versions", "apreq"} /\ Heard(s)
    /\ CASE snd[s].pc = "versions" /\ Head(net[s].toS) = "zero" -> Reads(s, "apreq", <<"apreq">>)
         [] snd[s].pc = "apreq" /\ Head(net[s].toS) = "aprep" -> Reads(s, "send", <<"size">>)
         [] OTHER -> Reads(s, "failed", <<>>)
    /\ UNCHANGED faults
    /\ senderLeaves

(* kprop_xmit_database: a block; the read of the dump may fail, and then   *)
(* the size does not fit.                                                  *)
Block(s) ==
    /\ snd[s].pc = "send" /\ net[s].up
    /\ snd[s].sent < Blocks /\ Len(net[s].toR) < InFlight
    /\ ToReplica(s, "block")
    /\ snd' = [snd EXCEPT ![s].sent = @ + 1]
    /\ UNCHANGED faults
    /\ senderLeaves

PrematureEof(s) ==
    /\ snd[s].pc = "send" /\ net[s].up
    /\ snd[s].sent < Blocks /\ Fault
    /\ ToReplica(s, "error")
    /\ Ends(s, "failed")
    /\ senderLeaves

AllSent(s) ==
    /\ snd[s].pc = "send" /\ snd[s].sent = Blocks
    /\ Ends(s, "answer")
    /\ UNCHANGED <<net, faults>>
    /\ senderLeaves

(* The answer: the size that was sent, in a KRB-SAFE, or a KRB-ERROR. *)
Answered(m) == IF m = "size" THEN "done" ELSE "failed"

Answer(s) ==
    /\ snd[s].pc = "answer" /\ Heard(s)
    /\ Reads(s, Answered(Head(net[s].toS)), <<>>)
    /\ UNCHANGED faults
    /\ senderLeaves

(* kprop_get_tickets: no credentials from the KDC. *)
NoTickets(s) ==
    /\ snd[s].pc = "open" /\ Fault
    /\ Ends(s, "failed")
    /\ UNCHANGED net
    /\ senderLeaves

(* A read or a write fails on a closed connection. *)
SenderCut(s) ==
    /\ snd[s].pc \in {"versions", "apreq", "send", "answer"} /\ Cut(s)
    /\ Stops(s)
    /\ UNCHANGED faults
    /\ senderLeaves

(* The connection is lost, with what was on its way. *)
Loses(s) ==
    /\ net[s].up /\ Fault
    /\ net' = [net EXCEPT ![s] = Closed]
    /\ UNCHANGED snd
    /\ senderLeaves

-----------------------------------------------------------------------------
(* kpropd's threads. *)
handlerLeaves == UNCHANGED <<primary, snd, rdb, loaded, pl>>

Listening == pl.pc # "ended"

(* kpropd's accept loop.  The senders here are fewer than MAX_HANDLERS; it *)
(* is a fault when other connections hold the rest, and the connection is  *)
(* closed.                                                                 *)
Accept(s) ==
    /\ Listening
    /\ net[s].up /\ hnd[s].pc = "none" /\ snd[s].pc = "versions" /\ net[s].toR # <<>> /\ net[s].toS = <<>>
    /\ \/ /\ hnd' = [hnd EXCEPT ![s] = [NoHandler EXCEPT !.pc = "queued"]]
          /\ UNCHANGED <<net, faults>>
       \/ /\ Fault
          /\ Hangs(s)
          /\ UNCHANGED hnd
    /\ UNCHANGED <<turn, file, loads>>
    /\ handlerLeaves

(* turn_within: the lock is free. *)
TurnFree == turn = Nobody

TakeTurn(s) ==
    /\ hnd[s].pc = "queued" /\ TurnFree
    /\ turn' = s
    /\ hnd' = [hnd EXCEPT ![s].pc = "versions"]
    /\ UNCHANGED <<net, file, loads, faults>>
    /\ handlerLeaves

(* The end of a thread: the connection closes and the turn is passed on. *)
GivesBack(s) == turn' = IF turn = s THEN Nobody ELSE turn
Leaves(s) == GivesBack(s) /\ hnd' = [hnd EXCEPT ![s] = NoHandler]

(* host_keys: no keytab, no transfer. *)
NoHostKeys(s) ==
    /\ hnd[s].pc = "versions" /\ Fault
    /\ Hangs(s) /\ Leaves(s)
    /\ UNCHANGED <<file, loads>>
    /\ handlerLeaves

(* read_message; a KRB-ERROR, or the end of the stream, ends the transfer. *)
Comes(s) == net[s].toR # <<>>
Take(s, reply) == net' = [net EXCEPT ![s].toR = Tail(@), ![s].toS = @ \o reply]
TakeLast(s, reply) == net' = [net EXCEPT ![s].toR = Tail(@), ![s].toS = @ \o reply, ![s].up = FALSE]

(* recvauth_with: the sendauth version and the application's. *)
RecvVersions(s) ==
    /\ hnd[s].pc = "versions" /\ Comes(s)
    /\ IF Head(net[s].toR) = "kprop5_01"
       THEN Take(s, <<"zero">>) /\ hnd' = [hnd EXCEPT ![s].pc = "apreq"] /\ UNCHANGED turn
       ELSE TakeLast(s, <<"badvers">>) /\ Leaves(s)
    /\ UNCHANGED <<file, loads, faults>>
    /\ handlerLeaves

(* The KRB-ERROR that answers an AP-REQ, or a message of the transfer. *)
ErrorReply == <<"error">>

(* The AP-REQ: the key, the verification, the AP-REP; doit then looks the  *)
(* client up in the ACL and hangs up on a stranger.                        *)
RecvApReq(s) ==
    /\ hnd[s].pc = "apreq" /\ Comes(s)
    /\ \E kt \in Keytabs :
         IF TicketKey(kt, snd[s].peer.ticket) # "key" THEN TakeLast(s, ErrorReply) /\ Leaves(s)
         ELSE IF ~ Authorized(snd[s].peer.name) THEN TakeLast(s, <<"aprep">>) /\ Leaves(s)
         ELSE /\ Take(s, <<"aprep">>)
              /\ hnd' = [hnd EXCEPT ![s].pc = "size"] /\ UNCHANGED turn
    /\ UNCHANGED <<file, loads, faults>>
    /\ handlerLeaves

(* recv_database: the size. *)
RecvSize(s) ==
    /\ hnd[s].pc = "size" /\ Comes(s)
    /\ Take(s, <<>>)
    /\ hnd' = [hnd EXCEPT ![s].pc = "blocks", ![s].want = Blocks]
    /\ UNCHANGED <<turn, file, loads, faults>>
    /\ handlerLeaves

(* A block.  One that cannot be written is reported to the sender, and     *)
(* the transfer goes on.                                                   *)
RecvBlock(s) ==
    /\ hnd[s].pc = "blocks" /\ hnd[s].got < hnd[s].want
    /\ Comes(s) /\ Head(net[s].toR) = "block"
    /\ \/ /\ Take(s, <<>>)
          /\ hnd' = [hnd EXCEPT ![s].got = @ + 1]
          /\ UNCHANGED faults
       \/ /\ Fault
          /\ Take(s, ErrorReply)
          /\ hnd' = [hnd EXCEPT ![s].got = @ + 1, ![s].lost = TRUE]
    /\ UNCHANGED <<turn, file, loads>>
    /\ handlerLeaves

(* recv_error, or the stream ends short of the size. *)
RecvEnds(s) ==
    /\ \/ hnd[s].pc \in {"versions", "apreq", "size"} /\ ~ Comes(s) /\ ~ net[s].up
       \/ hnd[s].pc = "blocks" /\ hnd[s].got < hnd[s].want /\ ~ Comes(s) /\ ~ net[s].up
       \/ hnd[s].pc = "blocks" /\ Comes(s) /\ Head(net[s].toR) = "error"
    /\ Hangs(s) /\ Leaves(s)
    /\ UNCHANGED <<file, loads, faults>>
    /\ handlerLeaves

Received(s) == hnd[s].got = hnd[s].want

(* doit: the file takes its name and kdb5_util is started on it. *)
Rename(s) ==
    /\ hnd[s].pc = "blocks" /\ Received(s)
    /\ file' = [from |-> s, ver |-> snd[s].ver,
                whole |-> hnd[s].got = Blocks /\ ~ hnd[s].lost]
    /\ loads' = [loads EXCEPT ![s] = [pc |-> "begun", text |-> NoText]]
    /\ hnd' = [hnd EXCEPT ![s].pc = "loading"]
    /\ UNCHANGED <<net, turn, faults>>
    /\ handlerLeaves

(* kdb5_util load: it reads the file of that name, fails on it or on the   *)
(* database beside, or puts the new database in place.                     *)
LoadReads(s) ==
    /\ loads[s].pc = "begun"
    /\ loads' = [loads EXCEPT ![s] = [pc |-> "read", text |-> file]]
    /\ UNCHANGED <<primary, snd, net, hnd, turn, file, rdb, loaded, pl, faults>>

LoadFails(s) ==
    /\ loads[s].pc \in {"begun", "read"}
    /\ IF loads[s].text.whole THEN Fault ELSE UNCHANGED faults
    /\ loads' = [loads EXCEPT ![s].pc = "failed"]
    /\ UNCHANGED <<primary, snd, net, hnd, turn, file, rdb, loaded, pl>>

LoadPromotes(s) ==
    /\ loads[s].pc = "read"
    /\ loads' = [loads EXCEPT ![s].pc = "ok"]
    /\ rdb' = loads[s].text
    /\ loaded' = IF loads[s].text.whole /\ loads[s].text.from = s THEN loaded \cup {s} ELSE loaded
    /\ UNCHANGED <<primary, snd, net, hnd, turn, file, pl, faults>>

(* Mutant: load_database's status is not looked at. *)
LoadOkAnyway(s) == loads[s].pc \in {"ok", "failed"}

LoadOk(s) == loads[s].pc = "ok"

(* load_database, with kdb5_util's status; kpropd_send_ack. *)
Ack(s) ==
    /\ hnd[s].pc = "loading" /\ loads[s].pc \in {"ok", "failed"}
    /\ net' = [net EXCEPT ![s].up = FALSE, ![s].toS = IF LoadOk(s) /\ net[s].up THEN Append(@, "size") ELSE @]
    /\ loads' = [loads EXCEPT ![s] = [pc |-> "none", text |-> NoText]]
    /\ Leaves(s)
    /\ UNCHANGED <<file, faults>>
    /\ handlerLeaves

(* The deadline of iprop_resync_timeout: the thread leaves, a kdb5_util it *)
(* started runs on.                                                        *)
Late(s) ==
    /\ hnd[s].pc # "none" /\ Fault
    /\ Hangs(s) /\ Leaves(s)
    /\ UNCHANGED <<file, loads>>
    /\ handlerLeaves

(* The status of a kdb5_util whose thread is gone is read by no one. *)
Orphan(s) ==
    /\ hnd[s].pc = "none" /\ loads[s].pc \in {"ok", "failed"}
    /\ loads' = [loads EXCEPT ![s] = [pc |-> "none", text |-> NoText]]
    /\ UNCHANGED <<primary, snd, net, hnd, turn, file, rdb, loaded, pl, faults>>

-----------------------------------------------------------------------------
(* The poller, kpropd_do_iprop.  A step ends with a wait, of pollin        *)
(* seconds or backoff_from_primary's; IpropWake::sleep ends it early when  *)
(* a thread is done, so that the next step may follow at any time.         *)
pollLeaves == UNCHANGED <<primary, net, hnd, turn, file, loads, rdb, loaded>>

(* kiprop_init, with RPCSEC_GSS: the primary answers; until it does the   *)
(* poller waits and tries again.                                           *)
KipropInit ==
    /\ pl.pc = "init"
    /\ pl' = [pl EXCEPT !.pc = "poll"]
    /\ UNCHANGED <<snd, faults>>
    /\ pollLeaves

InitFails ==
    /\ pl.pc = "init" /\ Fault
    /\ UNCHANGED <<pl, snd>>
    /\ pollLeaves

(* The status get_updates brings: the log knows the replica's serial. *)
UpdateStatus ==
    CASE rdb.ver = primary.ver -> "nil"
      [] rdb.ver < primary.ver /\ rdb.ver >= primary.start -> "ok"
      [] OTHER -> "resync"

(* No updates, or updates that ulog_replay applies. *)
Poll ==
    /\ pl.pc = "poll"
    /\ UpdateStatus \in {"nil", "ok"}
    /\ rdb' = [rdb EXCEPT !.ver = primary.ver]
    /\ pl' = [pl EXCEPT !.fr = FALSE]
    /\ UNCHANGED <<primary, snd, net, hnd, turn, file, loads, loaded, faults>>

(* A full resync: asked for once within iprop_resync_timeout.  kadmind's   *)
(* full_resync answers OK and a thread of it sends.                        *)
PollResync ==
    /\ pl.pc = "poll"
    /\ UpdateStatus = "resync" /\ ~ pl.fr
    /\ Rests(Kadmind)
    /\ snd' = [snd EXCEPT ![Kadmind].pc = "open"]
    /\ pl' = [pl EXCEPT !.fr = TRUE]
    /\ UNCHANGED faults
    /\ pollLeaves

(* The call fails: begin again with kiprop_init. *)
PollFails ==
    /\ pl.pc = "poll" /\ Fault
    /\ pl' = [pl EXCEPT !.pc = "init"]
    /\ UNCHANGED snd
    /\ pollLeaves

(* IPROP_PERM_DENIED or IPROP_ERROR: kpropd_do_iprop returns, and          *)
(* start_iprop ends the process with every thread in it.                   *)
PollEnds ==
    /\ pl.pc = "poll" /\ Fault
    /\ pl' = [NoPoller EXCEPT !.pc = "ended"]
    /\ hnd' = [s \in Senders |-> NoHandler]
    /\ net' = [s \in Senders |-> [net[s] EXCEPT !.up = FALSE]]
    /\ turn' = Nobody
    /\ UNCHANGED <<primary, snd, file, loads, rdb, loaded>>

(* kpropd is started again. *)
Restart ==
    /\ pl.pc = "ended"
    /\ pl' = NoPoller
    /\ UNCHANGED <<snd, faults>>
    /\ pollLeaves

(* Mutant: the request is never given up. *)
FrExpiresNot == FALSE

(* iprop_resync_timeout seconds after the request it is made again. *)
FrExpires == pl.fr

Expires ==
    /\ FrExpires
    /\ pl' = [pl EXCEPT !.fr = FALSE]
    /\ UNCHANGED <<snd, faults>>
    /\ pollLeaves

-----------------------------------------------------------------------------
Sends(s) == Open(s) \/ Sendauth(s) \/ Block(s) \/ AllSent(s) \/ Answer(s) \/ SenderCut(s)
Receives(s) ==
    \/ Accept(s) \/ TakeTurn(s) \/ RecvVersions(s) \/ RecvApReq(s) \/ RecvSize(s)
    \/ RecvBlock(s) \/ RecvEnds(s) \/ Rename(s) \/ Ack(s) \/ Orphan(s)
Loading(s) == LoadReads(s) \/ LoadPromotes(s)
Breaks(s) == NoTickets(s) \/ PrematureEof(s) \/ Loses(s) \/ Late(s) \/ NoHostKeys(s) \/ LoadFails(s)
Polls == KipropInit \/ Poll \/ PollResync

Next ==
    \/ Change
    \/ Polls \/ Expires \/ InitFails \/ PollFails \/ PollEnds \/ Restart
    \/ \E s \in Commands : Run(s)
    \/ \E s \in Senders : Sends(s) \/ Receives(s) \/ Loading(s) \/ Breaks(s)

(* Each process and thread goes on while it can, and a request runs out. *)
Fairness ==
    /\ WF_vars(Polls) /\ WF_vars(Expires)
    /\ \A s \in Senders : WF_vars(Sends(s)) /\ WF_vars(Receives(s)) /\ WF_vars(Loading(s))

Spec == Init /\ [][Next]_vars /\ Fairness

(* kprop says SUCCEEDED only of a dump the replica has loaded, whole, from *)
(* this very transfer (krb5-kprop.rs main over doit's order: the file, the *)
(* load, then the size in reply).                                          *)
SuccessMeansLoaded ==
    \A s \in Senders : snd[s].pc = "done" => s \in loaded

(* A replica that fell behind comes to the primary's version, however a    *)
(* transfer ends, unless the primary's refusal ended kpropd.               *)
InStep == rdb.ver = primary.ver \/ pl.pc = "ended"

Resynced == <>[]InStep
=============================================================================
