------------------------------- MODULE Iprop --------------------------------
(***************************************************************************)
(* Incremental propagation from a primary to one replica: kadmind answers  *)
(* get_updates and full_resync (krb5-admin/src/kadm5/iprop.rs), kpropd     *)
(* polls it and replays what it is sent (kprop/poll.rs), and a dump that   *)
(* kadmind sends is loaded by `kdb5_util load -i' while kpropd polls on    *)
(* (kprop.rs, FullLoad in persist.rs).  resync_timeout may run out at any  *)
(* time: resyncs overlap, their dumps come in any order, a load may begin  *)
(* or end inside a poll, and the next load begins as soon as the one       *)
(* before it has promoted and let go of the temporary database.            *)
(*                                                                         *)
(* A stamp is an epoch of the primary's log (the log started over begins a *)
(* new one) and a version of its database: what module Ulog shows its      *)
(* answers to be.  The database is a map from each principal, and from the *)
(* policies, to the version that last wrote it, so that an update applied  *)
(* to the wrong version leaves a trace.                                    *)
(***************************************************************************)
EXTENDS Integers, Sequences, FiniteSets

CONSTANTS
  Princ,      \* principals
  Policies,   \* stands for the policy records
  Entries,    \* slots in the primary's log
  MaxVer,     \* bound on the primary's changes
  MaxEpoch,   \* bound on the times its log starts over
  MaxFaults,  \* bound on kills, refusals, lost calls and dumps, failed replays
  MaxDumps    \* bound on the full resyncs under way at once

ASSUME PoliciesAssumption == Policies \notin Princ
ASSUME BoundsAssumption ==
  /\ Entries \in Nat \ {0}
  /\ {MaxVer, MaxEpoch, MaxFaults, MaxDumps} \subseteq Nat

VARIABLES
  hist,      \* what each version of the primary's database wrote
  epoch,     \* epoch of the primary's log
  start,     \* version at which it began
  dumpFile,  \* the dump kadmind keeps, NoDump before the first
  threads,   \* full_resync threads that have not dumped yet
  senders,   \* those that have, and have not opened the dump yet
  dumps,     \* dumps on their way to kpropd
  rdb,       \* the replica's database
  rlast,     \* the last stamp in the replica's log
  poller,    \* kpropd's poller: where it is and the reply it holds
  fr,        \* frrequested, and resync_timeout has not run out
  loader,    \* the kdb5_util load -i that has the temporary database
  tails,     \* loads that have promoted and let go of it
  crossed,   \* history: the replica's database and log were last written
             \* by a replay and a load, or two loads, that crossed
  faults     \* faults so far

primary == <<hist, epoch, start>>
replica == <<rdb, rlast>>
resyncs == <<dumpFile, threads, senders, dumps>>
loads == <<loader, tails>>
vars == <<hist, epoch, start, dumpFile, threads, senders, dumps,
          rdb, rlast, poller, fr, loader, tails, crossed, faults>>

-----------------------------------------------------------------------------
Row == Princ \cup {Policies}
Db == [Row -> 0..MaxVer]
Stamp == [epoch : 0..MaxEpoch, ver : 0..MaxVer]

(* A log just reset names an entry the primary never had.                  *)
NoStamp == [epoch |-> 0, ver |-> 0]
NoDump == [stamp |-> NoStamp, db |-> [r \in Row |-> 0]]

pver == Len(hist)
Last == [epoch |-> epoch, ver |-> pver]

(* The versions in from..to applied to a database, the later winning.      *)
Apply(db, from, to) ==
  [r \in Row |->
     LET w == {v \in from..to : hist[v] = r}
     IN  IF w = {} THEN db[r] ELSE CHOOSE v \in w : \A u \in w : u <= v]

(* Updates carry principals; policies travel in dumps alone.               *)
Updated(db, from, to) == [Apply(db, from, to) EXCEPT ![Policies] = db[Policies]]

pdb == Apply([r \in Row |-> 0], 1, pver)

(* sno_status: the ring holds the epoch's last Entries entries.            *)
Status(st) ==
  IF st = Last THEN "nil"
  ELSE IF st.epoch = epoch /\ st.ver >= start /\ st.ver > pver - Entries
       THEN "ok"
       ELSE "resync"

Idle == [pc |-> "idle", status |-> "nil", from |-> NoStamp, to |-> NoStamp]
Exited == [Idle EXCEPT !.pc = "exited"]
NoLoad == [pc |-> "none", dump |-> NoDump]

Init ==
  /\ hist = <<>>
  /\ epoch = 1
  /\ start = 0
  /\ dumpFile = NoDump
  /\ threads = 0
  /\ senders = 0
  /\ dumps = <<>>
  /\ rdb = [r \in Row |-> 0]
  /\ rlast = NoStamp
  /\ poller = Idle
  /\ fr = FALSE
  /\ loader = NoLoad
  /\ tails = <<>>
  /\ crossed = FALSE
  /\ faults = 0

Fault == faults < MaxFaults /\ faults' = faults + 1
RemoveNth(s, i) == [j \in 1 .. Len(s) - 1 |-> IF j < i THEN s[j] ELSE s[j + 1]]

-----------------------------------------------------------------------------
(* The primary.                                                            *)

Put(p) ==
  /\ pver < MaxVer
  /\ hist' = Append(hist, p)
  /\ UNCHANGED <<epoch, start, resyncs, replica, poller, fr, loads, crossed, faults>>

(* A change of policy starts the log over, and so does the next operation  *)
(* after a writer was killed, whether or not its change reached the        *)
(* database.                                                               *)
RestartWith(h) ==
  /\ epoch < MaxEpoch
  /\ hist' = h
  /\ epoch' = epoch + 1
  /\ start' = Len(h)
  /\ UNCHANGED <<resyncs, replica, poller, fr, loads, crossed>>

(* Mutant of PutPolicy: the log goes on.                                   *)
PutPolicyUnlogged ==
  /\ pver < MaxVer
  /\ hist' = Append(hist, Policies)
  /\ UNCHANGED <<epoch, start, resyncs, replica, poller, fr, loads, crossed, faults>>

PutPolicy ==
  /\ pver < MaxVer
  /\ RestartWith(Append(hist, Policies))
  /\ UNCHANGED faults

WriterKilled ==
  /\ Fault
  /\ \/ RestartWith(hist)
     \/ pver < MaxVer /\ \E p \in Princ : RestartWith(Append(hist, p))

(* conditional_iprop_dump: a dump whose serial is still in the log is sent *)
(* again; else the last serial and the records, under one hold.            *)
ResyncDump ==
  /\ threads > 0
  /\ threads' = threads - 1
  /\ senders' = senders + 1
  /\ dumpFile' = IF dumpFile # NoDump /\ Status(dumpFile.stamp) # "resync"
                 THEN dumpFile
                 ELSE [stamp |-> Last, db |-> pdb]
  /\ UNCHANGED <<primary, dumps, replica, poller, fr, loads, crossed, faults>>

(* The thread opens the dump that is there by then, another's perhaps, and *)
(* sends it, if kpropd is there.                                           *)
SendDump ==
  /\ senders > 0
  /\ senders' = senders - 1
  /\ dumps' = IF poller.pc = "exited" THEN dumps ELSE Append(dumps, dumpFile)
  /\ UNCHANGED <<primary, dumpFile, threads, replica, poller, fr, loads, crossed, faults>>

-----------------------------------------------------------------------------
(* kpropd_do_iprop.                                                        *)

(* The local log's last entry is read, and get_updates is called with it.  *)
Ask ==
  /\ poller.pc = "idle"
  /\ poller' = [Idle EXCEPT !.pc = "asked", !.from = rlast]
  /\ UNCHANGED <<primary, resyncs, replica, fr, loads, crossed, faults>>

(* dispatch_iprop: the primary's answer, as of now.                        *)
GetUpdates ==
  /\ poller.pc = "asked"
  /\ poller' = [poller EXCEPT !.pc = "got", !.status = Status(poller.from), !.to = Last]
  /\ UNCHANGED <<primary, resyncs, replica, fr, loads, crossed, faults>>

(* The call fails, or the primary is busy: kpropd begins again.            *)
NoAnswer ==
  /\ poller.pc = "asked"
  /\ Fault
  /\ poller' = Idle
  /\ UNCHANGED <<primary, resyncs, replica, fr, loads, crossed>>

UnderWay ==
  threads + senders + Len(dumps) + Len(tails) + (IF loader.pc = "none" THEN 0 ELSE 1)

(* A full resync is asked for once per resync_timeout; the bound is on     *)
(* those that are under way, not on the asking.                            *)
FullResync ==
  /\ poller.pc = "got"
  /\ poller.status = "resync"
  /\ poller' = Idle
  /\ \/ fr /\ UNCHANGED <<fr, threads, faults>>
     \/ /\ ~fr
        /\ fr' = TRUE
        /\ UnderWay < MaxDumps
        /\ threads' = threads + 1
        /\ UNCHANGED faults
     \/ ~fr /\ fr' = TRUE /\ Fault /\ UNCHANGED threads
  /\ UNCHANGED <<primary, dumpFile, senders, dumps, replica, loads, crossed>>

Nil ==
  /\ poller.pc = "got"
  /\ poller.status = "nil"
  /\ poller' = Idle
  /\ fr' = FALSE
  /\ UNCHANGED <<primary, resyncs, replica, loads, crossed, faults>>

(* A reply is replayed on the replica as it is then: ulog_replay does not  *)
(* ask whether the log is still where it was when the poll began.          *)
Crossing == crossed \/ rlast # poller.from

(* Mutant of Replay: the first update is skipped.                          *)
ReplayShort ==
  /\ poller.pc = "got"
  /\ poller.status = "ok"
  /\ poller' = Idle
  /\ fr' = FALSE
  /\ rdb' = Updated(rdb, poller.from.ver + 2, poller.to.ver)
  /\ rlast' = poller.to
  /\ crossed' = Crossing
  /\ UNCHANGED <<primary, resyncs, loads, faults>>

(* ulog_replay: one change of the replica's database and log, made under   *)
(* both locks.  The log takes the last serial whatever it held before.     *)
Replay ==
  /\ poller.pc = "got"
  /\ poller.status = "ok"
  /\ poller' = Idle
  /\ fr' = FALSE
  /\ rdb' = Updated(rdb, poller.from.ver + 1, poller.to.ver)
  /\ rlast' = poller.to
  /\ crossed' = Crossing
  /\ UNCHANGED <<primary, resyncs, loads, faults>>

(* An update that cannot be converted, or a write that fails or is cut     *)
(* short, starts the replica's log over; the write may have landed.        *)
HalfReplayed ==
  /\ poller.pc = "got"
  /\ poller.status = "ok"
  /\ rdb' \in {rdb, Updated(rdb, poller.from.ver + 1, poller.to.ver)}
  /\ rlast' = NoStamp
  /\ crossed' = Crossing

ReplayFails ==
  /\ HalfReplayed
  /\ Fault
  /\ poller' = Idle
  /\ fr' = FALSE
  /\ UNCHANGED <<primary, resyncs, loads>>

(* Mutant of Expire: a request is waited for without end.                  *)
ExpireNever == fr /\ FALSE /\ UNCHANGED vars

(* resync_timeout runs out.                                                *)
Expire ==
  /\ fr
  /\ fr' = FALSE
  /\ UNCHANGED <<primary, resyncs, replica, poller, loads, crossed, faults>>

(* kpropd ends, with its queue of connections: it is killed, or its poller *)
(* gives up for an error or a refusal of the primary.  A load that it      *)
(* began runs on.  A replay cut short leaves the log unstable, and the     *)
(* next to map it starts it over.                                          *)
KpropdEnds ==
  /\ poller.pc # "exited"
  /\ Fault
  /\ poller' = Exited
  /\ fr' = FALSE
  /\ dumps' = <<>>
  /\ HalfReplayed \/ UNCHANGED <<replica, crossed>>
  /\ UNCHANGED <<primary, dumpFile, threads, senders, loads>>

(* Somebody starts it again.                                               *)
KpropdStarts ==
  /\ poller.pc = "exited"
  /\ poller' = Idle
  /\ UNCHANGED <<primary, resyncs, replica, fr, loads, crossed, faults>>

-----------------------------------------------------------------------------
(* kdb5_util load -i: init_header, promote, init_header, set_last.         *)

(* The temporary database is locked from before the first restart until    *)
(* after the promotion; kpropd waits for a load no longer than             *)
(* resync_timeout, so the next may begin while one is at its end.          *)
LoadReinit ==
  /\ loader.pc = "none"
  /\ \E i \in DOMAIN dumps :
       /\ loader' = [pc |-> "reinit", dump |-> dumps[i]]
       /\ dumps' = RemoveNth(dumps, i)
  /\ rlast' = NoStamp
  /\ UNCHANGED <<primary, dumpFile, threads, senders, rdb, poller, fr, tails, crossed, faults>>

(* The promoted database has no part in an earlier crossing, unless the    *)
(* log was written again since this load restarted it or another load is   *)
(* still to write it.                                                      *)
LoadPromote ==
  /\ loader.pc = "reinit"
  /\ loader' = NoLoad
  /\ tails' = Append(tails, [pc |-> "promoted", dump |-> loader.dump])
  /\ rdb' = loader.dump.db
  /\ crossed' = (rlast # NoStamp \/ tails # <<>>)
  /\ UNCHANGED <<primary, resyncs, rlast, poller, fr, faults>>

LoadRestart ==
  /\ \E i \in DOMAIN tails :
       /\ tails[i].pc = "promoted"
       /\ tails' = [tails EXCEPT ![i].pc = "restarted"]
  /\ rlast' = NoStamp
  /\ UNCHANGED <<primary, resyncs, rdb, poller, fr, loader, crossed, faults>>

LoadSetLast ==
  /\ \E i \in DOMAIN tails :
       /\ tails[i].pc = "restarted"
       /\ rlast' = tails[i].dump.stamp
       /\ tails' = RemoveNth(tails, i)
  /\ UNCHANGED <<primary, resyncs, rdb, poller, fr, loader, crossed, faults>>

(* A load is killed, or a dump is lost on its way.                         *)
LoadLost ==
  /\ Fault
  /\ \/ loader.pc # "none" /\ loader' = NoLoad /\ UNCHANGED <<resyncs, tails>>
     \/ /\ \E i \in DOMAIN tails : tails' = RemoveNth(tails, i)
        /\ UNCHANGED <<resyncs, loader>>
     \/ /\ \E i \in DOMAIN dumps : dumps' = RemoveNth(dumps, i)
        /\ UNCHANGED <<dumpFile, threads, senders, loads>>
     \/ threads > 0 /\ threads' = threads - 1 /\ UNCHANGED <<dumpFile, senders, dumps, loads>>
  /\ UNCHANGED <<primary, replica, poller, fr, crossed>>

-----------------------------------------------------------------------------
Propagate ==
  \/ ResyncDump \/ SendDump \/ Ask \/ GetUpdates \/ FullResync \/ Nil \/ Replay \/ Expire
  \/ LoadReinit \/ LoadPromote \/ LoadRestart \/ LoadSetLast

Next ==
  \/ \E p \in Princ : Put(p)
  \/ PutPolicy \/ WriterKilled
  \/ Propagate
  \/ NoAnswer \/ ReplayFails \/ KpropdEnds \/ KpropdStarts \/ LoadLost

Spec == Init /\ [][Next]_vars

(* The poller wakes, the timeout runs out, and the threads and processes   *)
(* that are running go on.  Nothing starts kpropd again.                   *)
Fairness ==
  /\ WF_vars(ResyncDump)
  /\ WF_vars(SendDump)
  /\ WF_vars(Ask)
  /\ WF_vars(GetUpdates)
  /\ WF_vars(FullResync)
  /\ WF_vars(Nil)
  /\ WF_vars(Replay)
  /\ WF_vars(Expire)
  /\ WF_vars(LoadReinit)
  /\ WF_vars(LoadPromote)
  /\ WF_vars(LoadRestart)
  /\ WF_vars(LoadSetLast)

FairSpec == Spec /\ Fairness

-----------------------------------------------------------------------------
(* The variables keep their types, and the bound on resyncs holds.         *)
TypeOK ==
  /\ hist \in Seq(Row) /\ Len(hist) <= MaxVer
  /\ epoch \in 1..MaxEpoch
  /\ start \in 0..Len(hist)
  /\ dumpFile \in [stamp : Stamp, db : Db]
  /\ {threads, senders} \subseteq 0..MaxDumps
  /\ \A i \in DOMAIN dumps : dumps[i] \in [stamp : Stamp, db : Db]
  /\ rdb \in Db
  /\ rlast \in Stamp
  /\ poller \in [pc : {"idle", "asked", "got", "exited"}, status : {"nil", "ok", "resync"},
                 from : Stamp, to : Stamp]
  /\ {fr, crossed} \subseteq BOOLEAN
  /\ loader \in [pc : {"none", "reinit"}, dump : [stamp : Stamp, db : Db]]
  /\ \A i \in DOMAIN tails :
       tails[i] \in [pc : {"promoted", "restarted"}, dump : [stamp : Stamp, db : Db]]
  /\ UnderWay <= MaxDumps

(* A replica is what its log says it is: when the primary would answer its *)
(* last stamp with "nothing new" it has the primary's database, and when   *)
(* it would answer with updates, those updates make it so (get_entries,    *)
(* ulog_replay, set_last).  kpropd says of the first case "KDC is          *)
(* synchronized with primary."  It holds through overlapping resyncs,      *)
(* kills and lost dumps, with one exception, which the code has: a reply   *)
(* replayed over a load that began after the question, or two loads that   *)
(* wrote database and log in turn, until the next load that runs alone.    *)
Synchronized ==
  ~crossed =>
    /\ Status(rlast) = "nil" => rdb = pdb
    /\ Status(rlast) = "ok" => Updated(rdb, rlast.ver + 1, pver) = pdb

(* The replica serves a database the primary had at some version: batches  *)
(* are replayed whole and dumps promoted whole, through every kill and     *)
(* overlap of resyncs, but for the crossing of a replay and a load.        *)
PrimaryHadIt ==
  ~crossed => \E v \in 0..pver : rdb = Apply([r \in Row |-> 0], 1, v)

(* Propagation ends: once the primary's changes and the faults are over,   *)
(* the replica comes to hold the primary's database and keeps it, unless   *)
(* kpropd has ended for good or a crossing is left.  A lost dump is asked  *)
(* for again when resync_timeout has run out.  It takes that at last polls *)
(* and loads no longer overlap: when a poll falls into every load, each    *)
(* asks for another dump, and the replica loads for ever.                  *)
Converges ==
  <>[][threads' > threads => UnderWay = 0 /\ rlast = poller.from]_vars =>
    <>[](rdb = pdb) \/ <>[](poller.pc = "exited") \/ <>[]crossed
=============================================================================
