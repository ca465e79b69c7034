------------------------------- MODULE MCHost -------------------------------
(***************************************************************************)
(* The daemons of a KDC host and its replica, one scene each: the transfer *)
(* of a dump to a replica, the start and the signals of a daemon, and the  *)
(* streams a daemon serves.  The transfer has its own variables; the other *)
(* scenes have their state in as many of v1 to v8 as they need.            *)
(***************************************************************************)
EXTENDS Kprop, TLC

VARIABLES scene, v1, v2, v3, v4, v5, v6, v7, v8

daemonVars == <<v1, v2, v3, v4, v5, v6>>
streamsVars == <<v1, v2, v3, v4, v5, v6, v7, v8>>
hostVars == <<scene, vars, streamsVars>>

-----------------------------------------------------------------------------
(* kprop and kadmind's transfer to one replica; one fault. *)
KpropT == [name |-> "host", kvno |-> 2, etype |-> 18, key |-> "k2"]
KpropP == [vers |-> "kprop5_01", ticket |-> KpropT, name |-> "primary"]
KpropPeers == {KpropP, [KpropP EXCEPT !.vers = "other"], [KpropP EXCEPT !.name = "stranger"],
    [KpropP EXCEPT !.ticket.key="k9"]}
KpropKeytabs == {<<[KpropT EXCEPT !.kvno = 1, !.key = "k1"], KpropT>>}

(* krb5kdc and kadmind from their command line on; two signals and a load. *)
DaemonOpt(f, a) == [flag |-> f, arg |-> a]
DaemonE(s, k, as) == [service |-> s, kind |-> k, addrs |-> as]
DaemonKdcListens == {DaemonE("kdc", "udp", <<"ok", "nofamily">>), DaemonE("kdc", "tcp", <<"ok">>)}
DaemonAdmListens == {DaemonE("kpasswd", "udp", <<"ok">>), DaemonE("kadm", "rpc", <<"ok">>),
    DaemonE("iprop", "rpc", <<"ok">>)}
DaemonBase == [prog |-> "kdc", options |-> <<>>, relative |-> FALSE, relativeStash |-> FALSE,
    namedStash |-> FALSE, listens |-> DaemonKdcListens, services |-> {}, proponly |-> FALSE,
    broken |-> {}]
DaemonKdcOptions == {<<>>, <<DaemonOpt("n", 0)>>, <<DaemonOpt("m", 0), DaemonOpt("r", "A")>>,
    <<DaemonOpt("r", "A"), DaemonOpt("m", 0)>>, <<DaemonOpt("m", 0), DaemonOpt("n", 0)>>,
  <<DaemonOpt("d", "relative"), DaemonOpt("P", 0)>>, <<DaemonOpt("x", "relative"), DaemonOpt("d",
      "absolute"), DaemonOpt("m", 0)>>, <<DaemonOpt("r", "A"), DaemonOpt("r", "B")>>,
      <<DaemonOpt("T", 5)>>, <<DaemonOpt("M", "other")>>, <<DaemonOpt("x", "bad")>>,
      <<DaemonOpt("z", 0), DaemonOpt("4", 0)>>, <<DaemonOpt("x","relative"), DaemonOpt("m", 0)>>}
DaemonFaults == {{}, {"profile"}, {"conf"}, {"fork"}, {"pid"}, {"poll"}}
DaemonConfigs ==
  {[DaemonBase EXCEPT !.options = o, !.relative = r, !.relativeStash = r,
      !.namedStash = ~r] : o \in DaemonKdcOptions, r \in BOOLEAN}
  \cup {[DaemonBase EXCEPT !.options = <<DaemonOpt("P", 0)>>, !.broken = f] : f \in DaemonFaults}
  \cup {[DaemonBase EXCEPT !.listens = l] : l \in {{}, {DaemonE("kdc", "tcp", <<"busy">>)},
      {DaemonE("kdc", "udp", <<"nofamily">>)}}}
  \cup {[DaemonBase EXCEPT !.prog = "kadmind", !.options = o, !.relative = r, !.relativeStash = r,
      !.listens = DaemonAdmListens, !.services = s, !.proponly = p] :
         o \in {<<>>, <<DaemonOpt("n", 0), DaemonOpt("m", 0)>>, <<DaemonOpt("m", 0)>>},
             r \in BOOLEAN, s \in {{}, {"iprop"}}, p \in BOOLEAN}
  \cup {[DaemonBase EXCEPT !.prog = "kadmind", !.listens = DaemonAdmListens, !.services = {"iprop"},
      !.broken = f] : f \in {{"pwqual"}, {"acl"}, {"names"}, {"ulog"}, {"changepw"}, {"params"}}}
  \cup {[DaemonBase EXCEPT !.prog = "kadmind", !.listens = {}, !.services = {"iprop"},
      !.proponly = TRUE]}
DaemonDb(k) == {[key |-> k, version |-> 1]}
DaemonF(h, hs, r, rs) == ("home" :> [db |-> h, stash |-> hs]) @@ ("root" :> [db |-> r,
    stash |-> rs])
DaemonFiles == {DaemonF(DaemonDb("k1"), {"k1"}, {}, {}), DaemonF(DaemonDb("k1"), {"k1"},
    DaemonDb("k1"), {"k1"}), DaemonF(DaemonDb("k1"), {"k2"}, DaemonDb("k2"), {"k2"}),
    DaemonF(DaemonDb("k1"), {}, DaemonDb("k1"), {})}
Da == INSTANCE Daemon WITH
    Configs <- DaemonConfigs, Files <- DaemonFiles,
    Typed <- {"k1", "k2"}, MaxLoads <- 1, MaxSignals <- 2,
    cfg <- v1, files <- v2, proc <- v3, sig <- v4, trail <- v5, budget <- v6

(* Two connections at most, of up to three clients. *)
StreamC(i, k, s) == [ip |-> i, kind |-> k, script |-> s]
StreamCasts == {
  <<StreamC("a", "rpc", <<<<1, 0, 1>>, <<1>>>>)>>,
  <<StreamC("a", "rpc", <<<<0>>>>), StreamC("b", "rpc", <<>>), StreamC("b", "rpc", <<>>)>>,
  <<StreamC("a", "rpc", <<>>), StreamC("a", "rpc", <<>>), StreamC("a", "rpc", <<>>)>>,
  <<StreamC("b", "tcp", <<<<1>>>>), StreamC("b", "tcp", <<<<3>>>>)>>,
  <<StreamC("a", "rpc", <<<<7>>>>), StreamC("b", "tcp", <<<<0>>>>)>>,
  <<StreamC("a", "rpc", <<<<0>>>>), StreamC("b", "tcp", <<>>), StreamC("b", "tcp", <<>>)>>}
St == INSTANCE Streams WITH
    Casts <- StreamCasts, Mark <- 2, MaxRecord <- 8, Cap <- 2, Deadline <- 1, Idle <- {1}, PerIp <- {2},
    MaxStreams <- 2, MaxFailures <- 1,
    conns <- v1, peers <- v2, waiting <- v3, paused <- v4, loop <- v5, clock <- v6,
    coming <- v7, failures <- v8

-----------------------------------------------------------------------------
Off(v) == v = "off"
KpropOff == Init /\ \A s \in Commands : snd[s].peer = Primary

MCInit ==
    \/ /\ scene = "kprop" /\ Init
       /\ Off(v1) /\ Off(v2) /\ Off(v3) /\ Off(v4) /\ Off(v5) /\ Off(v6) /\ Off(v7) /\ Off(v8)
    \/ scene = "daemon" /\ KpropOff /\ Da!Init /\ Off(v7) /\ Off(v8)
    \/ scene = "streams" /\ KpropOff /\ St!Init

KpropScene == scene = "kprop" /\ Next /\ UNCHANGED <<scene, streamsVars>>
DaemonScene == scene = "daemon" /\ Da!Next /\ UNCHANGED <<scene, vars, v7, v8>>
StreamsScene == scene = "streams" /\ St!Next /\ UNCHANGED <<scene, vars>>

MCNext == KpropScene \/ DaemonScene \/ StreamsScene

(* Kprop's, Daemon's and Streams' fairness: each process, thread and loop  *)
(* goes on while it can, a request runs out, and time passes.              *)
MCFairness ==
    /\ WF_vars(scene = "kprop" /\ Polls)
    /\ WF_vars(scene = "kprop" /\ Expires)
    /\ \A s \in Senders :
          /\ WF_vars(scene = "kprop" /\ Sends(s))
          /\ WF_vars(scene = "kprop" /\ Receives(s))
          /\ WF_vars(scene = "kprop" /\ Loading(s))
    /\ WF_daemonVars(scene = "daemon" /\ Da!Main)
    /\ WF_daemonVars(scene = "daemon" /\ Da!Handle)
    /\ WF_streamsVars(scene = "streams" /\ St!Loop)
    /\ WF_streamsVars(scene = "streams" /\ St!Tick)

MCSpec == MCInit /\ [][MCNext]_hostVars /\ MCFairness

-----------------------------------------------------------------------------
(* A daemon that serves has its principals from the database its name      *)
(* stands for in the directory it is in, and listens for the services that *)
(* are on and nothing else (Daemon's ServesWhatItNames, over krb5-kdc.rs   *)
(* and krb5-kadmind.rs main).                                              *)
ServesWhatItNames == scene = "daemon" => Da!ServesWhatItNames

(* However the faults, signals and peers fall, the host settles.  A        *)
(* replica that fell behind comes to the primary's version, unless the     *)
(* primary's refusal ended kpropd (Kprop's Resynced, over kprop/poll.rs);  *)
(* a request to stop ends the daemon, wherever in its start or its loop it *)
(* finds it, with a last audit record that says how, and a reset is taken  *)
(* (Daemon's SignalsAreHeard, over daemon.rs Signals::install); a record   *)
(* that was begun is completed or its connection is dropped, and whoever   *)
(* waits is accepted (Streams' StalledEnds, over net_server.rs sweep_rpc). *)
HostSettles ==
    <>[](CASE scene = "kprop" -> InStep
           [] scene = "daemon" -> Da!Heard
           [] scene = "streams" -> St!Settled)

=============================================================================
