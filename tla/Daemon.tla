------------------------------- MODULE Daemon -------------------------------
(***************************************************************************)
(* How the KDC and kadmind start, detach, serve and stop (krb5-kdc/src/    *)
(* bin/krb5-kdc.rs, daemon.rs, listen.rs; krb5-admin/src/kadmind.rs,       *)
(* bin/krb5-kadmind.rs) and how a signal reaches their event loop          *)
(* (net_server.rs, run).                                                   *)
(*                                                                         *)
(* A process goes through main step by step.  Between two steps an         *)
(* administrator may put another database in place or send a signal.  A    *)
(* relative file name means another file once daemon() has moved the       *)
(* process to "/".                                                         *)
(***************************************************************************)
EXTENDS Integers, Sequences, FiniteSets, SequencesExt

CONSTANTS
    Configs,     \* command lines with the profile they are run under
    Files,       \* what the directories may hold when the process is started
    Typed,       \* master keys that may be typed at the prompt
    MaxLoads,    \* bound on the databases put in place meanwhile
    MaxSignals   \* bound on the signals sent

VARIABLES
    cfg,         \* the process's command line and profile
    files,       \* the database and the stash of each directory
    proc,        \* the process
    sig,         \* signals: flags, a handler between flag and pipe, the pipe
    trail,       \* the records of the audit modules
    budget       \* loads and signals so far

vars == <<cfg, files, proc, sig, trail, budget>>

Home == "home"
Root == "root"

Kdc == cfg.prog = "kdc"

-----------------------------------------------------------------------------
(* The command line.  An option is [flag, arg].                            *)
NoArgs == [dbArgs |-> <<>>, manual |-> FALSE, mkey |-> "K/M"]

NoOptions ==
    [realm |-> {}, extra |-> {}, cur |-> NoArgs, taken |-> {}, dbname |-> {}, nofork |-> FALSE,
     pid |-> FALSE, offset |-> 0, usage |-> FALSE]

(* The first -r takes the options before it; what follows it is for no     *)
(* realm, and -x is taken away with it.                                    *)
TakeRealm(o, realm) ==
    IF o.realm = {}
    THEN [o EXCEPT !.realm = {realm}, !.taken = {o.cur}, !.cur.dbArgs = <<>>]
    ELSE IF realm \in o.realm \/ o.extra # {} THEN o
    ELSE [o EXCEPT !.extra = {realm}]

(* Every -d names the database of the first one. *)
TakeName(o, name) ==
    LET first == IF o.dbname = {} THEN {name} ELSE o.dbname
    IN  [o EXCEPT !.dbname = first, !.cur.dbArgs = @ \o SetToSeq(first)]

TakeOption(o, opt) ==
    CASE opt.flag = "x" -> [o EXCEPT !.cur.dbArgs = Append(@, opt.arg)]
      [] opt.flag = "r" -> TakeRealm(o, opt.arg)
      [] opt.flag = "d" -> TakeName(o, opt.arg)
      [] opt.flag = "m" -> [o EXCEPT !.cur.manual = TRUE]
      [] opt.flag = "M" -> [o EXCEPT !.cur.mkey = opt.arg]
      [] opt.flag = "n" -> [o EXCEPT !.nofork = TRUE]
      [] opt.flag = "P" -> [o EXCEPT !.pid = TRUE]
      [] opt.flag = "T" -> [o EXCEPT !.offset = opt.arg]
      [] opt.flag = "w" /\ opt.arg > 0 -> o
      [] opt.flag \in {"R", "4", "X", "k", "p"} -> o
      [] OTHER -> [o EXCEPT !.usage = TRUE]

ParseOptions(opts) == FoldLeft(TakeOption, NoOptions, opts)

(* kadmind's options stand in any order. *)
Given(opts, flag) == SelectSeq(opts, LAMBDA opt : opt.flag = flag)

MitArgs(opts) ==
    [NoOptions EXCEPT !.nofork = Given(opts, "n") # <<>>, !.pid = Given(opts, "P") # <<>>,
                      !.cur = [dbArgs |-> [i \in DOMAIN Given(opts, "x") |-> Given(opts, "x")[i].arg],
                               manual |-> Given(opts, "m") # <<>>, mkey |-> "K/M"]]

RealmArgs(o) == IF o.taken = {} THEN o.cur ELSE CHOOSE a \in o.taken : TRUE

(* database_path: the last name given, relative or not, or the profile's;  *)
(* an argument of another database module is refused.                      *)
BadArgs(args) == "bad" \in Range(args.dbArgs)

Relative(args) ==
    LET named == SelectSeq(args.dbArgs, LAMBDA a : a \in {"relative", "absolute"})
    IN  IF named = <<>> THEN cfg.relative ELSE Last(named) = "relative"

(* names_relative_database: the stash may be the relative one. *)
NamesRelative(args) == Relative(args) \/ cfg.relativeStash

Where(relative, cwd) == IF relative THEN cwd ELSE Home

(* manual_master_key, kadmind_mkey_from_kbd: a stash named in the profile  *)
(* wins over the KDC's -m, and not over kadmind's.                         *)
Keyboard(args) == args.manual /\ (Kdc => ~ cfg.namedStash)

-----------------------------------------------------------------------------
(* Opening the database: what is read, or nothing when it is refused.      *)
Opened(dir, key) ==
    {[dir |-> dir, key |-> key, version |-> db.version] :
        db \in {d \in files[dir].db : d.key = key}}

(* open_database, with the key of the stash; open_database_with_password;  *)
(* open_database_with_key.  All three look at the names first.             *)
OpenDatabase(args, cwd, keys) ==
    IF BadArgs(args) \/ args.mkey # "K/M" THEN {}
    ELSE UNION {Opened(Where(Relative(args), cwd), k) : k \in keys}

Stashed(cwd) == files[Where(cfg.relativeStash, cwd)].stash

InitRealm(args, cwd, typed) ==
    OpenDatabase(args, cwd, IF Keyboard(args) THEN {typed} ELSE Stashed(cwd))

ReloadStays(store, args, cwd) == {store}

(* catch_up: the file the name stands for now is the one that was read.    *)
Same(store, args, cwd) ==
    /\ store.dir = Where(Relative(args), cwd)
    /\ [key |-> store.key, version |-> store.version] \in files[store.dir].db

(* The KDC's reload_if_stale and kadmind's reload, which always reads: the *)
(* database the name stands for now, with the key that is held or, without *)
(* one, the stash's.                                                       *)
Reload(store, args, cwd) ==
    IF Kdc /\ Same(store, args, cwd) THEN {store}
    ELSE OpenDatabase(args, cwd, IF Keyboard(args) THEN {store.key} ELSE Stashed(cwd))

-----------------------------------------------------------------------------
(* The listeners.  An entry is [service, kind, addrs], an address "ok",    *)
(* "nofamily" or "busy"; an entry that does not resolve has no address.    *)
Sockets(e) == {i \in DOMAIN e.addrs : e.addrs[i] = "ok"}

BindEntryLax(e) == TRUE

(* bind_listeners: only an address family that the host lacks is skipped,  *)
(* and never the last address of an entry.                                 *)
BindEntry(e) == "busy" \notin Range(e.addrs) /\ Sockets(e) # {}

(* The entries of the services that are on; one program per RPC service.   *)
ServicesOn ==
    CASE Kdc -> {"kdc"}
      [] ~ Kdc /\ cfg.proponly -> {"iprop"} \cap cfg.services
      [] ~ Kdc /\ ~ cfg.proponly -> {"kpasswd", "kadm"} \cup ({"iprop"} \cap cfg.services)

Wanted == {e \in cfg.listens : e.service \in ServicesOn}

(* bind_sockets; Listeners::bind, where no entry at all is an error. *)
BindAll == (\A e \in Wanted : BindEntry(e)) /\ (Kdc \/ Wanted # {})

Programs(entries) == {e.service : e \in {f \in entries : f.kind = "rpc"}}

-----------------------------------------------------------------------------
NotStarted ==
    [at |-> "start", cwd |-> Home, args |-> NoArgs, nofork |-> FALSE, pidFile |-> FALSE,
     store |-> {}, held |-> {}, cpw |-> FALSE, heard |-> {}, pid |-> FALSE, code |-> 0,
     wake |-> FALSE]

NoSignals == [ready |-> FALSE, stop |-> FALSE, hup |-> FALSE, handler |-> FALSE, byte |-> FALSE]

Init ==
    /\ cfg \in Configs
    /\ files \in Files
    /\ proc = NotStarted
    /\ sig = NoSignals
    /\ trail = <<>>
    /\ budget = [loads |-> 0, signals |-> 0]

Ended == proc.at \in {"exited", "killed"}
Serving == proc.at \in {"poll", "round"}

Become(p) == proc' = p /\ UNCHANGED <<cfg, files, sig, trail, budget>>

Exit(code) == Become([proc EXCEPT !.at = "exited", !.code = code])

Broken(what) == what \in cfg.broken

(* main up to the realm: the profile, the options, the realm's paths. *)
Refused(o) == o.usage \/ o.offset # 0 \/ o.extra # {} \/ Broken("profile") \/ Broken("realm")

StartWith(o) ==
    IF Refused(o) THEN Exit(1)
    ELSE Become([proc EXCEPT !.at = "open", !.args = RealmArgs(o), !.nofork = o.nofork,
                             !.pidFile = o.pid])

Start ==
    /\ proc.at = "start"
    /\ StartWith(IF Kdc THEN ParseOptions(cfg.options) ELSE MitArgs(cfg.options))

(* A keyboard key that is to be used in the foreground is asked for twice. *)
AfterOpen ==
    IF proc.at = "open" /\ proc.nofork /\ Keyboard(proc.args) THEN "again" ELSE "apply"

OpenRealm(typed) ==
    /\ proc.at \in {"open", "again"}
    /\ \/ /\ InitRealm(proc.args, proc.cwd, typed) = {}
          /\ Exit(1)
       \/ \E s \in InitRealm(proc.args, proc.cwd, typed) :
              Become([proc EXCEPT !.at = AfterOpen, !.store = {s}])

(* apply_profile and, in kadmind, prepare_store and the propagation        *)
(* options; the key that was typed is kept.                                *)
PropagatesOnly == cfg.proponly /\ "iprop" \notin cfg.services

BadStore == Broken("conf") \/ (~ Kdc /\ Broken("pwqual"))

BadProfile == BadStore \/ (~ Kdc /\ (PropagatesOnly \/ Broken("params")))

ApplyProfile ==
    /\ proc.at = "apply"
    /\ IF BadProfile THEN Exit(IF Kdc THEN 2 ELSE 1)
       ELSE Become([proc EXCEPT !.at = "install",
                                !.held = IF Keyboard(proc.args) THEN {s.key : s \in proc.store}
                                         ELSE {}])

(* Signals::install: the flags, then the pipe, which may not be had. *)
Install(pipe) ==
    /\ proc.at = "install"
    /\ proc' = [proc EXCEPT !.at = "bind", !.wake = pipe]
    /\ sig' = [sig EXCEPT !.ready = TRUE]
    /\ UNCHANGED <<cfg, files, trail, budget>>

(* Kadmind::new: the names it accepts for must be in the database; without *)
(* keys for kadmin/changepw there is no password service.                  *)
NoAcceptor == ~ Kdc /\ (Broken("acl") \/ Broken("names"))

ServesKpasswd == ~ Kdc /\ ~ cfg.proponly /\ ~ Broken("changepw")

(* bind_sockets; in kadmind Listeners::bind, load_acl and Kadmind::new. *)
Bind ==
    /\ proc.at = "bind"
    /\ IF ~ BindAll \/ NoAcceptor THEN Exit(1)
       ELSE Become([proc EXCEPT !.at = "detach", !.heard = Wanted, !.cpw = ServesKpasswd])

(* daemon(): a new process, in "/". *)
Detach ==
    /\ proc.at = "detach"
    /\ IF proc.nofork THEN Become([proc EXCEPT !.at = "pid"])
       ELSE IF Broken("fork") THEN Exit(1)
       ELSE Become([proc EXCEPT !.at = "pid", !.cwd = Root])

WritePidFile ==
    /\ proc.at = "pid"
    /\ IF proc.pidFile /\ Broken("pid") THEN Exit(1)
       ELSE Become([proc EXCEPT !.at = "reopen", !.pid = proc.pidFile])

(* A detached process with a relative name opens the database again, from  *)
(* "/", and then reads it into the store it serves from.                   *)
Reopening == ~ proc.nofork /\ NamesRelative(proc.args)

ReopenKeys == IF Keyboard(proc.args) THEN proc.held ELSE Stashed(proc.cwd)

Reopen ==
    /\ proc.at = "reopen"
    /\ CASE ~ Reopening -> Become([proc EXCEPT !.at = "ulog"])
         [] Reopening /\ OpenDatabase(proc.args, proc.cwd, ReopenKeys) = {} -> Exit(1)
         [] OTHER -> Become([proc EXCEPT !.at = "reload"])

ReloadStore ==
    /\ proc.at = "reload"
    /\ \E s \in proc.store :
           \/ Reload(s, proc.args, proc.cwd) = {} /\ Exit(1)
           \/ \E new \in Reload(s, proc.args, proc.cwd) :
                  Become([proc EXCEPT !.at = "ulog", !.store = {new}])

(* kadmind's map_ulog; a server without kadmin/changepw keys does not poll *)
(* its kpasswd sockets.                                                    *)
MapUlog ==
    /\ proc.at = "ulog"
    /\ IF "iprop" \in ServicesOn /\ Broken("ulog") THEN Exit(1)
       ELSE Become([proc EXCEPT !.at = "serve",
                                !.heard = {e \in proc.heard : e.service = "kpasswd" => proc.cpw}])

Audited(record) == trail' = IF Kdc THEN Append(trail, record) ELSE trail

Serve ==
    /\ proc.at = "serve"
    /\ proc' = [proc EXCEPT !.at = "poll"]
    /\ Audited([event |-> "start", success |-> TRUE])
    /\ UNCHANGED <<cfg, files, sig, budget>>

-----------------------------------------------------------------------------
(* The event loop, as far as signals go.  Without a pipe poll ends after a *)
(* second; other descriptors may end it at any time.                       *)
Wakes == sig.byte \/ ~ proc.wake

Poll ==
    /\ proc.at = "poll"
    /\ proc' = [proc EXCEPT !.at = "round"]
    /\ sig' = [sig EXCEPT !.byte = FALSE]
    /\ UNCHANGED <<cfg, files, trail, budget>>

PollWoken == Wakes /\ Poll

PollFails ==
    /\ proc.at = "poll"
    /\ Broken("poll")
    /\ proc' = [proc EXCEPT !.at = "exited", !.code = 1]
    /\ Audited([event |-> "stop", success |-> FALSE])
    /\ UNCHANGED <<cfg, files, sig, budget>>

(* The flags are looked at once per round: a reset is taken, a request to  *)
(* stop ends the loop.                                                     *)
Round ==
    /\ proc.at = "round"
    /\ sig' = [sig EXCEPT !.hup = FALSE]
    /\ IF sig.stop
       THEN /\ proc' = [proc EXCEPT !.at = "exited", !.code = 0]
            /\ Audited([event |-> "stop", success |-> TRUE])
       ELSE proc' = [proc EXCEPT !.at = "poll"] /\ UNCHANGED trail
    /\ UNCHANGED <<cfg, files, budget>>

-----------------------------------------------------------------------------
(* Signals.  Before Signals::install they end the process.  After it the   *)
(* flag is set first and then, where there is a pipe, a byte is written.   *)
SetFlag(s, what) ==
    IF what = "stop" THEN [s EXCEPT !.stop = TRUE, !.handler = TRUE]
    ELSE [s EXCEPT !.hup = TRUE, !.handler = TRUE]

Signal(what) ==
    /\ budget.signals < MaxSignals
    /\ ~ Ended
    /\ ~ sig.handler
    /\ budget' = [budget EXCEPT !.signals = @ + 1]
    /\ IF sig.ready THEN sig' = SetFlag(sig, what) /\ UNCHANGED proc
       ELSE proc' = [proc EXCEPT !.at = "killed"] /\ UNCHANGED sig
    /\ UNCHANGED <<cfg, files, trail>>

WakePipeNever == [sig EXCEPT !.handler = FALSE]

WakePipe == [sig EXCEPT !.handler = FALSE, !.byte = proc.wake]

Handle == sig.handler /\ sig' = WakePipe /\ UNCHANGED <<cfg, files, proc, trail, budget>>

(* An administrator's load puts another database, and its stash, in place. *)
Load(dir, key) ==
    /\ budget.loads < MaxLoads
    /\ proc.at \notin {"start", "killed", "exited", "poll", "round"}
    /\ budget' = [budget EXCEPT !.loads = @ + 1]
    /\ files' = [files EXCEPT ![dir] = [db |-> {[key |-> key, version |-> 2]}, stash |-> {key}]]
    /\ UNCHANGED <<cfg, proc, sig, trail>>

Main ==
    \/ Start \/ (\E k \in Typed : OpenRealm(k)) \/ ApplyProfile
    \/ (\E pipe \in BOOLEAN : Install(pipe)) \/ Bind \/ Detach \/ WritePidFile
    \/ Reopen \/ ReloadStore \/ MapUlog \/ Serve \/ PollWoken \/ Round

Next ==
    \/ Main
    \/ Poll
    \/ PollFails
    \/ (\E what \in {"stop", "hup"} : Signal(what))
    \/ Handle
    \/ (\E dir \in {Home, Root}, k \in Typed : Load(dir, k))

(* The process runs on, and a handler that was entered is left. *)
Spec == Init /\ [][Next]_vars /\ WF_vars(Main) /\ WF_vars(Handle)

-----------------------------------------------------------------------------
(* ServesWhatItNames: a daemon that serves has its principals from the     *)
(* database its name stands for in the directory it is in now, opened with *)
(* a key that database had; a socket is open for every listen entry of a   *)
(* service that is on (kpasswd's only with keys for it) and for nothing    *)
(* else, so that -proponly serves no administration; and it runs in "/"    *)
(* unless it was told not to detach (krb5-kdc.rs main, kadmind main).      *)
ServesWhatItNames ==
    Serving =>
        /\ \A s \in proc.store : s.dir = Where(Relative(proc.args), proc.cwd)
        /\ proc.store # {}
        /\ (proc.cwd = Root) = ~ proc.nofork
        /\ proc.heard = {e \in Wanted : e.service = "kpasswd" => proc.cpw}
        /\ \A e \in proc.heard : Sockets(e) # {} /\ "busy" \notin Range(e.addrs)
        /\ ~ Kdc /\ cfg.proponly => Programs(proc.heard) \subseteq {"iprop"}

(* SignalsAreHeard: a request to stop ends the daemon, wherever in its     *)
(* start or its loop it finds it, and a reset is taken; the KDC's audit    *)
(* trail then ends in a stop record that says how (Signals::install, run). *)
Closed ==
    /\ Ended
    /\ trail # <<>> => Last(trail).event = "stop" /\ Last(trail).success = (proc.code = 0)

Heard == (sig.stop => Closed) /\ (sig.hup => Ended)

SignalsAreHeard == <>[]Heard
=============================================================================
