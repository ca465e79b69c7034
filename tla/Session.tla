------------------------------- MODULE Session -------------------------------
(***************************************************************************)
(* The acceptor's side of an AP exchange and the messages after it         *)
(* (krb5-protocol/src/ap_req.rs, ap_rep.rs, auth_con.rs, safe_priv.rs):    *)
(* the key of the keytab that opens the ticket, the order of the checks,   *)
(* the subkey and sequence numbers, and KRB-SAFE and KRB-PRIV with their   *)
(* times, replay tags and sequence numbers.  The peer may be one that      *)
(* encodes sequence numbers the way Heimdal did.  The network keeps every  *)
(* message and delivers any of them at any time.                           *)
(*                                                                         *)
(* A 32-bit number is <<high half, low half>>.  A principal is [svc, host, *)
(* realm]; an expected server has [hst] besides, for a host-based name.    *)
(***************************************************************************)
EXTENDS Integers, Sequences, FiniteSets, SequencesExt

CONSTANTS
    Keytabs,   \* the contents the keytab may have: sequences of [princ, kvno, etype, key]
    Requests,  \* AP-REQs: see VerifyInner
    Expecteds, \* what the acceptor expects: sets with at most one principal
    IgnoreHost,\* ignore_acceptor_hostname
    Permitted, \* the permitted enctypes, in order
    FlagSets,  \* auth context flags: subsets of {"time", "seq", "subkey", "chain"}
    Peers,     \* [heimdal, start]: how the peer encodes, and its first number
    Talkers,   \* the requests seen so far, in the runs where messages follow
    MaxTries,  \* bound on the requests that are remembered
    MaxSent,   \* bound on the messages of the peer
    MaxClock   \* bound on the clock

VARIABLES kt, ac, peer, net, clock

vars == <<kt, ac, peer, net, clock>>

-----------------------------------------------------------------------------
(* is_matching and sname_match *)
IsMatching(exp) == \A e \in exp : e.hst /\ (e.realm = "" \/ e.host = "" \/ IgnoreHost)

RealmOk(e, p) == e.realm \in {"", p.realm}

HostOk(e, p) == e.host \in {"", p.host} \/ IgnoreHost

SnameMatch(exp, p) ==
    \A e \in exp : /\ RealmOk(e, p) /\ e.svc = p.svc
                   /\ IF e.hst THEN HostOk(e, p) ELSE e.host = p.host

Opens(e, tkt) == e.key = tkt.key /\ e.etype = tkt.etype /\ e.etype \in ToSet(Permitted)

(* decrypt_for_server over the keys of a keytab. *)
Similar(tkt) == {i \in DOMAIN kt : kt[i].etype = tkt.etype}

Tried(tkt) == {i \in Similar(tkt) : tkt.kvno = 0 \/ kt[i].kvno \in {0, tkt.kvno}}

(* Mutant of DecryptForServer: only the first key of the version is tried. *)
DecryptFirstOnly(exp, tkt) ==
    IF Tried(tkt) # {} /\ Opens(kt[CHOOSE i \in Tried(tkt) : \A j \in Tried(tkt) : i <= j], tkt)
    THEN "ok" ELSE "BAD_INTEGRITY"

NotOpened(tkt) ==
    CASE Similar(tkt) = {} -> "NOKEY"
      [] Similar(tkt) # {} /\ Tried(tkt) = {} -> "BADKEYVER"
      [] OTHER -> IF tkt.etype \in ToSet(Permitted) THEN "BAD_INTEGRITY" ELSE "NOPERM_ETYPE"

DecryptForServer(exp, tkt) ==
    IF ~ SnameMatch(exp, tkt.princ) THEN "NOT_US"
    ELSE IF \E i \in Tried(tkt) : Opens(kt[i], tkt) THEN "ok" ELSE NotOpened(tkt)

(* decrypt_by_keytab_walk and iteration_error *)
Ours(exp) == {i \in DOMAIN kt : SnameMatch(exp, kt[i].princ)}

Named(tkt, at) == {i \in at : kt[i].princ = tkt.princ}

Versions(exp, tkt) == {i \in Named(tkt, Ours(exp)) : kt[i].kvno = tkt.kvno}

IterationError(exp, tkt) ==
    CASE Ours(exp) = {} -> "NOKEY"
      [] Ours(exp) # {} /\ Named(tkt, Ours(exp)) = {} -> "NOT_US"
      [] OTHER -> IF \E i \in Versions(exp, tkt) : kt[i].etype = tkt.etype
                  THEN "BAD_INTEGRITY" ELSE "BADKEYVER"

KeytabWalk(exp, tkt) ==
    IF \E i \in Ours(exp) : Opens(kt[i], tkt) THEN "ok" ELSE IterationError(exp, tkt)

DecryptTicket(exp, tkt) == IF IsMatching(exp) THEN KeytabWalk(exp, tkt) ELSE DecryptForServer(exp, tkt)

-----------------------------------------------------------------------------
(* The checks of verify_inner before and after the replay cache: a request *)
(* refused for its times is remembered all the same.                       *)
Before(r) ==
    CASE ~ r.sealed -> "BAD_INTEGRITY"
      [] r.sealed /\ ~ r.named -> "BADMATCH"
      [] r.sealed /\ r.named /\ ~ r.addr -> "BADADDR"
      [] r.sealed /\ r.named /\ r.addr /\ ~ r.transit -> "ILL_CR_TKT"
      [] OTHER -> "ok"

(* validate_times, then the authenticator's own time, then INVALID. *)
After(r) ==
    CASE r.start > clock + 1 -> "TKT_NYV"
      [] r.start <= clock + 1 /\ r.end < clock - 1 -> "TKT_EXPIRED"
      [] r.start <= clock + 1 /\ r.end >= clock - 1 /\ (clock - r.ctime > 1 \/ r.ctime - clock > 1) -> "SKEW"
      [] OTHER -> IF r.invalid THEN "TKT_INVALID" ELSE IF r.cksum = "bad" THEN "BAD_INTEGRITY" ELSE "ok"

(* negotiate_etype: the subkey's and the session's enctypes must be        *)
(* permitted; the first permitted one that was named is used.              *)
Negotiate(r) ==
    LET wanted == SelectSeq(Permitted, LAMBDA e : e \in r.desired \cup {r.session, r.subkey})
    IN  IF {r.session, r.subkey} \ {"none"} \subseteq ToSet(Permitted) THEN wanted[1] ELSE "none"

Listening == [pc |-> "listen", out |-> "none", flags |-> {}, exp |-> <<0, 0>>,
              sane |-> FALSE, heimdal |-> FALSE, key |-> "none", negotiated |-> "none",
              cstate |-> 0, tags |-> {}, got |-> <<>>]

Refuse(a, code) == [a EXCEPT !.out = code]

(* AcceptorAuthContext::from_ap_req and mk_rep, which replaces the subkey  *)
(* when the flags ask for one of the acceptor's own.                       *)
FromApReq(a, r, flags, etype) ==
    IF etype = "none" THEN Refuse(a, "NOPERM_ETYPE")
    ELSE [a EXCEPT !.pc = "open", !.out = "ok", !.flags = flags, !.exp = peer.start,
                   !.negotiated = etype, !.cstate = 0, !.got = <<>>, !.tags = {},
                   !.key = IF "subkey" \in flags THEN "acceptor" ELSE IF r.subkey # "none" THEN "sub" ELSE "session"]

Remembered(a, r, flags) ==
    IF After(r) # "ok" THEN Refuse(a, After(r)) ELSE FromApReq(a, r, flags, Negotiate(r))

VerifyInner(r, flags, opened, before) ==
    CASE opened # "ok" -> Refuse(ac, opened)
      [] opened = "ok" /\ before # "ok" -> Refuse(ac, before)
      [] opened = "ok" /\ before = "ok" /\ r.tag \in net.reqs -> Refuse(ac, "REPEAT")
      [] OTHER -> Remembered(ac, r, flags)

ApReq(r, exp, flags) ==
    /\ ac.pc = "listen" /\ (r.tag \in net.reqs \/ Cardinality(net.reqs) < MaxTries)
    /\ ac' = VerifyInner(r, flags, DecryptTicket(exp, r.tkt), Before(r))
    /\ net' = IF DecryptTicket(exp, r.tkt) = "ok" /\ Before(r) = "ok"
              THEN [net EXCEPT !.reqs = @ \cup {r.tag}] ELSE net
    /\ UNCHANGED <<kt, peer, clock>>

-----------------------------------------------------------------------------
Succ(n) == IF n[2] < 65535 THEN <<n[1], n[2] + 1>> ELSE <<(n[1] + 1) % 65536, 0>>

(* A number with the sign bit of its shortest encoding set comes extended. *)
Encoded(n) ==
    CASE ~ peer.heimdal -> n
      [] peer.heimdal /\ n[1] = 0 /\ n[2] \in 128 .. 255 -> <<65535, 65280 + n[2]>>
      [] peer.heimdal /\ n[1] = 0 /\ n[2] >= 32768 -> <<65535, n[2]>>
      [] peer.heimdal /\ n[1] \in 128 .. 255 -> <<65280 + n[1], n[2]>>
      [] OTHER -> n

(* chk_heimdal_seqnum *)
ChkHeimdal(exp, in) ==
    \/ exp[1] \in 128 .. 255 /\ in[1] >= 65408 /\ in[1] % 256 = exp[1] /\ in[2] = exp[2]
    \/ exp[1] = 0 /\ exp[2] >= 32768 /\ in = <<65535, exp[2]>>
    \/ exp[1] = 0 /\ exp[2] \in 128 .. 255 /\ in = <<65535, 65280 + exp[2]>>

Ambiguous(n) == n[1] \in 128 .. 255 \/ (n[1] = 0 /\ (n[2] >= 32768 \/ n[2] \in 128 .. 255))

(* Mutant of SeqCheck: sign-extended numbers are not recognised. *)
SeqCheckExact(a, in) == IF in = a.exp THEN {[a EXCEPT !.sane = TRUE]} ELSE {}

(* RemoteSeq::check: the context afterwards, or nothing when the number is *)
(* out of order.                                                           *)
SeqCheck(a, in) ==
    CASE a.sane -> {b \in {a} : in = a.exp}
      [] ~ a.sane /\ in[1] >= 65408 ->
            IF (a.exp[1] >= 65408 \/ ~ a.heimdal) /\ in = a.exp THEN {a}
            ELSE {[b EXCEPT !.heimdal = TRUE] : b \in {c \in {a} : ChkHeimdal(a.exp, in)}}
      [] ~ a.sane /\ in[1] < 65408 /\ in = a.exp -> {[a EXCEPT !.sane = Ambiguous(in)]}
      [] OTHER ->
            {[b EXCEPT !.heimdal = TRUE] :
                b \in {c \in {a} : a.exp = <<0, 0>> /\ ~ a.heimdal /\ in \in {<<0, 256>>, <<1, 0>>, <<256, 0>>}}}

(* check_seq; an absent number is zero. *)
CheckSeq(a, m) ==
    IF "seq" \notin a.flags THEN {a}
    ELSE {[b EXCEPT !.exp = Succ(@)] : b \in SeqCheck(a, m.seq)}

(* check_replay *)
CheckReplay(a, m) ==
    IF "time" \notin a.flags THEN {a}
    ELSE IF clock - m.at > 1 \/ m.n \in a.tags THEN {} ELSE {[a EXCEPT !.tags = @ \cup {m.n}]}

(* rd_priv and rd_safe; a chained cipher state moves with what decrypts,   *)
(* and stays moved when a later check refuses it.                          *)
Decrypts(a, m) ==
    m.key = a.key /\ (m.priv /\ "chain" \in a.flags => m.prev = a.cstate)

Moved(a, m) == IF m.priv /\ "chain" \in a.flags THEN [a EXCEPT !.cstate = m.n] ELSE a

CheckAddrs(a, m) == {b \in {a} : m.addr}

Judged(a, m) ==
    UNION {CheckSeq(b, m) : b \in UNION {CheckReplay(c, m) : c \in CheckAddrs(a, m)}}

(* What is left of the tags when the sequence number is refused. *)
Tagged(a, m) == [a EXCEPT !.tags = UNION {b.tags : b \in UNION {CheckReplay(c, m) : c \in CheckAddrs(a, m)}} \cup @]

Read(a, m) ==
    IF ~ Decrypts(a, m) THEN {a}
    ELSE IF Judged(Moved(a, m), m) = {} THEN {Tagged(Moved(a, m), m)}
    ELSE {[b EXCEPT !.got = Append(@, m.n)] : b \in Judged(Moved(a, m), m)}

RdMessage(m) ==
    /\ ac.pc = "open" /\ m \in net.msgs /\ Len(ac.got) < MaxSent
    /\ ac' \in Read(ac, m)
    /\ UNCHANGED <<kt, peer, net, clock>>

(* mk_priv and the builders of safe_priv.rs, at the peer. *)
Message(priv, addr) ==
    [n |-> peer.sent + 1, seq |-> Encoded(peer.seq), key |-> ac.key, priv |-> priv,
     prev |-> peer.last, addr |-> addr, at |-> clock]

PeerSends(priv, addr) ==
    /\ ac.pc = "open" /\ peer.sent < MaxSent /\ net.reqs \in Talkers
    /\ net' = [net EXCEPT !.msgs = @ \cup {Message(priv, addr)}]
    /\ peer' = [peer EXCEPT !.sent = @ + 1, !.seq = Succ(@), !.last = IF priv THEN peer.sent + 1 ELSE @]
    /\ UNCHANGED <<kt, ac, clock>>

Rekey == kt' \in Keytabs /\ ac.pc = "listen" /\ UNCHANGED <<ac, peer, net, clock>>

Tick ==
    /\ clock < MaxClock
    /\ clock' = clock + 1
    /\ UNCHANGED <<kt, ac, peer, net>>

Init ==
    /\ kt \in Keytabs
    /\ ac = Listening
    /\ \E p \in Peers : peer = [heimdal |-> p.heimdal, start |-> p.start, seq |-> p.start, sent |-> 0, last |-> 0]
    /\ net = [reqs |-> {}, msgs |-> {}]
    /\ clock = 2

Next ==
    \/ \E r \in Requests, exp \in Expecteds, flags \in FlagSets : ApReq(r, exp, flags)
    \/ \E m \in net.msgs : RdMessage(m)
    \/ \E kind \in {<<TRUE, TRUE>>, <<FALSE, TRUE>>, <<TRUE, FALSE>>} : PeerSends(kind[1], kind[2])
    \/ Rekey \/ Tick

Spec == Init /\ [][Next]_vars

-----------------------------------------------------------------------------
(* A ticket under any key that the keytab still holds for a server that is *)
(* expected is opened, whatever else the keytab holds after a change of    *)
(* keys, and one for another server is not (decrypt_by_keytab_walk,        *)
(* decrypt_for_server).                                                    *)
TicketOpens ==
    ac.pc = "listen" => \A r \in Requests, exp \in Expecteds :
        /\ (\E i \in DOMAIN kt : /\ kt[i].princ = r.tkt.princ /\ kt[i].kvno = r.tkt.kvno
                                 /\ Opens(kt[i], r.tkt) /\ SnameMatch(exp, r.tkt.princ))
               => DecryptTicket(exp, r.tkt) = "ok"
        /\ DecryptTicket(exp, r.tkt) = "ok" =>
              \E i \in DOMAIN kt : /\ Opens(kt[i], r.tkt)
                                   /\ SnameMatch(exp, r.tkt.princ) \/ SnameMatch(exp, kt[i].princ)

(* With sequence numbers the application is given what the peer sent, in   *)
(* its order, without a gap or a repetition, and with times nothing twice; *)
(* and the message whose turn it is, if it is fresh and was not tried      *)
(* before, is accepted from peers of either encoding, on every side of the *)
(* numbers where the encodings part (RemoteSeq::check, check_replay).      *)
MessagesInOrder ==
    /\ "seq" \in ac.flags => \A i \in DOMAIN ac.got : ac.got[i] = i
    /\ "time" \in ac.flags => \A i, j \in DOMAIN ac.got : i # j => ac.got[i] # ac.got[j]
    /\ \A m \in net.msgs :
          /\ ac.pc = "open" /\ m.n = Len(ac.got) + 1 /\ m.addr /\ m.n \notin ac.tags /\ clock - m.at <= 1
          /\ Decrypts(ac, m)
          /\ \A i \in DOMAIN ac.got : ac.got[i] = i
          => Judged(ac, m) # {}
=============================================================================
