--------------------------------- MODULE Gss ---------------------------------
(***************************************************************************)
(* Security contexts of krb5-gss: the initiator and the acceptor exchange  *)
(* AP-REQ and AP-REP, settle flags, channel bindings, delegation, subkeys  *)
(* and sequence numbers, then wrap, sign and unwrap messages               *)
(* (context.rs, seqstate.rs, wrap.rs, mic.rs, iov.rs, spnego.rs, deleg.rs, *)
(* export.rs).  The initiator may give up and start again, the network     *)
(* keeps every token and delivers any of them, in any order, again and     *)
(* again; either side may hand its context to another process.             *)
(*                                                                         *)
(* Request n carries subkey <<"sub", n>>, the acceptor's own subkey is     *)
(* <<"acc", n>>.  A flag word is a set of flag names, bindings a name or   *)
(* "none".                                                                 *)
(***************************************************************************)
EXTENDS Integers, FiniteSets

CONSTANTS
    Asks,       \* what initiators ask: see Init and ProcessChecksum
    Acceptors,  \* the acceptor's [cb, cfx]: its bindings, and if enctypes are CFX ones
    Bases,      \* first sequence numbers
    MaxReq,     \* bound on the AP-REQs of the initiator
    MaxSent,    \* bound on the messages on the network
    Window,     \* 64 in the code
    Modulus     \* 2^32 or 2^64 in the code

VARIABLES ask, conf, ini, acp, wire

vars == <<ask, conf, ini, acp, wire>>

InitiatorFlags == {"mutual", "replay", "sequence", "conf", "integ", "dce"}

-----------------------------------------------------------------------------
(* SeqState: the bits of recvmap are the distances back from next. *)
NewSeqState(base, flags) ==
    [replay |-> "replay" \in flags, sequence |-> "sequence" \in flags, base |-> base, next |-> 0, map |-> {}]

Rel(q, seq) == (seq - q.base) % Modulus

PastWindow(q, seq) == Rel(q, seq) < q.next /\ q.next - Rel(q, seq) > Window

Advanced(q, rel) ==
    [q EXCEPT !.map = {k \in {b + (rel - q.next) + 1 : b \in @} : k < Window} \cup {0},
              !.next = (rel + 1) % Modulus]

Behind(q, back) == [q EXCEPT !.map = @ \cup {back - 1}]

(* Mutant of Seen: the map is not consulted at the far edge of the window. *)
SeenShort(q, back) == q.replay /\ back - 1 \in q.map /\ back < Window

Seen(q, back) == q.replay /\ back - 1 \in q.map

(* SeqState::check and accept_seq: the state after a message that is       *)
(* accepted, nothing for one that is refused.                              *)
AcceptSeq(q, seq) ==
    CASE ~ q.replay /\ ~ q.sequence -> {q}
      [] (q.replay \/ q.sequence) /\ Rel(q, seq) >= q.next -> {Advanced(q, Rel(q, seq))}
      [] (q.replay \/ q.sequence) /\ PastWindow(q, seq) -> IF q.sequence /\ ~ q.replay THEN {q} ELSE {}
      [] OTHER -> IF Seen(q, q.next - Rel(q, seq)) THEN {} ELSE {Behind(q, q.next - Rel(q, seq))}

-----------------------------------------------------------------------------
NoKey == <<"none", 0>>
NoContext == [st |-> "none", init |-> FALSE, key |-> NoKey, sub |-> NoKey, send |-> 0,
              recv |-> NewSeqState(0, {}), flags |-> {}, deleg |-> FALSE, stamp |-> 0, dce |-> FALSE,
              got |-> {}, twice |-> FALSE]

(* init_sec_context; the stamp is the authenticator's time.  DCE style is *)
(* what other initiators ask for: a bare token, with or without the flag.  *)
ReqFlags ==
    ((ask.flags \cap InitiatorFlags) \ {"dce"}) \cup {"conf", "integ"}
        \cup (IF ask.deleg = "none" THEN {} ELSE {"deleg"})
        \cup (IF ask.dce = "both" THEN {"dce"} ELSE {})

ReqToken(n, base) ==
    [kind |-> "req", n |-> n, base |-> base, flags |-> ReqFlags, mutual |-> "mutual" \in ReqFlags,
     cb |-> ask.cb, cbt |-> "bound" \in ask.flags, cksum |-> ask.cksum, deleg |-> ask.deleg,
     dce |-> ask.dce # "none", list |-> ask.spnego]

InitSecContext(n, base) ==
    [NoContext EXCEPT !.st = IF "mutual" \in ReqFlags THEN "wait" ELSE "open", !.init = TRUE,
                      !.key = <<"sub", n>>, !.send = base, !.flags = ReqFlags, !.stamp = n,
                      !.recv = NewSeqState(IF "mutual" \in ReqFlags THEN 0 ELSE base, ReqFlags)]

Expired == ask.expired

Initiate(base) ==
    /\ ~ Expired
    /\ ini.stamp < MaxReq
    /\ ini' = InitSecContext(ini.stamp + 1, base)
    /\ wire' = wire \cup {ReqToken(ini.stamp + 1, base)}
    /\ UNCHANGED <<ask, conf, acp>>

-----------------------------------------------------------------------------
CbMatch(r) == conf.cb # "none" /\ r.cb = conf.cb

(* Mutant of CheckCb: a client that claims to know bindings may send none. *)
CheckCbLax(r) == conf.cb = "none" \/ r.cb \in {"none", conf.cb}

(* The bindings in process_checksum, with check_cbt. *)
CheckCb(r) ==
    /\ conf.cb = "none" \/ r.cb \in {"none", conf.cb} \/ r.cksum # "gss"
    /\ r.cbt /\ conf.cb # "none" => CbMatch(r) /\ r.cksum = "gss"

(* extract_delegated: the KRB-CRED opens with the subkey or the session    *)
(* key, else the whole context is refused.                                 *)
DelegOk(r) == "deleg" \in r.flags => r.deleg # "sealed otherwise"

Flags(r) ==
    CASE r.cksum = "none" -> {}
      [] r.cksum = "other" -> {"replay", "sequence"} \cup (IF r.mutual THEN {"mutual"} ELSE {})
      [] OTHER -> (r.flags \cap InitiatorFlags) \cup (IF CbMatch(r) THEN {"bound"} ELSE {})
                      \cup ({"deleg"} \cap r.flags)

ProcessChecksum(r) ==
    /\ r.cksum \in {"none", "other", "gss"}
    /\ CheckCb(r)
    /\ r.cksum = "gss" => DelegOk(r)
    /\ r.dce <=> "dce" \in Flags(r)

(* accept_ap_req with verify_ap_req of Session behind it; a request is     *)
(* accepted once.  With mutual authentication the acceptor numbers its     *)
(* messages itself and, for CFX enctypes, makes a subkey of its own.       *)
AcceptContext(r, flags, base) ==
    [NoContext EXCEPT !.st = "open", !.key = <<"sub", r.n>>, !.flags = flags,
                      !.deleg = "deleg" \in flags, !.dce = r.dce, !.stamp = r.n,
                      !.sub = IF "mutual" \in flags /\ conf.cfx THEN <<"acc", r.n>> ELSE NoKey,
                      !.send = IF "mutual" \in flags THEN base ELSE r.base,
                      !.recv = NewSeqState(r.base, flags)]

RepToken(c) ==
    [kind |-> "rep", n |-> c.stamp, base |-> c.send, sub |-> c.sub]

(* get_mic of the mechanism list; wrap, wrap_iov and get_mic otherwise. *)
MessageToken(c, kind) ==
    [kind |-> kind, init |-> c.init, key |-> IF c.sub = NoKey THEN c.key ELSE c.sub,
     acc |-> c.sub # NoKey, seq |-> c.send]

Sent(c) == [c EXCEPT !.send = @ + 1]

Answers(c, r) ==
    (IF "mutual" \in c.flags THEN {RepToken(c)} ELSE {})
        \cup (IF r.list THEN {MessageToken(c, "mic")} ELSE {})

Accepted(c, r) ==
    /\ acp' = [acp EXCEPT ![r.n] = IF r.list THEN Sent(c) ELSE c]
    /\ wire' = wire \cup Answers(c, r)

(* error_token: sent when the client asked for mutual authentication. *)
Refused(r) ==
    /\ acp' = [acp EXCEPT ![r.n].st = "refused"]
    /\ wire' = wire \cup (IF r.mutual \/ "mutual" \in Flags(r) THEN {[kind |-> "error", n |-> r.n]} ELSE {})

AcceptSecContext(r, base) ==
    /\ r \in wire /\ r.kind = "req" /\ acp[r.n].st = "none"
    /\ \/ ProcessChecksum(r) /\ Accepted(AcceptContext(r, Flags(r) \cup (IF r.dce THEN {"mutual"} ELSE {}), base), r)
       \/ ~ ProcessChecksum(r) /\ Refused(r)
    /\ UNCHANGED <<ask, conf, ini>>

-----------------------------------------------------------------------------
(* process_ap_rep compares the time of the authenticator, which an         *)
(* imported context no longer has.                                         *)
Echoes(c, t) == t.n = c.stamp

ProcessApRep(t) ==
    /\ t \in wire /\ t.kind \in {"rep", "error"} /\ ini.st = "wait"
    /\ ini' = IF t.kind = "rep" /\ Echoes(ini, t)
              THEN [ini EXCEPT !.st = "open", !.sub = t.sub, !.recv = NewSeqState(t.base, ini.flags)]
              ELSE [ini EXCEPT !.st = "failed"]
    /\ UNCHANGED <<ask, conf, acp, wire>>

Messages == {t \in wire : t.kind \in {"mic", "wrap"}}

(* wrap, wrap_integ, get_mic and wrap_iov number their tokens alike. *)
Wrap ==
    /\ ini.st = "open" /\ Cardinality(Messages) < MaxSent
    /\ ini' = Sent(ini)
    /\ wire' = wire \cup {MessageToken(ini, "wrap")}
    /\ UNCHANGED <<ask, conf, acp>>

AcceptorWraps(n) ==
    /\ acp[n].st = "open" /\ Cardinality(Messages) < MaxSent
    /\ acp' = [acp EXCEPT ![n] = Sent(acp[n])]
    /\ wire' = wire \cup {MessageToken(acp[n], "wrap")}
    /\ UNCHANGED <<ask, conf, ini>>

(* recv_key and check_direction, then the integrity of the token: it names *)
(* the key it was made with.                                               *)
RecvKey(c, t) == IF t.acc /\ c.sub # NoKey THEN c.sub ELSE c.key

Intact(c, t) == t.init # c.init /\ t.key = RecvKey(c, t)

(* unwrap_v3, verify_mic and unwrap_iov. *)
Unwrapped(c, t) ==
    IF ~ Intact(c, t) THEN {}
    ELSE {[c EXCEPT !.recv = q, !.got = @ \cup {t}, !.twice = @ \/ t \in c.got] : q \in AcceptSeq(c.recv, t.seq)}

Unwrap(t) ==
    /\ t \in Messages
    /\ \/ ini.st = "open" /\ ini' \in Unwrapped(ini, t) /\ UNCHANGED acp
       \/ \E n \in DOMAIN acp, c \in UNION {Unwrapped(acp[m], t) : m \in {m \in DOMAIN acp : acp[m].st = "open"}} :
             /\ c.stamp = n
             /\ acp' = [acp EXCEPT ![n] = c]
             /\ UNCHANGED ini
    /\ UNCHANGED <<ask, conf, wire>>

(* accept_dce: the third leg repeats the acceptor's number. *)
AcceptDce(n) ==
    /\ acp[n].st = "open" /\ acp[n].dce
    /\ \E t \in wire : t.kind = "rep" /\ t.n = n /\ t.base = acp[n].send
    /\ acp' = [acp EXCEPT ![n].dce = FALSE]
    /\ UNCHANGED <<ask, conf, ini, wire>>

(* export_sec_context followed by import_sec_context elsewhere. *)
Imported(c) == [c EXCEPT !.dce = FALSE]

Export ==
    /\ \/ ini.st = "open" /\ ini' = Imported(ini) /\ UNCHANGED acp
       \/ \E n \in DOMAIN acp : acp[n].st = "open" /\ acp' = [acp EXCEPT ![n] = Imported(@)] /\ UNCHANGED ini
    /\ UNCHANGED <<ask, conf, wire>>

Init ==
    /\ ask \in Asks
    /\ conf \in Acceptors
    /\ ini = NoContext
    /\ acp = [n \in 1 .. MaxReq |-> NoContext]
    /\ wire = {}

Next ==
    \/ \E b \in Bases : Initiate(b)
    \/ \E t \in wire, b \in Bases : AcceptSecContext(t, b)
    \/ \E t \in wire : ProcessApRep(t) \/ Unwrap(t)
    \/ Wrap \/ \E n \in DOMAIN acp : (AcceptorWraps(n) \/ AcceptDce(n))
    \/ Export

Spec == Init /\ [][Next]_vars

-----------------------------------------------------------------------------
Contexts == {c \in {ini} \cup {acp[n] : n \in DOMAIN acp} : c.st = "open"}

(* What the peer of a context sent it, under whatever key. *)
FromPeer(c) ==
    {t \in Messages : t.init # c.init
                    /\ t.key \in {<<"sub", c.stamp>>, <<"acc", c.stamp>>}}

(* With replay detection nothing is delivered twice, in whatever order and *)
(* however often tokens arrive, and after a context moved to another       *)
(* process; and a message of the peer that is new and not further back     *)
(* than the window is accepted, so both ends hold the same keys and the    *)
(* same first numbers whichever of the requests was answered               *)
(* (SeqState::check, process_ap_rep, accept_ap_req, import_sec_context).   *)
DeliveredOnce ==
    \A c \in Contexts :
        /\ "replay" \in c.flags => ~ c.twice
        /\ \A t \in FromPeer(c) :
              t \notin c.got /\ ~ (c.recv.replay /\ PastWindow(c.recv, t.seq)) => Unwrapped(c, t) # {}

(* A context is called channel-bound exactly when both sides named the     *)
(* same bindings, an acceptor with bindings never accepts a client that    *)
(* named others or that says it knows bindings and names none, and the     *)
(* initiator opens a context with mutual authentication only with the      *)
(* acceptor's context for that very request (process_checksum, check_cbt,  *)
(* process_ap_rep).                                                        *)
BoundTruly ==
    /\ \A n \in DOMAIN acp : acp[n].st = "open" /\ ask.cksum = "gss" =>
          /\ "bound" \in acp[n].flags <=> conf.cb # "none" /\ ask.cb = conf.cb
          /\ conf.cb # "none" => ask.cb \in {"none", conf.cb}
          /\ conf.cb # "none" /\ "bound" \in ask.flags => ask.cb = conf.cb
    /\ ini.st = "open" /\ "mutual" \in ini.flags =>
          acp[ini.stamp].st = "open" /\ acp[ini.stamp].sub = ini.sub
=============================================================================
