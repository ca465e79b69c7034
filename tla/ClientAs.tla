------------------------------- MODULE ClientAs -------------------------------
(***************************************************************************)
(* The client's side of one AS exchange (krb5-protocol/src/as_ex.rs and    *)
(* as_ex/, preauth.rs, clpreauth.rs): the first request, the walk over the *)
(* mechanisms the KDC offers, SPAKE, PKINIT, FAST armor, and the checks on *)
(* the reply.  The KDC is the environment: after each request it says      *)
(* anything in Says, or the transport fails.                               *)
(*                                                                         *)
(* A request q has [armor, pkinit, anonymous, wantSpake, deferFast,        *)
(* secret, responder, canon, allowed]; `secret' says where the long-term   *)
(* key comes from.  An error of the KDC has [code, data, pa, referral,     *)
(* wrap]; `data' tells an absent, an undecodable and a METHOD-DATA e-data  *)
(* apart and `wrap' how FAST protects it.  A reply has [key, nonce, names, *)
(* server, flagged, times, pk, wrap].  The key that opens it is the        *)
(* client's long-term one, the mechanism's own, or neither.                *)
(***************************************************************************)
EXTENDS Integers, Sequences, FiniteSets, SequencesExt

CONSTANTS
    Asks,      \* the requests the exchange is started with
    Says,      \* what the KDC may answer
    Loaded,    \* the client preauthentication modules that are loaded
    Preferred, \* preferred_preauth_types
    EnctsOff,  \* disable_encrypted_timestamp of the realm
    Timesync,  \* kdc_timesync
    MaxLoops   \* MAX_IN_TKT_LOOPS

VARIABLES q, s

vars == <<q, s>>

(* Padata by type; the SPAKE ones differ in what they carry. *)
PaType(p) == IF p \in {"SPAKE", "SPAKE_CH", "SPAKE_GROUP", "SPAKE_NOSF", "SPAKE_JUNK"}
             THEN "SPAKE" ELSE p

Types(m) == [i \in DOMAIN m.pa |-> PaType(m.pa[i])]

Offers(m, t) == m.data = "method" /\ t \in ToSet(Types(m))

(* method_from_error, retried *)
Junk(m) == m.data = "junk"

Retried(m) == m.data # "none"

(* check_etype_info and select_s2k: the KDC's salt list has no entry of a  *)
(* requested enctype.                                                      *)
BadInfo(m) == Offers(m, "INFO_OTHER")

(* clpreauth::selected and owner_of: the module loaded for a type. *)
Owner ==
    [PK |-> "pkinit", SPAKE |-> "spake", ENC_TS |-> "encrypted_timestamp",
     EC |-> "encrypted_challenge", OTP |-> "otp", EMB |-> "embedder"]

Owned(t) == t \in DOMAIN Owner /\ Owner[t] \in Loaded

Allowed(t) == q.allowed = "any" \/ q.allowed = t

(* sort_krb5_padata_sequence *)
MoveUp(seq, i, base) ==
    SubSeq(seq, 1, base) \o <<seq[i]>> \o SubSeq(seq, base + 1, i - 1)
        \o SubSeq(seq, i + 1, Len(seq))

Prefer(acc, want) ==
    LET at == {i \in acc[2] + 1 .. Len(acc[1]) : acc[1][i] = want}
    IN  IF at = {} THEN acc
        ELSE <<MoveUp(acc[1], CHOOSE i \in at : \A j \in at : i <= j, acc[2]), acc[2] + 1>>

Sorted(types) == FoldLeft(Prefer, <<types, 0>>, Preferred)[1]

-----------------------------------------------------------------------------
End(c, r) == [c EXCEPT !.pc = "ended", !.out = r]

Failed(why) == [ok |-> FALSE, why |-> why, pa |-> "none"]

(* kdc_error and referral_realm: another realm is followed when the name   *)
(* may be canonicalized.                                                   *)
KdcError(c, e) ==
    End(c, IF q.canon /\ e.referral /\ e.code \in {"WRONG_REALM", "C_UNKNOWN"}
           THEN Failed("ClientReferral") ELSE Failed(e.code))

(* next_try and send_as: a request with a nonce of its own. *)
Send(c, pc) == [c EXCEPT !.pc = pc, !.sent = @ + 1]

(* Clock::note: an offset the KDC did not protect is marked so. *)
Note(c, e, armored) ==
    IF Retried(e) THEN [c EXCEPT !.clock = IF armored THEN "trusted" ELSE "untrusted"] ELSE c

(* Mutant of Read: what was read is not kept. *)
ReadForgets(c, how) == <<how, [c EXCEPT !.prompts = @ + 1, !.read = how]>>

(* PasswordCell::get: <<what it says, the exchange afterwards>>. *)
Read(c, how) == <<how, [c EXCEPT !.prompts = @ + 1, !.read = how, !.known = how = "ok"]>>

Key(c) ==
    CASE q.secret = "unreadable" -> {<<"fail", c>>}
      [] q.secret \in {"keys", "given"} \/ c.known -> {<<"ok", c>>}
      [] q.secret = "none" -> {<<"fail", c>>}
      [] OTHER -> {Read(c, "ok"), Read(c, "fail"), Read(c, "interrupted")}

(* fill_response_items and call_responder; a failing responder ends it. *)
Questions(m) ==
    {t \in {"EC", "ENC_TS", "SPAKE"} :
        /\ Offers(m, t) /\ Owned(t) /\ (t = "ENC_TS" => ~ EnctsOff)
        /\ t = "SPAKE" => "SPAKE_CH" \in ToSet(m.pa)}

Asked(m) == q.secret \in {"none", "prompt"} /\ \E t \in Questions(m) : Allowed(t)

AskResponder(c, m) ==
    IF ~ Asked(m) THEN c
    ELSE CASE q.responder = "answers" -> [c EXCEPT !.known = TRUE]
           [] q.responder = "fails" -> End(c, Failed("responder"))
           [] OTHER -> c

(* The password question is not tied to padata when the reply comes bare.  *)
AskGak(c) ==
    IF q.secret \notin {"none", "prompt"} THEN c
    ELSE CASE q.responder = "answers" -> [c EXCEPT !.known = TRUE]
           [] q.responder = "fails" -> End(c, Failed("responder"))
           [] OTHER -> c

-----------------------------------------------------------------------------
(* The checks of finish_as_rep on a reply that was opened: the names, the  *)
(* anonymous ones with their own rule, the times, and the padata of the    *)
(* request that a flagged reply must vouch for.                            *)
NamesFit(m) == m.names = "asked" \/ (m.names = "canonical" /\ (q.canon \/ q.anonymous))

TimesFit(m) == m.times = "fit" \/ (m.times = "skewed" /\ Timesync)

ReqEncPaRep(m, pa) == m.flagged \/ pa = "none"

Fits(m, pa) ==
    /\ m.nonce = "last" /\ m.server = "asked"
    /\ NamesFit(m) /\ TimesFit(m) /\ ReqEncPaRep(m, pa)

Checked(c, m, pa) == End(c, IF Fits(m, pa) THEN [ok |-> TRUE, why |-> "", pa |-> pa]
                            ELSE Failed("ReplyMismatch"))

(* long_term_as_key as the fallback: the reply may be under the long-term  *)
(* key although a mechanism made one of its own.                           *)
Fallback(g, m, pa) ==
    IF g[1] = "ok" /\ m.key = "long" THEN Checked(g[2], m, pa)
    ELSE End(g[2], Failed("ReplyIntegrity"))

(* finish_as_rep with the key `have', and the fallback when there is one. *)
Finish(c, m, have, pa, fallback) ==
    IF m.key = have THEN {Checked(c, m, pa)}
    ELSE IF fallback THEN {Fallback(g, m, pa) : g \in Key(c)}
    ELSE {End(c, Failed("ReplyIntegrity"))}

FinishKey(g, m) ==
    IF g[1] = "ok" THEN Finish(g[2], m, "long", "none", FALSE)
    ELSE {End(g[2], Failed(g[1]))}

(* finish_as_rep_keys *)
FinishAsked(c, m) ==
    IF c.pc = "ended" THEN {c} ELSE UNION {FinishKey(g, m) : g \in Key(c)}

(* finish_bare_reply: a forced SPAKE exchange takes no bare reply. *)
FinishBare(c, m) ==
    IF q.wantSpake THEN {End(c, Failed("SPAKE required"))} ELSE FinishAsked(AskGak(c), m)

-----------------------------------------------------------------------------
(* unarmored_mech *)
Unarmored(t, failed) ==
    /\ Allowed(t) /\ t \notin failed /\ Owned(t)
    /\ t \in {"SPAKE", "ENC_TS", "EMB"} \/ (t = "PK" /\ q.pkinit = "failed")

(* hint_offers_real_mechanism *)
OffersReal(m) ==
    \/ q.wantSpake \/ ~ Retried(m) \/ Junk(m) \/ m.pa = <<>>
    \/ \E t \in ToSet(Types(m)) : Unarmored(t, {})

(* The head of continue_from_hint's loop. *)
NewWalk(c, e) ==
    IF Junk(e) THEN End(c, Failed("decode"))
    ELSE IF BadInfo(e) THEN End(c, Failed("etype"))
    ELSE AskResponder([c EXCEPT !.pc = "walk", !.hint = e], e)

Fails(c, t) == [c EXCEPT !.failed = @ \cup {t}, !.first = TRUE, !.pc = "walk"]

(* process_challenge and spake_round, `again' telling a later round. *)
SpakeItem(m) ==
    IF Offers(m, "SPAKE") THEN SelectSeq(m.pa, LAMBDA p : PaType(p) = "SPAKE")[1] ELSE "none"

SpakeFailed(c, why) ==
    CASE why = "interrupted" -> End(c, Failed("interrupted"))
      [] c.responded -> End(c, Failed("PREAUTH_FAILED"))
      [] q.wantSpake -> End(c, Failed("SPAKE required"))
      [] c.again -> NewWalk(Fails(c, "SPAKE"), c.base)
      [] OTHER -> Fails(c, "SPAKE")

(* pa_spake_response fails on a point that is not on the curve. *)
SpakeAnswer(g) ==
    IF g[1] # "ok" THEN {SpakeFailed(g[2], g[1])}
    ELSE {Send([g[2] EXCEPT !.responded = TRUE], "spake"), SpakeFailed(g[2], "fail")}

SpakeMove(c, m, item) ==
    CASE item \in {"SPAKE", "SPAKE_GROUP"} /\ ~ c.support /\ ~ (c.responded /\ item # "SPAKE") ->
            {Send([c EXCEPT !.support = TRUE], "spake")}
      [] item = "SPAKE_CH" /\ ~ c.responded /\ ~ BadInfo(m) -> UNION {SpakeAnswer(g) : g \in Key(c)}
      [] item = "SPAKE_CH" /\ ~ c.responded -> {End(c, Failed("etype"))}
      [] OTHER -> {SpakeFailed(c, "fail")}

SpakeRound(c, m) == IF c.pc = "ended" THEN {c} ELSE SpakeMove(c, m, SpakeItem(m))

SpakeNext(c, m) ==
    IF Junk(m) THEN {End(c, Failed("decode"))}
    ELSE SpakeRound(AskResponder([c EXCEPT !.again = TRUE], m), m)

(* continue_spake and spake_forced *)
BeginSpake(c, m) ==
    SpakeRound([c EXCEPT !.pc = "walk", !.support = FALSE, !.responded = FALSE,
                         !.again = FALSE, !.base = m], m)

BeginWalk(c, e) ==
    IF ~ q.wantSpake
    THEN {NewWalk([c EXCEPT !.failed = IF "spake" \in Loaded THEN {} ELSE {"SPAKE"}], e)}
    ELSE IF "spake" \notin Loaded THEN {End(c, Failed("NoMech"))}
    ELSE IF Junk(e) \/ BadInfo(e) THEN {End(c, Failed("decode"))}
    ELSE BeginSpake(c, e)

Timestamp(g, t) ==
    CASE g[1] = "ok" -> Send(g[2], "encts")
      [] g[1] = "fail" -> Fails(g[2], t)
      [] OTHER -> End(g[2], Failed("interrupted"))

(* continue_preauth up to its request. *)
ContinuePreauth(c) ==
    IF EnctsOff THEN {Fails(c, "ENC_TS")} ELSE {Timestamp(g, "ENC_TS") : g \in Key(c)}

(* continue_embedder: a site's module makes its padata or does not. *)
ContinueEmbedder(c) == {Send(c, "embedder"), End(c, Failed("NoMech"))}

NoneLeft(c) ==
    CASE c.refused.kind = "err" -> KdcError(c, c.refused)
      [] c.first -> End(c, Failed("PreauthFailed"))
      [] OTHER -> End(c, Failed("NoMech"))

TryMech(c, open) ==
    IF open = <<>> THEN {NoneLeft(c)}
    ELSE CASE open[1] = "PK" -> {Fails(c, "PK")}
           [] open[1] = "SPAKE" -> BeginSpake(c, c.hint)
           [] open[1] = "ENC_TS" -> ContinuePreauth(c)
           [] open[1] = "EMB" -> ContinueEmbedder(c)

WalkStep(c) ==
    TryMech(c, SelectSeq(Sorted(Types(c.hint)), LAMBDA t : Unarmored(t, c.failed)))

-----------------------------------------------------------------------------
NoError == [kind |-> "none", pa |-> <<>>, data |-> "none"]

Fresh ==
    [pc |-> "start", hint |-> NoError, failed |-> {}, first |-> FALSE, refused |-> NoError,
     base |-> NoError, support |-> FALSE, responded |-> FALSE, again |-> FALSE,
     saved |-> NoError, tries |-> 0, known |-> FALSE, prompts |-> 0, read |-> "none",
     clock |-> "none", sent |-> 0, heard |-> "nothing", out |-> Failed("none")]

Init == q \in Asks /\ s = Fresh

(* refuse_spake_combo and the head of as_exchange_inner. *)
StartWith(c) ==
    CASE q.wantSpake /\ (q.armor \/ q.pkinit = "client") -> End(c, Failed("SPAKE exclusive"))
      [] q.armor /\ ~ q.wantSpake -> Send(c, "fast")
      [] ~ q.armor /\ "pkinit" \in Loaded /\ (q.pkinit = "client" \/ q.anonymous) ->
            IF q.pkinit = "none" THEN End(c, Failed("ReplyMismatch")) ELSE Send(c, "pkinit1")
      [] q.anonymous /\ ~ q.armor -> End(c, Failed("NoMech"))
      [] OTHER -> Send(c, "first")

Start == s.pc = "start" /\ s' = StartWith(s) /\ UNCHANGED q

(* upgrade_to_fast: an offer of FAST starts the exchange over with armor. *)
Upgrades(m) == q.deferFast /\ Offers(m, "FX_FAST")

FirstError(c, e) ==
    CASE Upgrades(e) -> {End(c, Failed("FastUpgrade"))}
      [] e.code = "PREAUTH_REQUIRED" /\ ~ OffersReal(e) -> {End(c, Failed("NoMech"))}
      [] q.wantSpake /\ e.code = "MORE_PREAUTH" -> BeginWalk(c, e)
      [] e.code = "PREAUTH_REQUIRED" -> BeginWalk(Note(c, e, FALSE), e)
      [] OTHER -> {KdcError(c, e)}

(* send_as and classify: an answer is heard, or the transport fails. *)
Hear(c, m) == [c EXCEPT !.heard = m.wrap]

Lost == {End(s, Failed("Io")), End(s, Failed("UnexpectedPdu"))}

OnFirst ==
    /\ s.pc = "first"
    /\ \/ \E m \in {x \in Says : x.kind = "rep"} : s' \in FinishBare(Hear(s, m), m)
       \/ \E m \in {x \in Says : x.kind = "err"} : s' \in FirstError(Hear(s, m), m)
       \/ s' \in Lost
    /\ UNCHANGED q

Walk == s.pc = "walk" /\ s' \in WalkStep(s) /\ UNCHANGED q

OnEncts ==
    /\ s.pc = "encts"
    /\ \/ \E m \in {x \in Says : x.kind = "rep"} :
             s' \in Finish(Hear(s, m), m, "long", "ENC_TS", TRUE)
       \/ \E m \in {x \in Says : x.kind = "err"} : s' = KdcError(Hear(s, m), m)
       \/ s' \in Lost
    /\ UNCHANGED q

OnEmbedder ==
    /\ s.pc = "embedder"
    /\ \/ \E m \in {x \in Says : x.kind = "rep"} : s' \in FinishAsked(AskGak(Hear(s, m)), m)
       \/ \E m \in {x \in Says : x.kind = "err"} : s' = KdcError(Hear(s, m), m)
       \/ s' \in Lost
    /\ UNCHANGED q

(* continue_spake after its request: without a response the reply is under *)
(* the long-term key.                                                      *)
SpakeReply(c, m) ==
    IF c.responded THEN Finish(c, m, "pre", "SPAKE", TRUE)
    ELSE UNION {IF g[1] = "ok" THEN Finish(g[2], m, "long", "SPAKE", FALSE)
                ELSE {End(g[2], Failed(g[1]))} : g \in Key(c)}

SpakeRefused(c, e) ==
    IF q.wantSpake THEN End(c, Failed("SPAKE required"))
    ELSE NewWalk([c EXCEPT !.failed = @ \cup {"SPAKE"}, !.refused = e],
                 IF Retried(e) THEN e ELSE c.base)

SpakeError(c, e) ==
    CASE e.code = "MORE_PREAUTH" -> SpakeNext(c, e)
      [] e.code = "PREAUTH_FAILED" /\ ~ c.responded -> {SpakeRefused(Note(c, e, FALSE), e)}
      [] e.code = "PREAUTH_REQUIRED" /\ ~ c.responded ->
            SpakeNext(Note([c EXCEPT !.base = e], e, FALSE), e)
      [] OTHER -> {KdcError(c, e)}

OnSpake ==
    /\ s.pc = "spake"
    /\ \/ \E m \in {x \in Says : x.kind = "rep"} : s' \in SpakeReply(Hear(s, m), m)
       \/ \E m \in {x \in Says : x.kind = "err"} : s' \in SpakeError(Hear(s, m), m)
       \/ s' \in Lost
    /\ UNCHANGED q

-----------------------------------------------------------------------------
(* One turn of continue_pkinit's and finish_fast_pkinit's loops. *)
PkTry(c, pc) ==
    IF c.tries + 1 = MaxLoops THEN End(c, Failed("Looping"))
    ELSE Send([c EXCEPT !.tries = @ + 1], pc)

PkFirstError(c, e) ==
    CASE Upgrades(e) -> {End(c, Failed("FastUpgrade"))}
      [] e.code \notin {"PREAUTH_REQUIRED", "PREAUTH_FAILED"} -> {KdcError(c, e)}
      [] Junk(e) -> {End(c, Failed("decode"))}
      [] ~ Offers(e, "PK") /\ q.anonymous -> {End(c, Failed("NoMech"))}
      [] ~ Offers(e, "PK") -> BeginWalk(Note(c, e, FALSE), e)
      [] BadInfo(e) -> {End(c, Failed("etype"))}
      [] q.pkinit = "failed" -> {End(c, Failed("PreauthFailed"))}
      [] OTHER -> {PkTry(Note(c, e, FALSE), "pkinit")}

PkBare(c, m) ==
    IF q.anonymous THEN {End(c, Failed("ReplyMismatch"))} ELSE FinishBare(c, m)

OnPkinitFirst ==
    /\ s.pc = "pkinit1"
    /\ \/ \E m \in {x \in Says : x.kind = "rep"} : s' \in PkBare(Hear(s, m), m)
       \/ \E m \in {x \in Says : x.kind = "err"} : s' \in PkFirstError(Hear(s, m), m)
       \/ s' \in Lost
    /\ UNCHANGED q

(* verify_kdc_pkinit: the KDC's signature, name and key usage. *)
PkVerified(m) == m.pk = "good"

(* pkinit_reply_key_agile: a reply without a valid PA-PK-AS-REP is taken   *)
(* as a bare one, an undecodable one ends the exchange.                    *)
PkReply(c, m) ==
    CASE PkVerified(m) -> Finish(c, m, "pre", "PK", TRUE)
      [] m.pk = "refused" -> PkBare(c, m)
      [] OTHER -> {End(c, Failed("Crypto"))}

Handled == {"PREAUTH_REQUIRED", "PREAUTH_FAILED", "MORE_PREAUTH"}

(* pkinit_tryagain: the KDC lists a group no smaller than the last one,    *)
(* which may be the last one.                                              *)
TriesAgain(e) == Retried(e) /\ e.code \notin Handled /\ Offers(e, "TD_DH")

PkRefused(c, e) == IF TriesAgain(e) THEN PkTry(c, "pkinit") ELSE KdcError(c, e)

OnPkinit ==
    /\ s.pc = "pkinit"
    /\ \/ \E m \in {x \in Says : x.kind = "rep"} : s' \in PkReply(Hear(s, m), m)
       \/ \E m \in {x \in Says : x.kind = "err"} : s' = PkRefused(Hear(s, m), m)
       \/ s' \in Lost
    /\ UNCHANGED q

-----------------------------------------------------------------------------
(* fast_error_material: what stands outside the armor is final, and only a *)
(* protected error with a cookie and more padata is gone on with.          *)
Retry(e) == e.wrap = "inner" /\ Offers(e, "COOKIE")

(* Mutant of FastFatal: an error outside the armor is walked over. *)
FastFatalInner(c, e, codes) ==
    CASE e.wrap = "noerror" -> Failed("PREAUTH_FAILED")
      [] ~ Offers(e, "COOKIE") \/ e.code \notin codes -> KdcError(c, e).out
      [] OTHER -> Failed("none")

FastFatal(c, e, codes) ==
    CASE e.wrap = "noerror" -> Failed("PREAUTH_FAILED")
      [] ~ Retry(e) \/ e.code \notin codes -> KdcError(c, e).out
      [] OTHER -> Failed("none")

(* fast_mechanism *)
Armored(t, skip) ==
    t \notin skip /\ Owned(t) /\ t # "EMB" /\ (t = "PK" => q.pkinit # "none")

Mechs(e, skip) == SelectSeq(Sorted(Types(e)), LAMBDA t : Allowed(t) /\ Armored(t, skip))

(* The head of continue_fast's rounds: a list without a mechanism gives    *)
(* way to the one SPAKE was picked from.                                   *)
RoundOver(c, e) == AskResponder([c EXCEPT !.pc = "fastWalk", !.hint = e], e)

NewRound(c, e) ==
    IF BadInfo(e) THEN End(c, Failed("etype"))
    ELSE RoundOver(c, IF Mechs(e, c.failed) = <<>> /\ c.saved.kind = "err" THEN c.saved ELSE e)

FastFirst(c, e, fatal) ==
    IF fatal = Failed("none") THEN NewRound(Note(c, e, TRUE), e) ELSE End(c, fatal)

(* finish_fast_as: the FAST response must unwrap under the armor key and   *)
(* the request's nonce, and its finish message must cover the ticket.      *)
Unwraps(m) == m.wrap \in {"inner", "unfinished"}

Finished(m) == m.wrap # "unfinished"

FastDone(c, m, have, pa, fallback) ==
    IF ~ Finished(m) THEN {End(c, Failed("ReplyMismatch"))}
    ELSE Finish(c, m, have, pa, fallback)

FastGak(g, m, pa) ==
    IF g[1] = "ok" THEN FastDone(g[2], m, "long", pa, FALSE) ELSE {End(g[2], Failed(g[1]))}

(* fast_base_key *)
FastBase(c, m, pa) ==
    IF c.pc = "ended" THEN {c} ELSE UNION {FastGak(g, m, pa) : g \in Key(c)}

(* Mutant of FinishFast: a reply without FAST is taken as well. *)
FinishFastBare(c, m, have, pa) ==
    CASE have = "none" \/ (pa = "PK" /\ m.pk = "refused") -> FastBase(AskGak(c), m, pa)
      [] pa = "PK" /\ m.pk = "bad" -> {End(c, Failed("Crypto"))}
      [] OTHER -> FastDone(c, m, have, pa, TRUE)

FinishFast(c, m, have, pa) ==
    CASE ~ Unwraps(m) -> {End(c, Failed("ReplyMismatch"))}
      [] have = "none" \/ (pa = "PK" /\ m.pk = "refused") -> FastBase(AskGak(c), m, pa)
      [] pa = "PK" /\ m.pk = "bad" -> {End(c, Failed("Crypto"))}
      [] OTHER -> FastDone(c, m, have, pa, TRUE)

(* continue_fast up to its rounds. *)
OnFast ==
    /\ s.pc = "fast"
    /\ \/ \E m \in {x \in Says : x.kind = "rep"} : s' \in FinishFast(Hear(s, m), m, "none", "none")
       \/ \E m \in {x \in Says : x.kind = "err"} :
             s' = FastFirst(Hear(s, m), m, FastFatal(s, m, {"PREAUTH_REQUIRED"}))
       \/ s' \in Lost
    /\ UNCHANGED q

(* A failing mechanism is skipped; an interrupted prompt ends it. *)
FastFails(c, t, why) ==
    IF why = "interrupted" THEN End(c, Failed("interrupted"))
    ELSE [c EXCEPT !.failed = @ \cup {t}, !.first = TRUE, !.pc = "fastWalk"]

(* finish_fast_spake's round, at most four of them. *)
FastSpakeFailed(c, why) ==
    IF c.support \/ c.responded \/ why = "interrupted"
    THEN IF why = "interrupted" THEN End(c, Failed("interrupted"))
         ELSE NewRound(FastFails(c, "SPAKE", why), c.base)
    ELSE FastFails(c, "SPAKE", why)

FastSpakeAnswer(g) ==
    IF g[1] # "ok" THEN {FastSpakeFailed(g[2], g[1])}
    ELSE {Send([g[2] EXCEPT !.responded = TRUE], "fastSpake"), FastSpakeFailed(g[2], "fail")}

FastSpakeMove(c, m, item) ==
    CASE item \in {"SPAKE", "SPAKE_GROUP"} /\ ~ c.support /\ ~ (c.responded /\ item # "SPAKE") ->
            {Send([c EXCEPT !.support = TRUE], "fastSpake")}
      [] item = "SPAKE_CH" /\ ~ c.responded /\ ~ BadInfo(m) ->
            UNION {FastSpakeAnswer(g) : g \in Key(c)}
      [] item = "SPAKE_CH" /\ ~ c.responded -> {End(c, Failed("etype"))}
      [] OTHER -> {FastSpakeFailed(c, "fail")}

FastSpakeRound(c, m) ==
    IF c.pc = "ended" THEN {c}
    ELSE IF c.tries = 4 THEN {End(c, Failed("NoMech"))}
    ELSE FastSpakeMove([c EXCEPT !.tries = @ + 1], m, SpakeItem(m))

BeginFastSpake(c) ==
    FastSpakeRound([c EXCEPT !.saved = c.hint, !.base = c.hint, !.support = FALSE,
                             !.responded = FALSE, !.tries = 0], c.hint)

(* fast_key_mechanism up to its request; only the timestamp takes an       *)
(* offset the KDC did not protect.                                         *)
FastKey(g, t) ==
    IF g[1] = "ok" THEN Send([g[2] EXCEPT !.base = [kind |-> t, pa |-> <<>>, data |-> "none"]], "fastKey")
    ELSE FastFails(g[2], t, g[1])

FastKeyMech(c, t) ==
    IF t = "ENC_TS" /\ EnctsOff THEN {FastFails(c, t, "fail")} ELSE {FastKey(g, t) : g \in Key(c)}

(* otp::process: the token's prompts. *)
FastOtp(c) ==
    {Send(c, "fastOtp"), FastFails(c, "OTP", "fail"), FastFails(c, "OTP", "interrupted")}

FastPk(c) ==
    IF q.pkinit = "failed" THEN FastFails(c, "PK", "fail")
    ELSE PkTry([c EXCEPT !.tries = 0], "fastPkinit")

FastTry(c, open) ==
    IF open = <<>> THEN {NoneLeft(c)}
    ELSE CASE open[1] = "PK" -> {FastPk(c)}
           [] open[1] = "OTP" -> FastOtp(c)
           [] open[1] = "SPAKE" -> BeginFastSpake(c)
           [] OTHER -> FastKeyMech(c, open[1])

FastWalk == s.pc = "fastWalk" /\ s' \in FastTry(s, Mechs(s.hint, s.failed)) /\ UNCHANGED q

FastKeyError(c, e) == End(c, IF e.wrap = "noerror" THEN Failed("PREAUTH_FAILED") ELSE KdcError(c, e).out)

OnFastKey ==
    /\ s.pc \in {"fastKey", "fastOtp"}
    /\ \/ \E m \in {x \in Says : x.kind = "rep"} :
             s' \in IF s.pc = "fastKey" THEN FinishFast(Hear(s, m), m, "long", s.base.kind)
                    ELSE FinishFast(Hear(s, m), m, "pre", "OTP")
       \/ \E m \in {x \in Says : x.kind = "err"} : s' = FastKeyError(Hear(s, m), m)
       \/ s' \in Lost
    /\ UNCHANGED q

(* finish_fast_spake after its request. *)
FastSpakeError(c, e, fatal) ==
    CASE Retry(e) /\ e.code = "PREAUTH_FAILED" /\ ~ c.responded ->
            {NewRound(Note([c EXCEPT !.failed = @ \cup {"SPAKE"}, !.refused = e], e, TRUE), e)}
      [] fatal # Failed("none") -> {End(c, fatal)}
      [] OTHER -> FastSpakeRound(AskResponder(Note(c, e, TRUE), e), e)

FastSpakeKey(g, m) ==
    IF g[1] = "ok" THEN FinishFast(g[2], m, "long", "SPAKE") ELSE {End(g[2], Failed(g[1]))}

FastSpakeReply(c, m) ==
    IF c.responded THEN FinishFast(c, m, "pre", "SPAKE")
    ELSE UNION {FastSpakeKey(g, m) : g \in Key(c)}

OnFastSpake ==
    /\ s.pc = "fastSpake"
    /\ \/ \E m \in {x \in Says : x.kind = "rep"} : s' \in FastSpakeReply(Hear(s, m), m)
       \/ \E m \in {x \in Says : x.kind = "err"} :
             s' \in FastSpakeError(Hear(s, m), m,
                                   FastFatal(s, m, {"PREAUTH_REQUIRED", "MORE_PREAUTH"}))
       \/ s' \in Lost
    /\ UNCHANGED q

FastPkError(c, e) ==
    IF Retry(e) /\ TriesAgain(e) THEN PkTry(c, "fastPkinit") ELSE FastKeyError(c, e)

OnFastPkinit ==
    /\ s.pc = "fastPkinit"
    /\ \/ \E m \in {x \in Says : x.kind = "rep"} : s' \in FinishFast(Hear(s, m), m, "pre", "PK")
       \/ \E m \in {x \in Says : x.kind = "err"} : s' = FastPkError(Hear(s, m), m)
       \/ s' \in Lost
    /\ UNCHANGED q

Next ==
    \/ Start \/ OnFirst \/ Walk \/ OnEncts \/ OnEmbedder \/ OnSpake
    \/ OnPkinitFirst \/ OnPkinit
    \/ OnFast \/ FastWalk \/ OnFastKey \/ OnFastSpake \/ OnFastPkinit

(* Every answer or failure of the transport arrives: the socket's waits    *)
(* are bounded.                                                            *)
Spec == Init /\ [][Next]_vars /\ WF_vars(Next)

-----------------------------------------------------------------------------
(* However the KDC answers, the exchange ends: every round either ends it, *)
(* fails one more mechanism, or uses one of a bounded number of tries.     *)
Ends == <>(s.pc = "ended")

(* With armor nothing the KDC says outside it moves the exchange: after an *)
(* unprotected or unfinished answer no request follows, and no ticket is   *)
(* taken from one.                                                         *)
ArmorStep ==
    q.armor => /\ s'.sent > s.sent => s'.heard \in {"nothing", "inner"}
               /\ s'.out.ok => s'.heard = "inner"

ArmorHolds == [][ArmorStep]_vars

(* A password that was read is not asked for again, whatever mechanism     *)
(* fails after it, and an interrupted prompt ends the exchange.            *)
PromptStep ==
    /\ s'.prompts > s.prompts => s.read # "ok"
    /\ s'.read = "interrupted" => s'.pc = "ended"

PromptsEnd == [][PromptStep]_vars
=============================================================================
