-------------------------------- MODULE Issue --------------------------------
(***************************************************************************)
(* The KDCs of several realms issue tickets (krb5-kdc/src/issue/as_req.rs  *)
(* and tgs_req.rs).  Each realm has its own database; the same code serves *)
(* all of them.  tickets is the sequence of the tickets issued so far; a   *)
(* ticket remembers the ticket it was issued from (parent, 0 for an AS     *)
(* ticket), the evidence it was issued on, the tickets before it in its    *)
(* chain, all that went into it (sources) and the realms whose KDCs wrote  *)
(* its chain (via), which the program does not store.                      *)
(***************************************************************************)
EXTENDS KdcUtil

CONSTANTS
    Scenes,      \* databases, requests, initial tickets and the bound on tickets that
                 \* belong together
    HostRealm,   \* realm_for_host, on the hosts it knows
    MaxKept,     \* bound on the cookies and on the tokens handed out
    MaxTime,     \* bound on the clock
    MaxTokens    \* bound on the OTP tokens of a principal

ASSUME IssueAssumption == {MaxKept, MaxTime, MaxTokens} \subseteq Nat

VARIABLES
    now,      \* the clock of the KDCs
    scene,    \* the requests of this behaviour
    db,       \* db[realm] is the database of the realm
    tickets,
    cookies,  \* the FX-COOKIEs handed out
    fresh     \* the freshness tokens handed out

vars == <<now, scene, db, tickets, cookies, fresh>>

Tgt(realm) == db[realm][Krbtgt(realm), realm]

Fetch(realm, id) == IF id \in DOMAIN db[realm] THEN {db[realm][id]} ELSE {}

Refused(code) == [code |-> code, tkt |-> {}]

(* omit_start_if_auth and its readers *)
EffectiveStart(start, authtime) == IF start = 0 THEN authtime ELSE start

StartTime(body) == IF "POSTDATED" \in body.opts THEN body.from ELSE now

(* RENEWABLE goes with renew_till. *)
WithRenewable(flags, renewTill) ==
    IF renewTill = {} THEN flags \ {"RENEWABLE"} ELSE flags \cup {"RENEWABLE"}

-----------------------------------------------------------------------------
(* lookup_client *)
LookupClient(realm, body) ==
    LET client == Fetch(realm, <<body.cname, realm>>)
        server == Fetch(realm, <<body.sname, realm>>)
    IN  IF body.realm # realm \/ client = {} THEN "C_PRINCIPAL_UNKNOWN"
        ELSE IF server = {} THEN "S_PRINCIPAL_UNKNOWN"
        ELSE Then(ValidateAsRequest(Only(client), Only(server), body, now),
                  IF SelectSessionKeytype(Only(server), body.etypes) = {}
                  THEN "ETYPE_NOSUPP" ELSE Ok)

(* select_client_key: the current key of the first requested enctype the   *)
(* client has.                                                             *)
SelectClientKey(client, etypes) ==
    IF Range(etypes) \cap client.etypes = {} THEN {} ELSE {<<client.id, CurrentKvno(client)>>}

(* finish_process_as_req; done is what preauthentication proved. *)
FinishProcessAsReq(realm, body, client, server, ikey, done, wantPac, caddr) ==
    LET anonymous == "ANONYMOUS" \in body.opts
        start == StartTime(body)
        end == KdcGetTicketEndtime(start, {}, body.till, {client}, server)
        renewTill == KdcGetTicketRenewtime(body, {}, {client}, server, start, end)
        flags == WithRenewable(GetTicketFlags(body.opts, {client}, server, {}), renewTill)
                     \cup (IF done.kind = "None" THEN {} ELSE {"PRE_AUTHENT"})
        inds == IF done.kind = "None" THEN {} ELSE done.inds
        kvno == CurrentKvno(Tgt(realm))
        noAd == "NO_AUTH_DATA_REQUIRED" \in server.attrs
        code == FirstRefusal(<<
            <<done.kind = "None" /\ ikey = {}, "ETYPE_NOSUPP">>,
            <<CheckIndicators(server, inds) # Ok, "POLICY">> >>)
    IN  IF code # Ok THEN Refused(code)
        ELSE [code |-> Ok, tkt |->
            {[sname |-> body.sname, srealm |-> realm, kvno |-> CurrentKvno(server),
              cname |-> client.id[1], crealm |-> IF anonymous THEN AnonymousRealm ELSE realm,
              flags |-> flags, authtime |-> now, start |-> EffectiveStart(start, now),
              end |-> PolicyEnd(now, end), renewTill |-> PolicyRenew(now, renewTill),
              transited |-> <<>>, caddr |-> caddr,
              pac |-> IF IncludePac(server, wantPac, flags)
                      THEN MitTicketPac({}, {}, <<>>, {}, FALSE, client.id[1], now, kvno) ELSE {},
              cammac |-> IF noAd THEN {} ELSE AddAuthIndicators(inds, Tgt(realm)),
              ad |-> {}, parent |-> 0, evidence |-> 0, chain |-> {}, sources |-> {},
              via |-> <<realm>>,
              born |-> now, proof |-> {},
              ckey |-> <<client.id, CurrentKvno(client)>>]}]

AnswerAs(refusal, pre, realm, req, client, ikey) ==
    IF refusal # Ok THEN [reply |-> Refused(refusal), hint |-> {}]
    ELSE IF pre.code # Ok THEN [reply |-> Refused(pre.code), hint |-> pre.hint]
    ELSE [reply |-> FinishProcessAsReq(realm, req.body, client, db[realm][req.body.sname, realm],
                                       ikey, pre.done, req.pac, req.body.caddr),
          hint |-> {}]

(* issue_as_from; the reply and what the hints of an error hand out. *)
IssueAs(realm, req, fast, padata) ==
    LET client == db[realm][req.body.cname, realm]
        ikey == SelectClientKey(client, req.body.etypes)
    IN  AnswerAs(Then(IF fast = {} THEN Ok ELSE KdcFindFast(Only(fast), FALSE, realm, db[realm], now),
                      LookupClient(realm, req.body)),
                 FinishPreauth(padata, client, req.body, ikey, fast # {}, Tgt(realm), now),
                 realm, req, client, ikey)

-----------------------------------------------------------------------------
AddressSearch(addr, caddr) == caddr = {} \/ addr \in caddr

(* decrypt_presented_tgt: a ticket under a session key (kvno 0) opens with *)
(* no key of the database.                                                 *)
DecryptPresentedTgt(realm, tkt) ==
    LET server == Fetch(realm, <<tkt.sname, tkt.srealm>>)
    IN  IF server = {} \/ {"DISALLOW_ALL_TIX", "DISALLOW_SVR"} \cap Only(server).attrs # {}
        THEN "S_PRINCIPAL_UNKNOWN"
        ELSE IF tkt.kvno = 0 THEN "BAD_INTEGRITY"
        ELSE IF tkt.kvno \notin Only(server).keys THEN "GENERIC" ELSE Ok

(* process_tgs_header *)
ProcessTgsHeader(realm, tkt, addr) ==
    Then(DecryptPresentedTgt(realm, tkt),
    Then(IF AddressSearch(addr, tkt.caddr) THEN Ok ELSE "BADADDR",
    Then(CheckTransited("TRANSITED" \in tkt.flags, tkt.transited, tkt.crealm, tkt.srealm),
    Then(CheckHeaderTimes(tkt, now),
         IF "FX_ARMOR" \in tkt.ad THEN "POLICY" ELSE Ok))))

IsReferralReq(body) ==
    /\ "CANONICALIZE" \in body.opts
    /\ "ENC_TKT_IN_SKEY" \notin body.opts
    /\ Len(body.sname) = 2

(* find_referral_tgs *)
FindReferralTgs(realm, body) ==
    IF IsReferralReq(body) /\ body.sname[2] \in DOMAIN HostRealm /\ HostRealm[body.sname[2]] # realm
    THEN {Krbtgt(HostRealm[body.sname[2]])} ELSE {}

Nearest(realm, known) == IF known = <<>> THEN {} ELSE Fetch(realm, <<Krbtgt(Last(known)), realm>>)

(* find_alternate_tgs: the realm nearest to the far one that this realm    *)
(* shares a key with.                                                      *)
FindAlternateTgs(realm, far) ==
    Nearest(realm, SelectSeq(Tail(WalkRealmTree(realm, far)),
                             LAMBDA hop : <<Krbtgt(hop), realm>> \in DOMAIN db[realm]))

(* search_sprinc *)
SearchSprinc(realm, body) ==
    LET direct == Fetch(realm, <<body.sname, realm>>)
        tgs == IF IsCrossTgs(<<body.sname, realm>>) THEN {body.sname} ELSE FindReferralTgs(realm, body)
        near == UNION {Fetch(realm, <<t, realm>>) : t \in tgs}
    IN  IF direct # {} THEN direct
        ELSE IF NonTgt(body) \/ "ENC_TKT_IN_SKEY" \in body.opts THEN {}
        ELSE IF near # {} THEN near
        ELSE UNION {FindAlternateTgs(realm, t[2]) : t \in tgs}

IssuingReferral(realm, body, server) == IsCrossTgs(server.id) /\ server.id # <<body.sname, realm>>

(* decrypt_2ndtkt *)
Decrypt2ndtkt(realm, second) ==
    IF second = {} THEN Ok
    ELSE Then(DecryptPresentedTgt(realm, Only(second)), GetVerifiedPac(Only(second), Tgt(realm)))

-----------------------------------------------------------------------------
(* What check_tgs_req finds out about the request before it decides. *)
TgsFacts(realm, req, h, stkt, server) ==
    LET self == req.s4u # {}
        proxy == "CNAME_IN_ADDL_TKT" \in req.body.opts
        cross == h.srealm # realm
        referral == IssuingReferral(realm, req.body, server)
        user == Only(req.s4u)
        pac == Only(Only(stkt).pac)
        subject == IF self THEN {<<user.name, user.realm>>}
                   ELSE IF ~proxy \/ stkt = {} THEN {}
                   ELSE IF ~cross THEN {<<Only(stkt).cname, Only(stkt).crealm>>}
                   ELSE IF Only(stkt).pac = {} \/ pac.realm = {} THEN {}
                   ELSE {<<pac.name, Only(pac.realm)>>}
    IN  [self |-> self, proxy |-> proxy, cross |-> cross, referral |-> referral,
         subject |-> subject,
         local |-> IF self THEN S4uLocal(user, realm, db[realm]) ELSE {},
         client |-> IF subject # {} /\ ~referral THEN Only(subject) ELSE <<h.cname, h.crealm>>,
         server |-> IF self THEN [server EXCEPT !.attrs = @ \ {"NO_AUTH_DATA_REQUIRED"}] ELSE server]

(* The S4U2Self part of check_tgs_req. *)
CheckS4u2self(realm, req, h, f) ==
    LET isSelf == h.crealm = realm /\ <<h.cname, realm>> = f.server.id
    IN  IF ~f.self THEN Ok
        ELSE IF ~f.referral /\ ~isSelf THEN "BADMATCH"
        ELSE CheckTgsS4u2self(req.body, Only(req.s4u), f.local, h.srealm # realm, f.referral, h, now)

(* User-to-user, S4U2Proxy and the PAC of the header. *)
CheckSecond(realm, req, h, stkt, f) ==
    LET u2u == IF "ENC_TKT_IN_SKEY" \in req.body.opts
               THEN CheckTgsU2u(stkt, f.server, db[realm]) ELSE Ok
        proxied == IF stkt = {} THEN "GENERIC"
                   ELSE IF f.subject = {} THEN "BADOPTION"
                   ELSE CheckTgsS4u2proxy(req.body, h, Only(stkt), realm, f.cross, f.referral)
    IN  Then(IF h.crealm = realm /\ f.cross /\ ~f.self THEN "POLICY" ELSE Ok,
        Then(u2u,
             IF f.proxy THEN proxied
             ELSE IF f.self THEN Ok
             ELSE CheckNormalTgsPac(h, f.server, f.cross)))

(* The policy part: flags of the server, indicators, delegation, anonymity *)
(* and the session key.                                                    *)
CheckPolicy(realm, req, h, stkt, f) ==
    LET basis == IF stkt = {} THEN h ELSE Only(stkt)
        inds == IF f.self THEN {} ELSE GetAuthIndicators(basis, Tgt(realm))
        evidenceServer == UNION {Fetch(realm, <<st.sname, st.srealm>>) : st \in stkt}
    IN  Then(CheckTgsPolicyFlags(f.server, req.body, h, now),
        Then(IF f.self THEN Ok ELSE CheckIndicators(f.server, inds),
        Then(IF f.proxy THEN CheckS4u2proxyPolicy(req.rbcd, evidenceServer, <<h.cname, h.crealm>>,
                                                  f.server, <<req.body.sname, realm>>, f.cross, f.referral)
             ELSE Ok,
        Then(IF CheckAnon(h.cname, f.server.id[1], realm) THEN "POLICY" ELSE Ok,
             IF SelectSessionKeytype(f.server, req.body.etypes) = {} THEN "ETYPE_NOSUPP" ELSE Ok))))

(* Mutant of TgsTransit: the list is checked before the realm is added.       *)
TgsTransitUnread(realm, req, h, f) ==
    LET crealm == IF f.self \/ f.proxy THEN f.client[2] ELSE h.crealm
        read == RealmsFor(h.transited, crealm, realm)
    IN  [code |-> Ok, fields |-> EncodeAppend(h.transited, h.srealm),
         checked |-> TransitAllowed(crealm, realm, read.hops)]

(* The realms the new ticket says it crossed, and whether they were        *)
(* allowed.                                                                *)
TgsTransit(realm, req, h, f) ==
    LET crealm == IF f.self \/ f.proxy THEN f.client[2] ELSE h.crealm
        grown == IF f.cross /\ h.srealm # crealm THEN AppendRealm(h.transited, h.srealm)
                 ELSE [ok |-> TRUE, fields |-> h.transited]
        read == RealmsFor(grown.fields, crealm, realm)
        checked == /\ "DISABLE_TRANSITED_CHECK" \notin req.body.opts
                   /\ \/ crealm = AnonymousRealm
                      \/ read.ok /\ TransitAllowed(crealm, realm, read.hops)
        inherited == {"RENEW", "VALIDATE"} \cap req.body.opts # {} /\ "TRANSITED" \in h.flags
    IN  IF ~grown.ok THEN [code |-> "ILL_CR_TKT"]
        ELSE [code |-> IF RejectBadTransit /\ ~checked /\ ~inherited THEN "POLICY" ELSE Ok,
              fields |-> grown.fields, checked |-> checked]

(* tgs_flags_times_policy *)
TgsTimes(realm, req, h, stkt, f, checked) ==
    LET body == req.body
        subject == IF stkt = {} THEN h ELSE Only(stkt)
        client == IF f.self THEN f.local
                  ELSE IF "NO_AUTH_DATA_REQUIRED" \in f.server.attrs \/ subject.crealm # realm THEN {}
                  ELSE Fetch(realm, <<subject.cname, realm>>)
        renew == "RENEW" \in body.opts
        validate == "VALIDATE" \in body.opts
        start == IF validate THEN h.start ELSE StartTime(body)
        end == IF renew THEN Min({start + Span(h.start, h.end)} \cup h.renewTill)
               ELSE IF validate THEN h.end
               ELSE KdcGetTicketEndtime(start, {h.end}, body.till, client, f.server)
        renewTill == IF validate THEN h.renewTill
                     ELSE KdcGetTicketRenewtime(body, {h}, client, f.server, start, end)
        flags == GetTicketFlags(body.opts, client, f.server, {h})
                     \cup (IF checked THEN {"TRANSITED"} ELSE {})
        renewable == IF validate THEN flags ELSE WithRenewable(flags, renewTill)
        authtime == IF f.proxy /\ ~renew /\ ~validate THEN subject.authtime ELSE h.authtime
    IN  [authtime |-> authtime, start |-> EffectiveStart(start, authtime),
         end |-> PolicyEnd(now, end), renewTill |-> PolicyRenew(now, renewTill),
         flags |-> IF f.self /\ ~f.referral THEN S4u2selfForwardable(f.server, renewable)
                   ELSE renewable]

(* tgs_ticket_caddr *)
TicketCaddr(body, h) ==
    IF {"RENEW", "VALIDATE"} \cap body.opts = {} /\ {"FORWARDED", "PROXY"} \cap body.opts # {}
    THEN body.caddr ELSE h.caddr

(* tgs_issue_ticket *)
TgsIssueTicket(realm, req, i, j, h, stkt, f, fields, times, ad) ==
    LET body == req.body
        basis == IF stkt = {} THEN h ELSE Only(stkt)
        subjectPac == IF f.proxy THEN Only(stkt).pac ELSE h.pac
        s4u == IF f.self \/ f.proxy THEN f.subject ELSE {}
        hop == IF f.proxy /\ ~f.cross THEN {<<Only(stkt).sname, Only(stkt).srealm>>} ELSE {}
        inds == IF f.self THEN {} ELSE GetAuthIndicators(basis, Tgt(realm))
    IN  [sname |-> IF {"RENEW", "VALIDATE"} \cap body.opts # {} THEN h.sname
                   ELSE IF f.referral THEN f.server.id[1] ELSE body.sname,
         srealm |-> realm,
         kvno |-> IF "ENC_TKT_IN_SKEY" \in body.opts THEN 0 ELSE CurrentKvno(f.server),
         cname |-> f.client[1], crealm |-> f.client[2],
         flags |-> times.flags, authtime |-> times.authtime, start |-> times.start,
         end |-> times.end, renewTill |-> times.renewTill,
         transited |-> fields, caddr |-> TicketCaddr(body, h),
         pac |-> IF IncludePac(f.server, subjectPac # {}, times.flags)
                 THEN MitTicketPac(subjectPac, hop, body.sname, s4u, f.referral,
                                   f.client[1], times.authtime, CurrentKvno(Tgt(realm)))
                 ELSE {},
         cammac |-> IF "NO_AUTH_DATA_REQUIRED" \in f.server.attrs THEN {}
                    ELSE AddAuthIndicators(inds, Tgt(realm)),
         ad |-> ad, parent |-> i, evidence |-> IF stkt = {} THEN 0 ELSE j,
         chain |-> h.chain \cup {i},
         sources |-> h.sources \cup {i} \cup (IF stkt = {} THEN {} ELSE Only(stkt).sources \cup {j}),
         via |-> Append(h.via, realm),
         born |-> now, proof |-> h.proof, ckey |-> h.ckey]

Issued(code, transit, realm, req, i, j, h, stkt, f) ==
    IF code # Ok THEN Refused(code)
    ELSE [code |-> Ok, tkt |-> {TgsIssueTicket(realm, req, i, j, h, stkt, f, transit.fields,
                                    TgsTimes(realm, req, h, stkt, f, transit.checked),
                                    HandleAuthdata(req.ad, h.ad).ad)}]

(* check_tgs_req, in its order, and the ticket. *)
CheckTgsReq(f, transit, realm, req, i, j, h, stkt) ==
    Issued(Then(CheckTgsConstraintsSkeleton(req.body, h, now),
           Then(IF req.s4u = {} THEN Ok ELSE ProcessS4u2selfReq(Only(req.s4u), realm, db[realm]),
           Then(CheckS4u2self(realm, req, h, f),
           Then(Decrypt2ndtkt(realm, stkt),
           Then(CheckSecond(realm, req, h, stkt, f),
           Then(CheckPolicy(realm, req, h, stkt, f),
           Then(transit.code, HandleAuthdata(req.ad, h.ad).code))))))),
           transit, realm, req, i, j, h, stkt, f)

WithFacts(f, realm, req, i, j, h, stkt) ==
    CheckTgsReq(f, TgsTransit(realm, req, h, f), realm, req, i, j, h, stkt)

AnswerTgs(header, found, realm, req, i, j, h, stkt) ==
    IF header # Ok THEN Refused(header)
    ELSE IF found = {} THEN Refused("S_PRINCIPAL_UNKNOWN")
    ELSE WithFacts(TgsFacts(realm, req, h, stkt, Only(found)), realm, req, i, j, h, stkt)

(* issue_tgs_from: ticket i is the header, ticket j (0 for none) the       *)
(* additional ticket.                                                      *)
IssueTgs(realm, req, i, j) ==
    LET stkt == IF j = 0 \/ {"CNAME_IN_ADDL_TKT", "ENC_TKT_IN_SKEY"} \cap req.body.opts = {} THEN {}
                ELSE {tickets[j]}
        gather == FirstRefusal(<<
            <<{"RENEW", "VALIDATE"} \subseteq req.body.opts, "BADOPTION">>,
            <<req.body.realm # realm, "GENERIC">> >>)
        header == Then(ProcessTgsHeader(realm, tickets[i], req.addr),
                  Then(gather, GetVerifiedPac(tickets[i], Tgt(realm))))
    IN  AnswerTgs(header, SearchSprinc(realm, req.body), realm, req, i, j, tickets[i], stkt)

-----------------------------------------------------------------------------
(* The padata an AS ticket was issued on: made with the client's key of    *)
(* that moment, or by the holder of a certificate that names the client or *)
(* that a rule matches to it, and recently.                                *)
ProofHolds(t) ==
    LET Timely(time) == time - t.born \in -Skew .. Skew
    IN  \E p \in t.proof :
            \/ p.type \in {"EncTimestamp", "EncChallenge"} /\ p.key = t.ckey /\ Timely(p.time)
            \/ /\ p.type = "Spake" /\ p.w = t.ckey /\ p.challenge.w = t.ckey
               /\ t.born - p.challenge.spake <= CookieLifetime
            \/ /\ p.type = "PkAsReq" /\ Timely(p.time)
               /\ \/ p.cert = {} /\ t.cname = Anonymous
                  \/ /\ \E c \in p.cert : t.ckey[1] \in c.sans \/ (c.sans = {} /\ c.match = "Yes")
                     /\ \A f \in p.fresh : t.born - f.time <= FreshnessLifetime
                     /\ RequireFreshness => p.fresh # {}
            \/ p.type = "OtpRequest" /\ Timely(p.time) /\ "Accept" \in Range(p.verdicts)

(* The scenes are states the program can be in: a database keeps every     *)
(* principal under its name and has the realm's krbtgt; clocks and the     *)
(* times of requests are such that a span of time is positive as a signed  *)
(* number; the tickets at hand come from foreign KDCs.                     *)
Stamps == 0 .. Width \div 2

PrincipalFields == {"id", "attrs", "maxLife", "maxRenew", "expiration", "pwExpire", "keys", "etypes",
                    "requireAuth", "allowedTo", "allowedFrom", "tokens"}

EntryOk(p, id) ==
    /\ p = [f \in PrincipalFields |-> p[f]] /\ p.id = id
    /\ {p.maxLife, p.maxRenew} \subseteq Nat /\ DOMAIN p.tokens \subseteq 1 .. MaxTokens

RealmOk(entries, realm) ==
    /\ <<Krbtgt(realm), realm>> \in DOMAIN entries
    /\ entries = [id \in DOMAIN entries |-> entries[id]]
    /\ \A id \in DOMAIN entries : EntryOk(entries[id], id)

DbOk(d) == d = [r \in DOMAIN d |-> d[r]] /\ \A r \in DOMAIN d : RealmOk(d[r], r)

AtMostOne(times) == times \subseteq Nat /\ \A a, b \in times : a = b

Methods == {"none", "timestamp", "challenge", "spake", "pkinit", "otp"}

BodyOk(body) == body.from \in Stamps /\ body.till \in Nat /\ AtMostOne(body.rtime)

ForeignOk(t, time) ==
    /\ t.parent = 0 /\ t.evidence = 0 /\ t.chain = {} /\ t.sources = {}
    /\ {t.authtime, t.start, t.end} \subseteq Nat /\ AtMostOne(t.renewTill) /\ t.born \in 0 .. time
    /\ "RENEWABLE" \in t.flags => t.renewTill # {}
    /\ "PRE_AUTHENT" \in t.flags => ProofHolds(t)
    /\ \A c, d \in t.cammac : c = d /\ c.realm = t.srealm

ASSUME SceneAssumption ==
    /\ MaxTime \in Stamps
    /\ \A s \in Scenes :
          /\ s.now \in 0 .. MaxTime /\ DbOk(s.db)
          /\ s.tickets \in Seq({s.tickets[k] : k \in DOMAIN s.tickets})
          /\ \A k \in DOMAIN s.tickets : ForeignOk(s.tickets[k], s.now)
          /\ \A r \in s.as \cup s.tgs : r.realm \in DOMAIN s.db /\ BodyOk(r.body)
          /\ \A r \in s.as : r.methods \subseteq Methods

-----------------------------------------------------------------------------
(* What clients send.  A client reads a clock that is right or too slow,   *)
(* holds the keys of Secrets, and keeps every cookie and token it was given.*)
Clocks == {now, now - Skew - 1} \cap Nat

Spake(msg, challenge, key) ==
    [type |-> "Spake", msg |-> msg, group |-> TRUE, challenge |-> challenge, w |-> key,
     factor |-> "None"]

Padata(method) ==
    CASE method = "none" -> {{}}
      [] method = "timestamp" ->
            {{[type |-> "EncTimestamp", key |-> k, time |-> t]} : k \in scene.secrets, t \in Clocks}
      [] method = "challenge" ->
            {{[type |-> "EncChallenge", key |-> k, time |-> t]} : k \in scene.secrets, t \in Clocks}
      [] method = "spake" ->
            {{Spake("Support", <<>>, <<>>)}} \cup
            {{Spake("Response", ch, k), c} :
                ch \in UNION {c.data : c \in cookies}, c \in cookies, k \in scene.secrets}
      [] method = "pkinit" ->
            {{[type |-> "AsFreshness"]}} \cup
            {{[type |-> "PkAsReq", cert |-> c, cms |-> Ok, time |-> t, dh |-> "Ok", bound |-> TRUE,
               fresh |-> f]} :
                c \in scene.certs, t \in Clocks, f \in {{}} \cup {{x} : x \in fresh}}
      [] method = "otp" ->
            {{[type |-> "OtpRequest", timed |-> TRUE, time |-> t, verdicts |-> v]} :
                t \in Clocks, v \in [1 .. MaxTokens -> {"Accept", "Reject"}]}

(* The armor of a FAST request is made with any ticket at hand. *)
Armor(armored) ==
    IF ~armored THEN {{}}
    ELSE {{[armor |-> {[tkt |-> tickets[i], matches |-> TRUE, time |-> t, subkey |-> TRUE,
                        kind |-> "ApRequest"]}, fault |-> Ok, critical |-> FALSE]} :
             i \in DOMAIN tickets, t \in Clocks}

(* The tickets with the one that was issued, if any. *)
With(tkt) == IF tkt = {} THEN tickets ELSE Append(tickets, Only(tkt))

AsReq(realm, req) ==
    /\ Len(tickets) < scene.maxTickets
    /\ \E padata \in UNION {Padata(m) : m \in req.methods}, fast \in Armor(req.armored) :
       \E out \in {IssueAs(realm, req, fast, padata)} :
              /\ tickets' = With({[t EXCEPT !.proof = padata] : t \in out.reply.tkt})
              /\ cookies' = cookies \cup UNION {h.cookie : h \in out.hint}
              /\ fresh' = fresh \cup UNION {h.fresh : h \in out.hint}
    /\ Cardinality(cookies') <= MaxKept /\ Cardinality(fresh') <= MaxKept
    /\ UNCHANGED <<now, scene, db>>

TgsReq(realm, req) ==
    /\ Len(tickets) < scene.maxTickets
    /\ \E i \in DOMAIN tickets :
       \E j \in {0} \cup (IF req.second THEN DOMAIN tickets ELSE {}) :
          tickets' = With(IssueTgs(realm, req, i, j).tkt)
    /\ UNCHANGED <<now, scene, db, cookies, fresh>>

(* An administrator gives a principal a new key; the old ones stay when    *)
(* keepold says so.                                                        *)
Rekey(realm, id, keepold) ==
    /\ CurrentKvno(db[realm][id]) < 2
    /\ db' = [db EXCEPT ![realm][id].keys = (IF keepold THEN @ ELSE {}) \cup {Max(@) + 1}]
    /\ UNCHANGED <<now, scene, tickets, cookies, fresh>>

Tick ==
    /\ now < MaxTime
    /\ now' = now + 1
    /\ UNCHANGED <<scene, db, tickets, cookies, fresh>>

Init ==
    \E s \in Scenes :
        /\ now = s.now /\ scene = s /\ db = s.db /\ tickets = s.tickets
        /\ cookies = {} /\ fresh = {}

Next ==
    \/ \E r \in scene.as : AsReq(r.realm, r)
    \/ \E r \in scene.tgs : TgsReq(r.realm, r)
    \/ \E k \in scene.rekey : Rekey(k.realm, k.id, k.keepold)
    \/ Tick

Spec == Init /\ [][Next]_vars

-----------------------------------------------------------------------------
(* The tickets a ticket was issued from, and all that went into it, itself *)
(* included.                                                               *)
Chain(i) == tickets[i].chain \cup {i}

Sources(i) == tickets[i].sources \cup {i}

Root(i) == Min(Chain(i))

Client(t) == <<t.cname, t.crealm>>

(* Whatever is renewed, validated, forwarded or referred from a ticket     *)
(* ends by the time the first ticket of the chain ends or may be renewed   *)
(* to, and may not be renewed past the first one (kdc_get_ticket_endtime,  *)
(* kdc_get_ticket_renewtime and the renewal of tgs_flags_times_policy).    *)
NeverOutlives ==
    \A i \in DOMAIN tickets :
        LET t == tickets[i]
            first == tickets[Root(i)]
        IN  /\ t.end <= Max({first.end} \cup first.renewTill)
            /\ \A x \in t.renewTill : \E y \in first.renewTill : x <= y

(* No ticket that is good for anything is issued from an invalid           *)
(* (postdated) ticket, however many exchanges later, before the start time *)
(* of that ticket (check_tgs_constraints_skeleton).                        *)
PostdatedWaits ==
    \A i \in DOMAIN tickets : \A a \in tickets[i].chain :
        "INVALID" \in tickets[a].flags => tickets[i].born >= tickets[a].start

(* The realms whose KDCs lie between the client's realm and the server's. *)
Between(t) == {t.via[k] : k \in 1 .. Len(t.via)} \ {t.crealm, t.srealm, AnonymousRealm}

(* A ticket names every realm its chain went through, also after several   *)
(* referrals and when an earlier KDC compressed the list (append_realm and *)
(* realms_for).                                                            *)
TraversedRealmsAreNamed ==
    \A i \in DOMAIN tickets :
        LET t == tickets[i]
            read == RealmsFor(t.transited, t.crealm, t.srealm)
        IN  Client(t) = Client(tickets[Root(i)])
                => read.ok /\ Between(t) \subseteq Range(read.hops)

(* A ticket carries TRANSITED-POLICY-CHECKED only when all realms its chain*)
(* went through lie on the path between the client's and the server's realm*)
(* (the transit part of check_tgs_req); renewal keeps the flag of a ticket *)
(* of this realm.                                                          *)
CheckedPathsAreAllowed ==
    \A i \in DOMAIN tickets :
        LET t == tickets[i]
        IN  "TRANSITED" \in t.flags /\ t.crealm # AnonymousRealm
                => Between(t) \subseteq Range(WalkRealmTree(t.crealm, t.srealm))

(* A service gets a ticket in a user's name for another service only when  *)
(* the user had presented itself to the service, or the service may speak  *)
(* for any user, or it names no targets and the other service names it     *)
(* (s4u2self_forwardable, check_tgs_s4u2proxy, check_s4u2proxy_policy).    *)
DelegationIsAuthorised ==
    \A i \in DOMAIN tickets :
        LET t == tickets[i]
            e == tickets[t.evidence]
            service == db[e.srealm][e.sname, e.srealm]
            goal == db[t.srealm][t.sname, t.srealm]
        IN  t.evidence # 0 /\ t.kvno # 0
                => /\ \/ \E a \in Sources(t.evidence) :
                             tickets[a].parent = 0 /\ Client(tickets[a]) = Client(t)
                      \/ "OK_TO_AUTH_AS_DELEGATE" \in service.attrs
                      \/ service.allowedTo = {} /\ service.id \in goal.allowedFrom
                   /\ goal.id \in service.allowedTo \/ service.id \in goal.allowedFrom

(* A ticket marked PRE-AUTHENT, and one for a service that requires it,    *)
(* goes back to a client that proved itself with the key it had then, to a *)
(* challenge or token no older than its lifetime, whatever was rekeyed in  *)
(* between (finish_preauth, the cookies and freshness tokens of preauth.rs,*)
(* check_tgs_policy_flags).                                                *)
PreauthIsProved ==
    \A i \in DOMAIN tickets :
        LET t == tickets[i]
            server == Fetch(t.srealm, <<t.sname, t.srealm>>)
        IN  \/ "PRE_AUTHENT" \in t.flags
            \/ t.parent # 0 /\ \E p \in server : "REQUIRES_PRE_AUTH" \in p.attrs
            => ProofHolds(tickets[Root(i)])

(* The authentication indicators of a ticket were earned in an AS exchange *)
(* of the realm that vouches for them, by the client of the chain or of    *)
(* some evidence in it (cammac_check_kdcver, get_auth_indicators).         *)
IndicatorsAreEarned ==
    \A i \in DOMAIN tickets :
        LET t == tickets[i]
        IN  \A c \in t.cammac : \E a \in Sources(i) :
                /\ tickets[a].parent = 0 /\ tickets[a].srealm = t.srealm
                /\ c.inds \subseteq UNION {d.inds : d \in tickets[a].cammac}

(* The times of a chain of tickets: NeverOutlives and PostdatedWaits. *)
TimesCarryOver == NeverOutlives /\ PostdatedWaits

(* The realms of a chain of tickets: every realm it went through is named, *)
(* and TRANSITED-POLICY-CHECKED is the check of them all                   *)
(* (TraversedRealmsAreNamed and CheckedPathsAreAllowed).                   *)
RealmsCarryOver == TraversedRealmsAreNamed /\ CheckedPathsAreAllowed

(* What a ticket says of how its client proved itself: PreauthIsProved and *)
(* IndicatorsAreEarned.                                                    *)
ProofsCarryOver == PreauthIsProved /\ IndicatorsAreEarned
=============================================================================
