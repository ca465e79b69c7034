------------------------------ MODULE KdcUtil -------------------------------
(***************************************************************************)
(* What the AS and the TGS exchange share (krb5-kdc/src/issue/kdc_util.rs, *)
(* tgs_policy.rs and plugins.rs): transited realms, ticket times and       *)
(* flags, the order of the request checks, PACs and preauthentication.     *)
(* Options, flags and attributes are sets of names; an optional value is a *)
(* set with at most one element.  A principal is                           *)
(* [id, attrs, maxLife, maxRenew, expiration, pwExpire, keys, etypes,      *)
(* requireAuth, allowedTo, allowedFrom], a request body                    *)
(* [realm, cname, sname, opts, from, till, rtime, etypes, caddr].          *)
(***************************************************************************)
EXTENDS Integers, Sequences, FiniteSets, FiniteSetsExt, Functions
-----------------------------------------------------------------------------
(***************************************************************************)
(* The transited realms of a ticket (krb5-types/src/transited.rs and       *)
(* TransitedEncoding of lib.rs).  A realm is the sequence of its dotted    *)
(* labels, so "a.x" is <<"a", "x">>; a field of the encoding is a realm,   *)
(* a prefix that ends in a dot (last label ""), or empty.  Labels have one *)
(* letter.  X.500 realms (a leading "/") and escapes are left out.         *)
(***************************************************************************)

CONSTANTS
    Capaths,           \* capaths[client][server] of krb5.conf
    MaxAddPathTotal,   \* MAX_ADD_PATH_TOTAL, in letters
    MaxTransitRealms   \* MAX_TRANSIT_REALMS

ASSUME TransitAssumption == {MaxAddPathTotal, MaxTransitRealms} \subseteq Nat

AnonymousRealm == <<"WELLKNOWN:ANONYMOUS">>

-----------------------------------------------------------------------------
Last(s) == s[Len(s)]
Front(s) == SubSeq(s, 1, Len(s) - 1)
Reverse(s) == [k \in 1 .. Len(s) |-> s[Len(s) + 1 - k]]

Ancestors(r) == [k \in 1 .. Len(r) |-> SubSeq(r, k, Len(r))]

CommonLabels(c, s) ==
    LET m == IF Len(c) < Len(s) THEN Len(c) ELSE Len(s)
    IN  CHOOSE n \in 0 .. m :
            /\ \A i \in 0 .. n - 1 : c[Len(c) - i] = s[Len(s) - i]
            /\ n < m => c[Len(c) - n] # s[Len(s) - n]

(* Up from the client to the nearest common ancestor, then down. *)
HierarchicalWalkRealms(client, server) ==
    LET n == CommonLabels(client, server)
        up == IF n = 0 THEN Len(client) ELSE Len(client) - n + 1
    IN  SubSeq(Ancestors(client), 1, up)
            \o Reverse(SubSeq(Ancestors(server), 1, Len(server) - n))

WalkRealmTree(client, server) ==
    IF client = server THEN <<>>
    ELSE IF <<client, server>> \in DOMAIN Capaths
    THEN <<client>> \o SelectSeq(Capaths[client, server], LAMBDA v : v # <<".">>) \o <<server>>
    ELSE HierarchicalWalkRealms(client, server)

AllButLast(path) == {path[i] : i \in 1 .. Len(path) - 1}

TransitAllowed(crealm, srealm, hops) ==
    Range(hops) \subseteq AllButLast(WalkRealmTree(crealm, srealm))

-----------------------------------------------------------------------------
IsPrefixField(f) == f # <<>> /\ f[Len(f)] = ""

(* maybe_join, add_path_join *)
Joined(last, f) == IF IsPrefixField(f) THEN Front(f) \o last ELSE f

Letters(fields) == SumFunction([i \in DOMAIN fields |-> 2 * Len(fields[i])])

(* expand_add_path: an empty field adds nothing. *)
AddPath(hops, f) ==
    IF f = <<>> THEN hops ELSE Append(hops, Joined(IF hops = <<>> THEN <<>> ELSE Last(hops), f))

ExpandAddPath(fields) ==
    LET upTo[i \in 0 .. Len(fields)] == IF i = 0 THEN <<>> ELSE AddPath(upTo[i - 1], fields[i])
    IN  upTo[Len(fields)]

(* Mutant of EncodeAppend: the last field is dropped, empty or not.        *)
EncodeAppendShort(fields, realm) == Append(IF fields = <<>> THEN <<>> ELSE Front(fields), realm)

(* encode_append: a trailing comma is dropped first. *)
EncodeAppend(fields, realm) ==
    Append(IF fields # <<>> /\ Last(fields) = <<>> THEN Front(fields) ELSE fields, realm)

TooLong == [ok |-> FALSE]

AppendRealm(fields, realm) ==
    LET longer == EncodeAppend(fields, realm)
    IN  IF Letters(fields) >= MaxAddPathTotal THEN TooLong
        ELSE IF realm \in Range(ExpandAddPath(fields)) THEN [ok |-> TRUE, fields |-> fields]
        ELSE IF Letters(longer) >= MaxAddPathTotal THEN TooLong
        ELSE [ok |-> TRUE, fields |-> longer]

-----------------------------------------------------------------------------
Bad == [ok |-> FALSE, hops |-> <<>>]

(* process_intermediates: the realms strictly between a realm and the one  *)
(* it lies under, nearest first.                                           *)
ProcessIntermediates(n1, n2) ==
    LET short == IF Len(n1) > Len(n2) THEN n2 ELSE n1
        long == IF Len(n1) > Len(n2) THEN n1 ELSE n2
    IN  IF n1 = n2 THEN [ok |-> TRUE, hops |-> <<>>]
        ELSE IF Len(n1) = Len(n2) \/ short = <<>> \/ short # SubSeq(long, Len(long) - Len(short) + 1, Len(long))
        THEN Bad
        ELSE [ok |-> TRUE,
              hops |-> Reverse(SubSeq(Ancestors(long), 2, Len(long) - Len(short)))]

(* emit_joined *)
Emitted(st, this, between) ==
    [ok |-> between.ok, hops |-> st.hops \o <<this>> \o between.hops, last |-> this,
     skipped |-> FALSE]

EmitThis(st, this) ==
    Emitted(st, this, IF st.skipped THEN ProcessIntermediates(this, st.last)
                      ELSE [ok |-> TRUE, hops |-> <<>>])

EmitJoined(st, f) == EmitThis(st, Joined(st.last, f))

(* expand_domain_x500, also realms_for: an empty first field stands for    *)
(* the client's realm, an empty last one for the server's.                 *)
Extended(whole, end) == [ok |-> end.ok, hops |-> whole.hops \o end.hops]

Concluded(fields, whole, srealm) ==
    IF Len(fields) - 1 > MaxTransitRealms \/ ~whole.ok THEN Bad
    ELSE IF Last(fields) # <<>> THEN [ok |-> TRUE, hops |-> whole.hops]
    ELSE Extended(whole, ProcessIntermediates(whole.last, srealm))

RealmsFor(fields, crealm, srealm) ==
    LET Step(st, i) ==
            IF ~st.ok THEN st
            ELSE IF fields[i] # <<>> THEN EmitJoined(st, fields[i])
            ELSE [st EXCEPT !.skipped = TRUE, !.last = IF i = 1 THEN crealm ELSE @]
        upTo[i \in 0 .. Len(fields)] ==
            IF i = 0 THEN [ok |-> TRUE, hops |-> <<>>, last |-> <<>>, skipped |-> FALSE]
            ELSE Step(upTo[i - 1], i)
    IN  IF fields = <<>> THEN [ok |-> TRUE, hops |-> <<>>]
        ELSE Concluded(fields, upTo[Len(fields)], srealm)

ReadAllowed(read, crealm, srealm) == read.ok /\ TransitAllowed(crealm, srealm, read.hops)

(* check_transited of a ticket that is presented in srealm. *)
CheckTransited(checked, fields, crealm, srealm) ==
    IF checked \/ fields = <<>> \/ crealm = AnonymousRealm THEN "Ok"
    ELSE IF crealm = srealm THEN "NO_TKT_IN_RLM"
    ELSE IF ReadAllowed(RealmsFor(fields, crealm, srealm), crealm, srealm) THEN "Ok"
    ELSE "ILL_CR_TKT"
-----------------------------------------------------------------------------

CONSTANTS
    Width,        \* seconds are unsigned modulo Width
    Skew,         \* the clock skew of the policy
    RealmLife,    \* max_life of the realm
    RealmRenew,   \* max_renewable_life of the realm
    RestrictAnon, \* restrict_anonymous_to_tgt
    DisablePac,   \* disable_pac
    RejectBadTransit,
    Adjust        \* [lifetime, renew] of the KDC policy module, 0 for no change

ASSUME KdcUtilAssumption ==
    /\ {Skew, RealmLife, RealmRenew, Adjust.lifetime, Adjust.renew} \subseteq Nat
    /\ Width \in Nat /\ Width > 1
    /\ {RestrictAnon, DisablePac, RejectBadTransit} \subseteq BOOLEAN

Ok == "Ok"

(* The first of the checks <<failed, code>> that fails. *)
Nth(checks, bad) == IF bad = {} THEN Ok ELSE checks[Min(bad)][2]

FirstRefusal(checks) == Nth(checks, {i \in DOMAIN checks : checks[i][1]})

Then(code, next) == IF code # Ok THEN code ELSE next

MaxStamp == Width - 1

(* unix_seconds *)
Seconds(t) == IF t < 0 THEN 0 ELSE IF t > MaxStamp THEN MaxStamp ELSE t

Anonymous == <<"WELLKNOWN", "ANONYMOUS">>

Krbtgt(realm) == <<"krbtgt", realm>>

IsKrbtgt(name) == Len(name) = 2 /\ name[1] = "krbtgt"

IsCrossTgs(id) == IsKrbtgt(id[1]) /\ id[1][2] # id[2]

-----------------------------------------------------------------------------
(* wrapping_sub(..).cast_signed() *)
Signed(d) == LET u == d % Width IN IF u >= Width \div 2 THEN u - Width ELSE u

Span(start, until) ==
    LET life == Signed(until - start)
    IN  IF until > start /\ life < 0 THEN Width \div 2 - 1 ELSE life

(* Mutant of KdcGetTicketEndtime: the header's end is not a limit.         *)
KdcGetTicketEndtimeUncapped(start, headerEnd, till, client, server) ==
    start + Min(({p.maxLife : p \in client \cup {server}} \cup {RealmLife}) \ {0})

KdcGetTicketEndtime(start, headerEnd, till, client, server) ==
    LET asked == {Seconds(t) : t \in headerEnd \cup (IF till = 0 THEN {} ELSE {till})}
        until == Min(asked \cup {MaxStamp})
        limits == {p.maxLife : p \in client \cup {server}} \cup {RealmLife}
    IN  start + Min({Span(Seconds(start), until)} \cup (limits \ {0}))

(* The renew_till asked for, capped; none when the ticket cannot be        *)
(* renewed.                                                                *)
KdcGetTicketRenewtime(body, header, client, server, start, end) ==
    LET asked == IF "RENEWABLE" \in body.opts
                 THEN (IF body.rtime = {} THEN {MaxStamp} ELSE body.rtime)
                 ELSE IF "RENEWABLE_OK" \in body.opts /\ body.till > Seconds(end)
                 THEN {body.till} ELSE {}
        life == Min({p.maxRenew : p \in client \cup {server}} \cup {RealmRenew})
        capped == Min(asked \cup (UNION {h.renewTill : h \in header}) \cup {Seconds(start + life)})
    IN  IF \/ asked = {}
           \/ \E p \in client \cup {server} : "DISALLOW_RENEWABLE" \in p.attrs
           \/ \E h \in header : "RENEWABLE" \notin h.flags
           \/ "RENEWABLE" \notin body.opts /\ capped <= Seconds(end)
        THEN {}
        ELSE {capped}

(* apply_policy_times, which enforce_kdcpolicy_as and _tgs call. *)
PolicyEnd(now, end) ==
    IF Adjust.lifetime # 0 /\ now + Adjust.lifetime < Seconds(end)
    THEN now + Adjust.lifetime ELSE end

PolicyRenew(now, renewTill) ==
    IF Adjust.renew = 0 THEN renewTill
    ELSE {Min({t, now + Adjust.renew}) : t \in renewTill}

-----------------------------------------------------------------------------
OptionFlags == {"FORWARDABLE", "FORWARDED", "PROXIABLE", "PROXY", "MAY_POSTDATE",
                "POSTDATED", "ANONYMOUS"}

CarriedFlags == {"FORWARDED", "PROXY", "PRE_AUTHENT", "HW_AUTHENT", "ANONYMOUS"}

(* Flags the header ticket or a principal of the request denies. *)
DeniedFlags(client, server, header) ==
    {f \in {"PROXIABLE", "FORWARDABLE", "ANONYMOUS"} :
        \/ \E h \in header : f \notin h.flags
        \/ \E p \in client \cup {server} :
               \/ f = "PROXIABLE" /\ "DISALLOW_PROXIABLE" \in p.attrs
               \/ f = "FORWARDABLE" /\ "DISALLOW_FORWARDABLE" \in p.attrs}

GetTicketFlags(opts, client, server, header) ==
    LET carried == UNION {CarriedFlags \cap h.flags : h \in header}
        invalid == IF "POSTDATED" \in opts THEN {"INVALID"} ELSE {}
        kind == IF header = {} THEN {"INITIAL"}
                ELSE IF "OK_AS_DELEGATE" \in server.attrs THEN {"OK_AS_DELEGATE"} ELSE {}
    IN  IF header # {} /\ {"VALIDATE", "RENEW"} \cap opts # {}
        THEN (UNION {h.flags : h \in header}) \ {"INVALID"}
        ELSE ((OptionFlags \cap opts) \cup carried \cup invalid \cup kind)
                 \ DeniedFlags(client, server, header)

(* Mutant of S4u2selfForwardable: the flag is never taken away.            *)
S4u2selfForwardableAlways(server, flags) == flags

S4u2selfForwardable(server, flags) ==
    IF "OK_TO_AUTH_AS_DELEGATE" \in server.attrs \/ server.allowedTo = {} THEN flags
    ELSE flags \ {"FORWARDABLE"}

-----------------------------------------------------------------------------
CheckAnon(cname, sname, realm) ==
    RestrictAnon /\ cname = Anonymous /\ sname # Krbtgt(realm)

Expired(p, now) == p.expiration # 0 /\ now > p.expiration

TgsOnlyOptions == {"FORWARDED", "PROXY", "RENEW", "VALIDATE", "ENC_TKT_IN_SKEY",
                   "CNAME_IN_ADDL_TKT"}

(* validate_as_request without lockout_check_policy, which the module      *)
(* Lockout models.                                                         *)
ValidateAsRequest(client, server, body, now) ==
    LET pwchange == "PWCHANGE_SERVICE" \in server.attrs
        postdates == {"MAY_POSTDATE", "POSTDATED"} \cap body.opts # {}
    IN  FirstRefusal(<<
            <<TgsOnlyOptions \cap body.opts # {}, "BADOPTION">>,
            <<Expired(client, now), "NAME_EXP">>,
            <<client.pwExpire # 0 /\ now > client.pwExpire /\ ~pwchange, "KEY_EXPIRED">>,
            <<Expired(server, now), "SERVICE_EXP">>,
            <<"REQUIRES_PWCHANGE" \in client.attrs /\ ~pwchange, "KEY_EXPIRED">>,
            <<postdates /\ "DISALLOW_POSTDATED" \in client.attrs \cup server.attrs,
              "CANNOT_POSTDATE">>,
            <<"DISALLOW_ALL_TIX" \in client.attrs, "CLIENT_REVOKED">>,
            <<"DISALLOW_ALL_TIX" \in server.attrs, "S_PRINCIPAL_UNKNOWN">>,
            <<"DISALLOW_SVR" \in server.attrs, "MUST_USE_USER2USER">>,
            <<CheckAnon(client.id[1], body.sname, body.realm), "POLICY">> >>)

(* select_session_keytype: the first requested enctype the server takes. *)
SelectSessionKeytype(server, etypes) ==
    LET usable == {i \in DOMAIN etypes : etypes[i] \in server.etypes \cup {"aes256"}}
    IN  IF usable = {} THEN {} ELSE {etypes[Min(usable)]}

(* include_pac_for_reply *)
IncludePac(server, wanted, flags) ==
    /\ "NO_AUTH_DATA_REQUIRED" \notin server.attrs
    /\ ~DisablePac
    /\ "ANONYMOUS" \notin flags
    /\ wanted

-----------------------------------------------------------------------------
(* krb5int_validate_times of a presented ticket. *)
CheckHeaderTimes(tkt, now) ==
    FirstRefusal(<< <<now < tkt.start - Skew, "TKT_NYV">>,
                    <<tkt.end < now - Skew, "TKT_EXPIRED">> >>)

NonTgtOptions == {"FORWARDED", "PROXY", "RENEW", "VALIDATE"}

NonTgt(body) == NonTgtOptions \cap body.opts # {}

(* Mutant of CheckTgsConstraintsSkeleton: validation does not wait.        *)
CheckTgsConstraintsSkeletonEarly(body, header, now) ==
    FirstRefusal(<<
        <<"INVALID" \in header.flags /\ "VALIDATE" \notin body.opts, "TKT_NYV">>,
        <<"RENEW" \in body.opts /\ \A t \in header.renewTill : t <= now, "TKT_EXPIRED">>,
        <<NonTgt(body) /\ header.sname # body.sname, "SERVER_NOMATCH">> >>)

CheckTgsConstraintsSkeleton(body, header, now) ==
    LET o == body.opts
        Lacks(opts, flag) == opts \cap o # {} /\ flag \notin header.flags
    IN  FirstRefusal(<<
            <<Lacks({"FORWARDED"}, "FORWARDABLE"), "BADOPTION">>,
            <<Lacks({"PROXY"}, "PROXIABLE"), "BADOPTION">>,
            <<Lacks({"MAY_POSTDATE", "POSTDATED"}, "MAY_POSTDATE"), "BADOPTION">>,
            <<Lacks({"VALIDATE"}, "INVALID"), "BADOPTION">>,
            <<Lacks({"RENEW"}, "RENEWABLE"), "BADOPTION">>,
            <<"INVALID" \in header.flags /\ "VALIDATE" \notin o, "TKT_NYV">>,
            <<"VALIDATE" \in o /\ now < header.start, "TKT_NYV">>,
            <<"RENEW" \in o /\ \A t \in header.renewTill : t <= now, "TKT_EXPIRED">>,
            <<NonTgt(body) /\ (header.sname # body.sname \/ header.srealm # body.realm),
              "SERVER_NOMATCH">>,
            <<"PROXY" \in o /\ IsKrbtgt(body.sname), "BADOPTION">>,
            <<~NonTgt(body) /\ header.sname # Krbtgt(body.realm), "NOT_US">> >>)

CheckTgsPolicyFlags(server, body, header, now) ==
    LET Denies(attr, opt) == attr \in server.attrs /\ opt \in body.opts
    IN  FirstRefusal(<<
            <<Denies("DISALLOW_RENEWABLE", "RENEWABLE"), "POLICY">>,
            <<Denies("DISALLOW_POSTDATED", "MAY_POSTDATE"), "CANNOT_POSTDATE">>,
            <<Denies("DISALLOW_DUP_SKEY", "ENC_TKT_IN_SKEY"), "POLICY">>,
            <<"DISALLOW_ALL_TIX" \in server.attrs, "S_PRINCIPAL_UNKNOWN">>,
            <<"DISALLOW_SVR" \in server.attrs /\ "ENC_TKT_IN_SKEY" \notin body.opts,
              "MUST_USE_USER2USER">>,
            <<"DISALLOW_TGT_BASED" \in server.attrs /\ IsKrbtgt(header.sname), "POLICY">>,
            <<"REQUIRES_HW_AUTH" \in server.attrs /\ "HW_AUTHENT" \notin header.flags, "GENERIC">>,
            <<"REQUIRES_PRE_AUTH" \in server.attrs /\ "PRE_AUTHENT" \notin header.flags, "GENERIC">>,
            <<Expired(server, now), "SERVICE_EXP">> >>)
-----------------------------------------------------------------------------
(***************************************************************************)
(* The PAC, the authorization data and delegation (krb5-kdc/src/ad.rs and  *)
(* issue/tgs_policy.rs).  The PAC of a ticket is an optional record        *)
(* [name, realm, time, target, via, kvno]: CLIENT_INFO, whose realm is     *)
(* optional; DELEGATION_INFO, target and transited services; the version   *)
(* of the krbtgt key that signed it.  The CAMMAC is an optional record     *)
(* [realm, kvno, inds] and authdata a set of type names.                   *)
(***************************************************************************)

CurrentKvno(p) == Max(p.keys)

(* The current krbtgt key and its two predecessors; a missing one ends the *)
(* search.                                                                 *)
PacKeyFound(pac, tgt) ==
    \E back \in 0 .. 2 :
        /\ pac.kvno = CurrentKvno(tgt) - back
        /\ \A b \in 1 .. back : CurrentKvno(tgt) - b \in tgt.keys

GetVerifiedPac(tkt, tgt) ==
    IF IsKrbtgt(tkt.sname) \/ \A pac \in tkt.pac : PacKeyFound(pac, tgt)
    THEN Ok ELSE "MODIFIED"

PacClientInfoEq(pac, time, name, realm) ==
    pac.time = time /\ pac.name = name /\ pac.realm = realm

PacClientMatches(pac, tkt) == PacClientInfoEq(pac, tkt.authtime, tkt.cname, {})

VerifyDelegPac(pac, tkt, target) ==
    /\ pac.realm # {}
    /\ pac.time = tkt.authtime
    /\ \A t \in target : pac.target = t
    /\ pac.via # <<>> /\ Last(pac.via) = <<tkt.cname, tkt.crealm>>

CheckNormalTgsPac(header, server, crossrealm) ==
    IF \A pac \in header.pac :
           \/ PacClientMatches(pac, header)
           \/ crossrealm /\ IsCrossTgs(server.id) /\ VerifyDelegPac(pac, header, {})
    THEN Ok ELSE "BADOPTION"

(* mit_ticket_pac: what the PAC of the new ticket says.  hop is the        *)
(* evidence server of a local delegation, s4u the impersonated user.       *)
MitTicketPac(subject, hop, target, s4u, referral, cname, authtime, kvno) ==
    LET said == IF s4u # {} /\ referral
                THEN LET u == CHOOSE u \in s4u : TRUE
                     IN  [name |-> u[1], realm |-> {u[2]}, time |-> authtime]
                ELSE IF s4u # {} \/ subject = {}
                THEN [name |-> cname, realm |-> {}, time |-> authtime]
                ELSE CHOOSE p \in subject : TRUE
        before == IF subject = {} THEN <<>> ELSE (CHOOSE p \in subject : TRUE).via
        goal == IF subject = {} THEN <<>> ELSE (CHOOSE p \in subject : TRUE).target
    IN  {[name |-> said.name, realm |-> said.realm, time |-> said.time,
          target |-> IF hop = {} THEN goal ELSE target,
          via |-> before \o (IF hop = {} THEN <<>> ELSE <<CHOOSE h \in hop : TRUE>>), kvno |-> kvno]}

-----------------------------------------------------------------------------
S4u2selfInvalidOptions == NonTgtOptions \cup {"ENC_TKT_IN_SKEY", "CNAME_IN_ADDL_TKT"}

(* process_s4u2self_req: the request names [name, realm, cert, fault];     *)
(* fault is the verdict on its checksum and nonce.                         *)
ProcessS4u2selfReq(s4u, realm, db) ==
    LET local == s4u.realm = realm
        known == <<s4u.name, realm>> \in DOMAIN db
    IN  FirstRefusal(<< <<s4u.fault # Ok, s4u.fault>>,
                        <<s4u.name = <<>> /\ ~s4u.cert, "C_PRINCIPAL_UNKNOWN">>,
                        <<local /\ s4u.cert, "GENERIC">>,
                        <<local /\ ~known, "C_PRINCIPAL_UNKNOWN">> >>)

(* The entry of the impersonated user, whose password may have expired. *)
S4uLocal(s4u, realm, db) ==
    IF s4u.realm # realm THEN {}
    ELSE LET p == db[s4u.name, realm]
         IN  {[p EXCEPT !.pwExpire = 0, !.attrs = @ \ {"REQUIRES_PWCHANGE"}]}

EmptyServer == [id |-> <<<<>>, <<>>>>, attrs |-> {}, expiration |-> 0]

CheckTgsS4u2self(body, s4u, local, headerCross, referral, header, now) ==
    LET pac == CHOOSE p \in header.pac : TRUE
        first == FirstRefusal(<<
            <<S4u2selfInvalidOptions \cap body.opts # {}, "BADOPTION">>,
            <<~headerCross /\ referral, "S_PRINCIPAL_UNKNOWN">>,
            <<local # {} /\ headerCross /\ ~referral, "C_PRINCIPAL_UNKNOWN">>,
            <<local = {} /\ (~headerCross \/ s4u.name = <<>>), "POLICY">>,
            <<header.pac = {}, "TGT_REVOKED">> >>)
    IN  IF first # Ok THEN first
        ELSE IF local = {}
        THEN IF PacClientInfoEq(pac, header.authtime, s4u.name, {s4u.realm}) THEN Ok ELSE "BADOPTION"
        ELSE IF ~PacClientMatches(pac, header) THEN "BADOPTION"
        ELSE ValidateAsRequest(CHOOSE p \in local : TRUE, EmptyServer, body, now)

-----------------------------------------------------------------------------
(* check_tgs_u2u: the second ticket is the server's own TGT. *)
CheckTgsU2u(second, server, db) ==
    IF second = {} THEN "BADOPTION"
    ELSE LET st == CHOOSE s \in second : TRUE
         IN  IF st.sname # Krbtgt(server.id[2]) \/ st.srealm # server.id[2] THEN "POLICY"
             ELSE IF <<st.cname, st.crealm>> \notin DOMAIN db
                     \/ <<st.cname, st.crealm>> # server.id
             THEN "SERVER_NOMATCH" ELSE Ok

(* check_tgs_s4u2proxy; st is the evidence ticket. *)
CheckTgsS4u2proxy(body, header, st, realm, crossrealm, referral) ==
    LET Matches(t) == \A pac \in t.pac : PacClientMatches(pac, t)
        general == FirstRefusal(<<
            <<"FORWARDABLE" \notin st.flags, "BADOPTION">>,
            <<NonTgt(body) \/ "ENC_TKT_IN_SKEY" \in body.opts, "BADOPTION">>,
            <<IsKrbtgt(body.sname), "POLICY">>,
            <<header.pac = {}, "TGT_REVOKED">>,
            <<~Matches(header), "BADOPTION">>,
            <<st.pac = {}, "MODIFIED">> >>)
        foreign == \/ referral
                   \/ ~IsCrossTgs(<<st.sname, st.srealm>>) \/ st.sname[2] # realm
                   \/ <<st.cname, st.crealm>> # <<header.cname, header.crealm>>
                   \/ \E pac \in st.pac : ~VerifyDelegPac(pac, st, {body.sname})
        own == FirstRefusal(<< <<<<st.sname, st.srealm>> # <<header.cname, realm>>, "SERVER_NOMATCH">>,
                               <<~Matches(st), "BADOPTION">> >>)
    IN  Then(general, IF ~crossrealm THEN own ELSE IF foreign THEN "BADOPTION" ELSE Ok)

(* check_s4u2proxy_policy *)
CheckS4u2proxyPolicy(rbcd, impersonator, who, server, dest, crossrealm, referral) ==
    IF \/ referral /\ rbcd
       \/ ~referral /\ rbcd /\ who \in server.allowedFrom
       \/ ~referral /\ ~crossrealm /\ \E p \in impersonator : dest \in p.allowedTo
    THEN Ok ELSE "BADOPTION"

-----------------------------------------------------------------------------
(* Mutant of GetAuthIndicators: any realm's word is taken.                 *)
GetAuthIndicatorsAny(tkt, tgt) == UNION {c.inds : c \in tkt.cammac}

(* The indicators of the CAMMACs whose KDC verifier this realm's key made. *)
GetAuthIndicators(tkt, tgt) ==
    UNION {c.inds : c \in {c \in tkt.cammac : c.realm = tgt.id[2] /\ c.kvno \in tgt.keys}}

CheckIndicators(server, inds) ==
    IF \A req \in server.requireAuth : req \cap inds # {} THEN Ok ELSE "POLICY"

AddAuthIndicators(inds, tgt) ==
    IF inds = {} THEN {} ELSE {[realm |-> tgt.id[2], kvno |-> CurrentKvno(tgt), inds |-> inds]}

KdcIssued == {"SIGNTICKET", "KDC_ISSUED", "WIN2K_PAC", "CAMMAC", "AUTH_INDICATOR"}

(* handle_authdata: the request's elements and the header's, without those *)
(* only a KDC may write.                                                   *)
HandleAuthdata(asked, carried) ==
    IF "MANDATORY_FOR_KDC" \in asked \cup carried
    THEN [code |-> "POLICY", ad |-> {}]
    ELSE [code |-> Ok, ad |-> (asked \cup carried) \ KdcIssued]
-----------------------------------------------------------------------------
(***************************************************************************)
(* Preauthentication of the AS exchange (krb5-kdc/src/preauth.rs,          *)
(* preauth/spake.rs, preauth/otp.rs, the modules of plugins.rs and         *)
(* finish_preauth of issue/as_req.rs).  Request padata is a set of records *)
(* told apart by their type.  Cryptography is perfect: a value sealed with *)
(* a key names the version of that key, and opens with no other.  A key of *)
(* a client is <<client, version>>; ikey is the one of the request, if any.*)
(***************************************************************************)

CONSTANTS
    Modules,            \* the modules selected_preauth keeps, in their order
    CookieLifetime,     \* COOKIE_LIFETIME
    FreshnessLifetime,  \* FRESHNESS_LIFETIME
    RequireFreshness,   \* pkinit_require_freshness
    OptimisticSpake,    \* spake_preauth_kdc_challenge names a group
    ModuleIndicators    \* the indicators configured for each module

ModuleNames == {"pkinit", "otp", "spake", "encrypted_timestamp", "encrypted_challenge"}

ASSUME PreauthAssumption ==
    /\ Modules \in Seq(ModuleNames)
    /\ {CookieLifetime, FreshnessLifetime} \subseteq Nat
    /\ {RequireFreshness, OptimisticSpake} \subseteq BOOLEAN

OfType(padata, type) == {p \in padata : p.type = type}

Only(option) == CHOOSE x \in option : TRUE

InSkew(now, t) == t - now \in -Skew .. Skew

-----------------------------------------------------------------------------
(* armor_rd_req: the AP-REQ [tkt, matches, time, subkey, kind] of the      *)
(* armor.                                                                  *)
ArmorRdReq(ap, realm, db, now) ==
    LET t == ap.tkt
        id == <<t.sname, realm>>
        opened == FirstRefusal(<<
            <<t.srealm # realm \/ id \notin DOMAIN db, "NOT_US">>,
            <<id \in DOMAIN db /\ t.kvno \notin db[id].keys, "BADKEYVER">>,
            <<~ap.matches, "BADMATCH">> >>)
        checked == CheckTransited("TRANSITED" \in t.flags, t.transited, t.crealm, realm)
        fresh == FirstRefusal(<<
            <<t.start > now + Skew, "TKT_NYV">>,
            <<now > t.end + Skew, "TKT_EXPIRED">>,
            <<~InSkew(now, ap.time), "SKEW">>,
            <<"INVALID" \in t.flags, "GENERIC">> >>)
    IN  Then(opened, Then(checked, fresh))

ArmorApRequest(ap, realm, db, now) ==
    Then(ArmorRdReq(ap, realm, db, now),
         FirstRefusal(<< <<ap.tkt.sname # Krbtgt(realm), "SERVER_NOMATCH">>,
                         <<~ap.subkey, "POLICY">> >>))

(* kdc_find_fast: the armored request [armor, fault, critical]; fault is   *)
(* what decryption and the checksum of the request say.                    *)
KdcFindFast(fast, subkey, realm, db, now) ==
    LET armored == IF fast.armor = {} THEN Ok
                   ELSE LET ap == Only(fast.armor)
                        IN  IF ap.kind # "ApRequest" \/ subkey THEN "PREAUTH_FAILED"
                            ELSE ArmorApRequest(ap, realm, db, now)
    IN  Then(armored,
             FirstRefusal(<< <<fast.armor = {} /\ ~subkey, "PREAUTH_FAILED">>,
                             <<fast.fault # Ok, fast.fault>>,
                             <<fast.critical, "UNKNOWN_CRITICAL_FAST_OPTION">> >>))

-----------------------------------------------------------------------------
(* The cookie is bound to the client and to a krbtgt key; one with nothing *)
(* to carry is the constant one, {} here.                                  *)
MakeCookie(client, contents, tgt, now) ==
    IF contents = {} THEN {}
    ELSE {[type |-> "Cookie", client |-> client.id, kvno |-> CurrentKvno(tgt),
           time |-> now, data |-> contents]}

(* Mutant of OpenCookie: a cookie does not expire.                         *)
OpenCookieEver(padata, client, tgt, now) ==
    UNION {c.data : c \in {c \in OfType(padata, "Cookie") : c.client = client.id}}

OpenCookie(padata, client, tgt, now) ==
    UNION {c.data : c \in {c \in OfType(padata, "Cookie") :
                              /\ c.client = client.id
                              /\ c.kvno \in tgt.keys
                              /\ now - c.time <= CookieLifetime}}

MintFreshnessToken(tgt, now) == [kvno |-> CurrentKvno(tgt), time |-> now]

CheckFreshnessToken(token, tgt, now) ==
    now <= token.time + FreshnessLifetime /\ token.kvno \in tgt.keys

-----------------------------------------------------------------------------
(* What a module made of the request. *)
NotMine == [kind |-> "None"]
Failed(code) == [kind |-> "Fail", code |-> code]
Verified(key, inds) == [kind |-> "Verified", key |-> key, inds |-> inds]
Judged(code, verified) == IF code # Ok THEN Failed(code) ELSE verified
Challenge(data) == [kind |-> "Challenge", data |-> data]

(* send_challenge: the KDC's half is made from the client key in use. *)
SendChallenge(ikey, now) == [spake |-> now, w |-> ikey]

(* process_spake; a response names the challenge it answers and the key it *)
(* was computed from.                                                      *)
ProcessSpake(padata, client, ikey, tgt, now) ==
    LET msg == OfType(padata, "Spake")
        p == Only(msg)
        key == Only(ikey)
    IN  IF msg = {} THEN NotMine
        ELSE IF ikey = {} THEN Failed("ETYPE_NOSUPP")
        ELSE IF p.msg = "Support"
        THEN IF p.group THEN Challenge({SendChallenge(key, now)}) ELSE Failed("PREAUTH_FAILED")
        ELSE IF /\ p.msg = "Response"
                /\ p.challenge \in OpenCookie(padata, client, tgt, now)
                /\ p.challenge.w = key /\ p.w = key
                /\ p.factor = "None"
        THEN Verified("Spake", ModuleIndicators["spake"])
        ELSE Failed("PREAUTH_FAILED")

(* authorize_cert: cert is [sans, eku, match]. *)
AuthorizeCert(cert, client) ==
    FirstRefusal(<< <<cert.sans # {} /\ client.id \notin cert.sans, "CLIENT_NAME_MISMATCH">>,
                    <<~cert.eku, "INCONSISTENT_KEY_PURPOSE">>,
                    <<cert.match = "No", "CERTIFICATE_MISMATCH">>,
                    <<cert.sans = {} /\ cert.match # "Yes", "CLIENT_NAME_MISMATCH">> >>)

ProcessPkinit(padata, client, cname, opts, ikey, tgt, now) ==
    LET msg == OfType(padata, "PkAsReq")
        p == Only(msg)
        signed == p.cert # {}
        anonymous == "ANONYMOUS" \in opts /\ cname = Anonymous
        read == FirstRefusal(<< <<ikey = {}, "ETYPE_NOSUPP">>, <<p.cms # Ok, p.cms>> >>)
        rest == FirstRefusal(<<
            <<~signed /\ ~anonymous, "PREAUTH_FAILED">>,
            <<~InSkew(now, p.time), "SKEW">>,
            <<p.dh = "Weak", "DH_KEY_PARAMETERS_NOT_ACCEPTED">>,
            <<~signed /\ p.dh = "None", "PREAUTH_FAILED">>,
            <<~p.bound, "PREAUTH_FAILED">>,
            <<\E t \in p.fresh : ~CheckFreshnessToken(t, tgt, now), "PREAUTH_EXPIRED">>,
            <<signed /\ RequireFreshness /\ p.fresh = {}, "PREAUTH_FAILED">>,
            <<p.dh = "None", "PREAUTH_FAILED">> >>)
    IN  IF msg = {} THEN NotMine
        ELSE Judged(Then(read, Then(IF signed THEN AuthorizeCert(Only(p.cert), client) ELSE Ok, rest)),
                    Verified("Dh", IF signed THEN ModuleIndicators["pkinit"] ELSE {}))

(* otp_verify: the tokens of the client are tried in turn until one is not *)
(* rejected; verdicts is what their verifiers answer.                      *)
OtpVerify(padata, client, armored, now) ==
    LET msg == OfType(padata, "OtpRequest")
        p == Only(msg)
        settled == {i \in DOMAIN client.tokens : p.verdicts[i] # "Reject"}
        code == FirstRefusal(<<
            <<~armored, "PREAUTH_FAILED">>,
            <<p.timed /\ ~InSkew(now, p.time), "SKEW">>,
            <<settled = {} \/ p.verdicts[Min(settled)] # "Accept", "PREAUTH_FAILED">> >>)
    IN  IF msg = {} THEN NotMine
        ELSE Judged(code, Verified("Armor", client.tokens[Min(settled)]))

(* Only the highest version of the client's key is tried. *)
VerifyEncTimestamp(padata, client, now) ==
    LET msg == OfType(padata, "EncTimestamp")
        p == Only(msg)
    IN  IF msg = {} THEN NotMine
        ELSE IF p.key # <<client.id, CurrentKvno(client)>> THEN Failed("PREAUTH_FAILED")
        ELSE IF ~InSkew(now, p.time) THEN Failed("SKEW")
        ELSE Verified("Client", {})

VerifyEncryptedChallenge(padata, ikey, now) ==
    LET p == Only(OfType(padata, "EncChallenge"))
    IN  IF ikey = {} \/ p.key \notin ikey THEN Failed("PREAUTH_FAILED")
        ELSE IF ~InSkew(now, p.time) THEN Failed("SKEW")
        ELSE Verified("Client", ModuleIndicators["encrypted_challenge"])

(* filter_preauth_error *)
PassThrough == {"BAD_INTEGRITY", "SKEW", "PREAUTH_REQUIRED", "ETYPE_NOSUPP", "CLIENT_NOT_TRUSTED",
                "INVALID_SIG", "DH_KEY_PARAMETERS_NOT_ACCEPTED", "CANT_VERIFY_CERTIFICATE",
                "INVALID_CERTIFICATE", "CLIENT_NAME_MISMATCH", "INCONSISTENT_KEY_PURPOSE",
                "CERTIFICATE_MISMATCH", "MORE_PREAUTH_DATA_REQUIRED", "DISCARD"}

FilterPreauthError(code) == IF code \in PassThrough THEN code ELSE "PREAUTH_FAILED"

Filtered(said) ==
    IF said.kind = "Fail" THEN Failed(FilterPreauthError(said.code)) ELSE said

FirstOf(mine, by) == IF mine = {} THEN NotMine ELSE Filtered(by[Modules[Min(mine)]])

FirstSaid(by) == FirstOf({i \in DOMAIN Modules : by[Modules[i]].kind # "None"}, by)

(* run_as_preauth: the first module that knows the padata decides. *)
RunAsPreauth(padata, client, cname, opts, ikey, armored, tgt, now) ==
    FirstSaid([pkinit |-> ProcessPkinit(padata, client, cname, opts, ikey, tgt, now),
               otp |-> OtpVerify(padata, client, armored, now),
               spake |-> ProcessSpake(padata, client, ikey, tgt, now),
               encrypted_timestamp |-> VerifyEncTimestamp(padata, client, now),
               encrypted_challenge |-> NotMine])

(* preauth_hint_edata: the cookie and the freshness token of the hints. *)
PreauthHint(padata, client, ikey, tgt, now) ==
    {[cookie |-> MakeCookie(client, IF OptimisticSpake /\ ikey # {} /\ "spake" \in Range(Modules)
                                     /\ "REQUIRES_HW_AUTH" \notin client.attrs
                                   THEN {SendChallenge(Only(ikey), now)} ELSE {}, tgt, now),
     fresh |-> IF "pkinit" \in Range(Modules) /\ OfType(padata, "AsFreshness") # {}
               THEN {MintFreshnessToken(tgt, now)} ELSE {}]}

RefusePreauth(code, hint) == [code |-> code, hint |-> hint]

Accept(done, anonymous, client, hint, tgt, now) ==
    IF done.kind = "Challenge"
    THEN RefusePreauth("MORE_PREAUTH_DATA_REQUIRED",
                       {[cookie |-> MakeCookie(client, done.data, tgt, now), fresh |-> {}]})
    ELSE IF \/ done.kind = "None" /\ (anonymous \/ "REQUIRES_PRE_AUTH" \in client.attrs)
            \/ "REQUIRES_HW_AUTH" \in client.attrs
    THEN RefusePreauth("PREAUTH_REQUIRED", hint)
    ELSE [code |-> Ok, hint |-> {}, done |-> done]

(* The modules said ran, and ec is the encrypted challenge, tried last. *)
AfterModules(ran, ec, anonymous, client, hint, tgt, now) ==
    IF ran.kind = "Fail" THEN RefusePreauth(ran.code, IF ran.code = "PREAUTH_FAILED" THEN hint ELSE {})
    ELSE IF ran.kind = "None" /\ ec.kind = "Fail" THEN RefusePreauth(FilterPreauthError(ec.code), {})
    ELSE Accept(IF ran.kind = "None" THEN ec ELSE ran, anonymous, client, hint, tgt, now)

(* finish_preauth: [code, hint] or the reply key and the indicators.       *)
(* armored says that the padata came in a FAST tunnel.                     *)
FinishPreauth(padata, client, req, ikey, armored, tgt, now) ==
    LET ec == "encrypted_challenge" \in Range(Modules) /\ OfType(padata, "EncChallenge") # {}
    IN  IF ec /\ ~armored THEN RefusePreauth("PREAUTH_FAILED", PreauthHint(padata, client, ikey, tgt, now))
        ELSE IF "ANONYMOUS" \in req.opts /\ req.cname # Anonymous THEN RefusePreauth("BADOPTION", {})
        ELSE AfterModules(RunAsPreauth(padata, client, req.cname, req.opts, ikey, armored, tgt, now),
                          IF ec THEN VerifyEncryptedChallenge(padata, ikey, now) ELSE NotMine,
                          "ANONYMOUS" \in req.opts, client,
                          PreauthHint(padata, client, ikey, tgt, now), tgt, now)
=============================================================================
