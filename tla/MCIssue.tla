------------------------------- MODULE MCIssue -------------------------------
(* Four scenes: ticket times in one realm, four realms, delegation and     *)
(* preauthentication.                                                      *)
EXTENDS Issue, TLC

R == <<"r">>
XR == <<"x", "r">>
YR == <<"y", "r">>
O == <<"o">>

MCCapaths == <<>>
MCAdjust == [lifetime |-> 0, renew |-> 0]
MCHostRealm == "h" :> YR
MCModules == <<"pkinit", "otp", "spake", "encrypted_timestamp", "encrypted_challenge">>
MCModuleIndicators == [pkinit |-> {"pk"}, otp |-> {}, spake |-> {"sp"}, encrypted_timestamp |-> {},
                       encrypted_challenge |-> {"ec"}]

Alice == <<"alice">>
Bob == <<"bob">>
Web == <<"web">>
Open == <<"open">>
Back == <<"back">>
Host == <<"host", "h">>

P(name, realm) ==
    [id |-> <<name, realm>>, attrs |-> {}, maxLife |-> 0, maxRenew |-> 6, expiration |-> 0,
     pwExpire |-> 0, keys |-> {1}, etypes |-> {"aes256"}, requireAuth |-> {}, allowedTo |-> {},
     allowedFrom |-> {}, tokens |-> <<{"otp"}, {}>>]

Db(ps) == [id \in {p.id : p \in ps} |-> CHOOSE p \in ps : p.id = id]

Body(realm, cname, sname, opts) ==
    [realm |-> realm, cname |-> cname, sname |-> sname, opts |-> opts, from |-> 0, till |-> 9,
     rtime |-> {}, etypes |-> <<"aes256">>, caddr |-> {}]

As(body) == [realm |-> body.realm, body |-> body, methods |-> {"none"}, armored |-> FALSE, pac |-> TRUE]

Tgs(body) == [realm |-> body.realm, body |-> body, s4u |-> {}, ad |-> {}, addr |-> 1, rbcd |-> FALSE,
              second |-> FALSE]

Scene(dbs) == [now |-> 1, maxTickets |-> 3, db |-> dbs, tickets |-> <<>>, as |-> {}, tgs |-> {}, rekey |-> {},
               secrets |-> {}, certs |-> {}]

(* Times: postdated, renewable and forwarded tickets; the server's life is *)
(* shorter than the realm's.                                               *)
TimesDb == R :> Db({P(Krbtgt(R), R), P(Alice, R), [P(Host, R) EXCEPT !.maxLife = 2, !.maxRenew = 3]})

Times ==
    LET B(sname, opts) == Body(R, Alice, sname, opts)
    IN  [Scene(TimesDb) EXCEPT
            !.as = {As(B(Krbtgt(R), {"FORWARDABLE"})),
                    As([B(Krbtgt(R), {"RENEWABLE", "PROXIABLE"}) EXCEPT !.rtime = {5}, !.till = 3]),
                    As([B(Krbtgt(R), {"POSTDATED", "MAY_POSTDATE", "RENEWABLE_OK"})
                        EXCEPT !.from = 3])},
            !.tgs = {Tgs(B(Host, {})),
                     Tgs([B(Host, {"RENEWABLE"}) EXCEPT !.till = 4]),
                     Tgs(B(Krbtgt(R), {"RENEW", "RENEWABLE"})),
                     Tgs(B(Host, {"RENEW", "RENEWABLE"})),
                     Tgs(B(Krbtgt(R), {"VALIDATE"})),
                     Tgs([B(Krbtgt(R), {"FORWARDED", "FORWARDABLE"}) EXCEPT !.caddr = {2}]),
                     Tgs([B(Host, {"PROXY"}) EXCEPT !.caddr = {1}]),
                     Tgs([B(Host, {"POSTDATED"}) EXCEPT !.from = 4]),
                     Tgs(B(Host, {"VALIDATE"}))}]

(* Realms: X.R and Y.R lie under R; O shares a key with both and lies on   *)
(* no path.  The first ticket comes from a KDC that compresses.            *)
Cross(a, b) == {P(Krbtgt(b), a)}

RealmsDb ==
    (XR :> Db({P(Krbtgt(XR), XR), P(Alice, XR)} \cup Cross(XR, R) \cup Cross(XR, O)))
    @@ (R :> Db({P(Krbtgt(R), R)} \cup Cross(XR, R) \cup Cross(R, YR) \cup Cross(O, R)))
    @@ (YR :> Db({P(Krbtgt(YR), YR), [P(Host, YR) EXCEPT !.requireAuth = {}]}
                 \cup Cross(R, YR) \cup Cross(O, YR)))
    @@ (O :> Db({P(Krbtgt(O), O)} \cup Cross(XR, O) \cup Cross(O, YR) \cup Cross(O, R)))

Compressed(fields, crealm, via) ==
    [sname |-> Krbtgt(R), srealm |-> O, kvno |-> 1, cname |-> Alice, crealm |-> crealm,
     flags |-> {}, authtime |-> 1, start |-> 1, end |-> 9, renewTill |-> {}, transited |-> fields,
     caddr |-> {}, pac |-> {}, cammac |-> {[realm |-> O, kvno |-> 1, inds |-> {"pk"}]}, ad |-> {},
     parent |-> 0, evidence |-> 0, chain |-> {}, sources |-> {}, via |-> via, born |-> 1, proof |-> {}, ckey |-> <<>>]

MCRealms ==
    LET B(realm, sname, opts) == Body(realm, Alice, sname, opts)
    IN  [Scene(RealmsDb) EXCEPT !.now = MaxTime, !.maxTickets = 5,
            !.as = {As(B(XR, Krbtgt(XR), {}))},
            !.tgs = {Tgs(B(XR, Krbtgt(R), {})), Tgs(B(XR, Krbtgt(O), {})),
                     Tgs(B(XR, Host, {"CANONICALIZE"})),
                     Tgs(B(R, Krbtgt(YR), {})), 
                     Tgs(B(R, Krbtgt(YR), {"DISABLE_TRANSITED_CHECK"})),
                     Tgs(B(O, Krbtgt(YR), {})),
                     Tgs(B(YR, Host, {})), Tgs(B(YR, Host, {"RENEW"}))}]

(* Compressed lists a foreign KDC may send: the empty first field stands   *)
(* for the realms above the client's.                                      *)
Foreign ==
    {[MCRealms EXCEPT !.as = {}, !.tickets = <<Compressed(f[1], f[2], f[3])>>] :
        f \in {<< <<<<>>, R>>, <<"z", "x", "r">>, <<<<"z", "x", "r">>, XR, R, O>> >>,
               << <<XR, R>>, <<"z", "x", "r">>, <<<<"z", "x", "r">>, XR, R, O>> >>,
               << <<R, <<"x", "">>>>, <<"z", "x", "r">>, <<<<"z", "x", "r">>, XR, R, O>> >>}}

(* Delegation: web may go to back for those that came to it, trusted for   *)
(* anyone; open names no targets, and back names open.                     *)
S4u(name) == {[name |-> name, realm |-> R, cert |-> FALSE, fault |-> Ok]}

Trusted == <<"trusted">>

DelegationDb ==
    R :> Db({P(Krbtgt(R), R), P(Alice, R), [P(Bob, R) EXCEPT !.pwExpire = 1],
             [P(Web, R) EXCEPT !.allowedTo = {<<Back, R>>}],
             [P(Trusted, R) EXCEPT !.allowedTo = {<<Back, R>>}, !.attrs = {"OK_TO_AUTH_AS_DELEGATE"}],
             P(Open, R),
             [P(Back, R) EXCEPT !.allowedFrom = {<<Open, R>>}]})

Delegation ==
    LET B(cname, sname, opts) == Body(R, cname, sname, opts \cup {"FORWARDABLE"})
        Service(s) == {[Tgs(B(s, s, {})) EXCEPT !.s4u = S4u(Bob)]}
        Proxies == {[Tgs(B(Alice, Back, {"CNAME_IN_ADDL_TKT"})) EXCEPT !.second = TRUE, !.rbcd = r] :
                        r \in BOOLEAN}
    IN  {[Scene(DelegationDb) EXCEPT !.now = MaxTime, !.maxTickets = 5,
            !.as = {As(B(c, Krbtgt(R), {})) : c \in {Alice, s}},
            !.tgs = {Tgs(B(Alice, s, {})),
                     [Tgs(B(Alice, s, {"ENC_TKT_IN_SKEY"})) EXCEPT !.second = TRUE]}
                    \cup Service(s) \cup Proxies] : s \in {Web, Trusted, Open}}

(* Preauthentication: alice's password and the krbtgt key change; back     *)
(* requires an indicator.                                                  *)
PreauthDb ==
    LET Pre(name) == [P(name, R) EXCEPT !.attrs = {"REQUIRES_PRE_AUTH"}]
    IN  R :> Db({P(Krbtgt(R), R), Pre(Alice), Pre(Bob), P(Anonymous, R),
                 [Pre(Back) EXCEPT !.requireAuth = {{"pk", "sp", "otp", "ec"}}]})

Keys == {<<<<Alice, R>>, 1>>, <<<<Alice, R>>, 2>>, <<<<Bob, R>>, 1>>}

Preauthentication ==
    LET B(cname, sname) == Body(R, cname, sname, {})
        Auth(c, ms, armored) == [As(B(c, Krbtgt(R))) EXCEPT !.methods = ms, !.armored = armored]
        Base(as, room) ==
            [Scene(PreauthDb) EXCEPT !.now = 4, !.maxTickets = room,
                !.as = as,
                !.tgs = {Tgs(B(Alice, Back))},
                !.rekey = {[realm |-> R, id |-> <<Alice, R>>, keepold |-> FALSE],
                           [realm |-> R, id |-> <<Krbtgt(R), R>>, keepold |-> FALSE]},
                !.secrets = Keys,
                !.certs = {{}, {[sans |-> {<<Alice, R>>}, eku |-> TRUE, match |-> "None"]}}]
    IN  {Base({Auth(Alice, {"none", "timestamp"}, FALSE)}, 2),
         Base({Auth(Alice, {"spake"}, FALSE), Auth(Bob, {"spake"}, FALSE)}, 1),
         Base({Auth(Alice, {"spake"}, FALSE)}, 2),
         Base({Auth(Alice, {"pkinit"}, FALSE), Auth(Bob, {"pkinit"}, FALSE)}, 2),
         Base({Auth(Bob, {"timestamp"}, FALSE), Auth(Alice, {"challenge", "otp"}, TRUE)}, 3)}

MCScenes == {Times, MCRealms} \cup Foreign \cup Delegation \cup Preauthentication
=============================================================================
