------------------------------ MODULE MCClient ------------------------------
(***************************************************************************)
(* The client programs and the libraries they share with the servers, one  *)
(* scene each: the AS exchange, the TGS exchange, the transport under      *)
(* them, kinit over them, the credential caches the commands share, and    *)
(* keytabs; then an accepted session, a GSS context, the search for a      *)
(* realm's servers, the choice of a certificate, the configuration files,  *)
(* typed dates, the arithmetic of the fields, and DER.  Every scene has    *)
(* its own use of the variables.                                           *)
(***************************************************************************)
EXTENDS Integers, Sequences, FiniteSets, TLC

VARIABLES
    scene,
    x1, x2, x3, x4, x5, x6, x7  \* the variables of the scene

xs == <<x1, x2, x3, x4, x5, x6, x7>>
vars == <<scene, xs>>

-----------------------------------------------------------------------------
(* The AS exchange: what is asked, and what a KDC may say. *)
Ask == [armor |-> FALSE, pkinit |-> "none", anonymous |-> FALSE, wantSpake |-> FALSE,
        deferFast |-> FALSE, secret |-> "prompt", responder |-> "none", canon |-> FALSE,
            allowed |-> "any"]
MCAsks == {Ask, [Ask EXCEPT !.secret = "keys"], [Ask EXCEPT !.secret = "unreadable"],
    [Ask EXCEPT !.secret = "none", !.responder="answers"],
  [Ask EXCEPT !.responder = "fails"], [Ask EXCEPT !.wantSpake = TRUE],
      [Ask EXCEPT !.wantSpake = TRUE, !.armor = TRUE],
  [Ask EXCEPT !.pkinit = "client"], [Ask EXCEPT !.pkinit = "failed"],
      [Ask EXCEPT !.pkinit = "failed", !.anonymous = TRUE],
  [Ask EXCEPT !.pkinit = "client", !.anonymous = TRUE], [Ask EXCEPT !.deferFast = TRUE,
      !.canon = TRUE],
  [Ask EXCEPT !.armor = TRUE], [Ask EXCEPT !.armor = TRUE, !.pkinit = "client"],
      [Ask EXCEPT !.armor = TRUE, !.pkinit = "failed"],
  [Ask EXCEPT !.armor = TRUE, !.secret = "given"], [Ask EXCEPT !.allowed = "ENC_TS",
      !.secret = "given"]}
E(code, pa) == [kind |-> "err", code |-> code, data |-> "method", pa |-> pa, referral |-> FALSE,
    wrap |-> "none"]
R == [kind |-> "rep", key |-> "long", nonce |-> "last", names |-> "asked", server |-> "asked",
    flagged |-> TRUE,
      times |-> "fit", pk |-> "bad", wrap |-> "none"]
Lists == {<<"SPAKE", "ENC_TS", "COOKIE">>, <<"SPAKE_CH", "ENC_TS", "COOKIE">>, <<"SPAKE_GROUP",
    "COOKIE">>, <<"SPAKE_NOSF", "EC", "COOKIE">>,
  <<"EC", "OTP", "COOKIE">>, <<"ENC_TS", "PK", "EMB", "COOKIE">>, <<"OTP", "PK", "COOKIE">>,
      <<"COOKIE">>}
Bare == {E(c, l) : c \in {"PREAUTH_REQUIRED", "PREAUTH_FAILED", "MORE_PREAUTH"}, l \in Lists}
  \cup {E("PREAUTH_REQUIRED", <<"INFO_OTHER", "ENC_TS">>), E("PREAUTH_REQUIRED", <<"FX_FAST",
      "ENC_TS">>), E("DH", <<"TD_DH", "COOKIE">>),
        [E("WRONG_REALM", <<>>) EXCEPT !.data = "none", !.referral = TRUE], [E("PREAUTH_FAILED",
            <<>>) EXCEPT !.data = "none"],
        [E("PREAUTH_REQUIRED", <<>>) EXCEPT !.data = "junk"], [E("OTHER",
            <<>>) EXCEPT !.data = "none", !.wrap = "noerror"]}
Reps == {[R EXCEPT !.key = ky, !.flagged = f, !.pk = p] : ky \in {"long", "pre"}, f \in BOOLEAN,
    p \in {"good", "refused"}}
   \cup {R, [R EXCEPT !.key = "other"], [R EXCEPT !.nonce = "stale"], [R EXCEPT !.times = "skewed"],
       [R EXCEPT !.names = "canonical"]}
MCSays == {[m EXCEPT !.wrap = w] : m \in {x \in Bare : x.wrap = "none"}, w \in {"none", "inner"}}
    \cup Bare
   \cup {[m EXCEPT !.wrap = w] : m \in Reps, w \in {"none", "unfinished", "inner"}}
MCLoaded == {"pkinit", "spake", "encrypted_timestamp", "encrypted_challenge", "otp", "embedder"}
MCPref == <<"PK">>

As == INSTANCE ClientAs WITH
    Asks <- MCAsks, Says <- MCSays, Loaded <- MCLoaded, Preferred <- MCPref,
    EnctsOff <- FALSE, Timesync <- FALSE, MaxLoops <- 4, q <- x1, s <- x2

-----------------------------------------------------------------------------
(* The TGS exchange: four realms, three of them on the way to C. *)
MCRealms == {"A", "B", "C", "D"}
MCPath == [A |-> <<"A">>, B |-> <<"A", "B">>, C |-> <<"A", "B", "C">>, D |-> <<"A", "D">>]
MCHost == [svc |-> "C", alias |-> "none", lone |-> "none"]
MCAliases == [svc |-> <<"svc", "svc2">>, alias |-> <<"alias">>, lone |-> <<"lone">>]
W == [name |-> "svc", realm |-> "A", parts |-> 2, canon |-> FALSE, cachedOnly |-> FALSE,
    noStore |-> FALSE]
MCWanted == {W, [W EXCEPT !.realm = "C"], [W EXCEPT !.realm = "", !.noStore = TRUE],
    [W EXCEPT !.name = "alias", !.canon = TRUE, !.realm = ""],
   [W EXCEPT !.cachedOnly = TRUE], [W EXCEPT !.name = "lone", !.parts = 1, !.realm = ""]}
MCReplies == {[kind |-> kd, name |-> "none", realm |-> "none", fits |-> TRUE] : kd \in {"io",
    "unknown", "error"}}
  \cup {[kind |-> "rep", name |-> "krbtgt", realm |-> r, fits |-> TRUE] : r \in MCRealms \cup {"X"}}
  \cup {[kind |-> "rep", name |-> nm, realm |-> "A", fits |-> f] : nm \in {"svc", "svc2", "other",
      "alias"}, f \in BOOLEAN}
MCCached == {{}, {"B"}, {"C"}}

Tgs == INSTANCE ClientTgs WITH
    Realms <- MCRealms, Home <- "A", PathTo <- MCPath, HostRealm <- MCHost, Aliases <- MCAliases,
    Wanted <- MCWanted, Replies <- MCReplies, Cached <- MCCached, MaxHops <- 4,
    goal <- x1, t <- x2

-----------------------------------------------------------------------------
(* Three servers, one without an address. *)
MCServers == <<[udp |-> TRUE, tcp |-> TRUE, found |-> TRUE], [udp |-> TRUE, tcp |-> FALSE,
    found |-> FALSE], [udp |-> TRUE, tcp |-> TRUE, found |-> TRUE]>>

Net == INSTANCE ClientNet WITH
    Servers <- MCServers, Modes <- {"walk", "one", "kpasswd"}, Lives <- {{}, {1}, {3}},
        Limited <- TRUE,
    mode <- x1, big <- x2, live <- x3, n <- x4

-----------------------------------------------------------------------------
(* kinit's command lines. *)
J == [armor |-> "none", canon |-> FALSE, newpw |-> FALSE, prompter |-> TRUE, keytab |-> FALSE,
    service |-> FALSE, switch |-> FALSE, valrenew |-> FALSE]
MCJobs == {J, [J EXCEPT !.armor = "avail", !.canon = TRUE, !.service = TRUE],
    [J EXCEPT !.armor = "later", !.canon = TRUE, !.newpw = TRUE, !.switch = TRUE],
    [J EXCEPT !.keytab = TRUE, !.prompter = FALSE], [J EXCEPT !.valrenew = TRUE]}

Kin == INSTANCE Kinit WITH Jobs <- MCJobs, MaxLegs <- 3, MaxAsks <- 3, job <- x1, k <- x2

-----------------------------------------------------------------------------
(* Three commands of two principals over two caches. *)
Both == {"A", "B"}
CommandsDef ==
    [cmd : {"kinit"}, me : Both \cup {"default"}] \cup {[cmd |-> "kvno", me |-> "default"]}
    \cup [cmd : {"kdestroy"}, me : {"default", "all", "A"}] \cup [cmd : {"kswitch"}, me : Both]
NoCache == [state |-> "absent", owner |-> "none", creds |-> {}]
HeldCache == [state |-> "held", owner |-> "A", creds |-> {[client |-> "A", svc |-> "krbtgt"]}]
BeginsDef == {<<NoCache, NoCache>>, <<HeldCache, NoCache>>}

Creds == INSTANCE CredStore WITH
    Kinds <- {"FILE", "DIR", "KCM"}, Princs <- Both, Names <- {1, 2}, Procs <- {1, 2, 3},
    Services <- {"S"}, Commands <- CommandsDef, Begins <- BeginsDef,
    kind <- x1, caches <- x2, primary <- x3, procs <- x4, disturbed <- x5

-----------------------------------------------------------------------------
(* Two kvnos of a principal and an entry of an unknown encryption type; no *)
(* file, one with a large hole, one with a small hole and a terminator,    *)
(* one of version 1, and one whose last record was cut.                    *)
TableDef == <<[princ |-> "A", kvno |-> 1, known |-> TRUE, size |-> 3],
              [princ |-> "A", kvno |-> 2, known |-> TRUE, size |-> 2],
              [princ |-> "A", kvno |-> 1, known |-> FALSE, size |-> 2]>>
FilesDef == {<<>>,
  <<2, 3, 71, 90, 90, -4, 0, 0, 0, 0, 2, 73, 90>>,
  <<2, -2, 0, 0, 3, 71, 90, 90, 0, 0, 2>>,
  <<1, 3, 71, 90, 0, 2, 73, 0, 3, 71, 90>>,
  <<2, 2, 72, 90, 4, 71>>}
AddedDef == {<<1>>, <<2, 1>>}

Kt == INSTANCE Keytab WITH
    Table <- TableDef, Files <- FilesDef, Princs <- {"A"}, Added <- AddedDef, MaxSlots <- 3,
    file <- x1, list <- x2, want <- x3, shown <- x4

-----------------------------------------------------------------------------
(* AP-REQs against a keytab before and after a change of keys, each with   *)
(* one thing wrong, and peers at the edges of the numbers.                 *)
SessP(s, h, r) == [svc |-> s, host |-> h, realm |-> r]
SessE(s, h, r, t) == [svc |-> s, host |-> h, realm |-> r, hst |-> t]
SessK(p, v, e, k) == [princ |-> p, kvno |-> v, etype |-> e, key |-> k]
SessH1 == SessP("host", "h1", "R")
SessH2 == SessP("host", "h2", "R")
SessKeytabs == {<<SessK(SessH1, 1, "aes", "k1")>>, <<SessK(SessH1, 1, "aes", "k1"), SessK(SessH1, 2,
    "aes", "k2"), SessK(SessH2, 1, "aes", "k3")>>,
              <<SessK(SessH1, 2, "aes", "old"), SessK(SessH1, 2, "aes", "k2"), SessK(SessH1, 2,
                  "rc4", "k4")>>, <<SessK(SessH2, 1, "rc4", "k3")>>}
SessT(p, v, e, k) == [princ |-> p, kvno |-> v, etype |-> e, key |-> k]
SessR0 == [tkt |-> SessT(SessH1, 2, "aes", "k2"), tag |-> 1, sealed |-> TRUE, named |-> TRUE,
    addr |-> TRUE, transit |-> TRUE,
       start |-> 1, end |-> 5, ctime |-> 2, invalid |-> FALSE, cksum |-> "ok", session |-> "aes",
           subkey |-> "none", desired |-> {"aes"}]
SessRequests == {SessR0, [SessR0 EXCEPT !.tag = 2, !.tkt = SessT(SessH1, 1, "aes", "k1"),
    !.subkey = "aes"],
    [SessR0 EXCEPT !.tag = 3, !.tkt = SessT(SessH1, 2, "rc4", "k4")], [SessR0 EXCEPT !.tag = 4,
        !.tkt = SessT(SessH2, 1, "aes", "k3")],
    [SessR0 EXCEPT !.tag = 5, !.ctime = 4], [SessR0 EXCEPT !.tag = 6, !.start = 4],
        [SessR0 EXCEPT !.tag = 7, !.end = 1],
    [SessR0 EXCEPT !.tag = 8, !.invalid = TRUE], [SessR0 EXCEPT !.tag = 9, !.cksum = "bad"],
        [SessR0 EXCEPT !.tag = 10, !.subkey = "rc4"],
    [SessR0 EXCEPT !.tag = 11, !.sealed = FALSE], [SessR0 EXCEPT !.tag = 12, !.named = FALSE],
        [SessR0 EXCEPT !.tag = 13, !.addr = FALSE],
    [SessR0 EXCEPT !.tag = 14, !.transit = FALSE]}
SessExpecteds == {{}, {SessE("host", "h1", "R", TRUE)}, {SessE("host", "h1", "R", FALSE)},
    {SessE("host", "", "", TRUE)}, {SessE("host", "h2", "", TRUE)}}
SessTalkers == {{1}}
SessPermitted == <<"aes", "des">>
SessFlags == {{"time", "seq"}, {"seq", "subkey"}, {"time"}, {"seq", "chain"}, {}}
SessPeers == {[heimdal |-> h, start |-> n] : h \in BOOLEAN, n \in {<<0, 126>>, <<0, 32766>>, <<127,
    65534>>, <<65407, 65534>>, <<65535, 65534>>}}

Se == INSTANCE Session WITH
    Keytabs <- SessKeytabs, Requests <- SessRequests, Expecteds <- SessExpecteds,
        IgnoreHost <- FALSE,
    Permitted <- SessPermitted, FlagSets <- SessFlags, Peers <- SessPeers, MaxSent <- 3,
        MaxTries <- 1,
    Talkers <- SessTalkers, MaxClock <- 3, kt <- x1, ac <- x2, peer <- x3, net <- x4, clock <- x5

-----------------------------------------------------------------------------
(* What an initiator asks for and what an acceptor names.                  *)
GssA0 == [flags |-> {"mutual", "replay", "sequence"}, cb |-> "none", deleg |-> "none",
    cksum |-> "gss", spnego |-> FALSE, expired |-> FALSE, dce |-> "none"]
GssAsks == {GssA0, [GssA0 EXCEPT !.flags = {"replay"}], [GssA0 EXCEPT !.flags = {"mutual",
    "sequence"}], [GssA0 EXCEPT !.flags = {}],
   [GssA0 EXCEPT !.flags = {"mutual", "replay", "bound"}, !.cb = "x"],
       [GssA0 EXCEPT !.flags = {"mutual", "bound"}],
   [GssA0 EXCEPT !.cb = "y"], [GssA0 EXCEPT !.deleg = "good", !.flags = {"mutual"}],
       [GssA0 EXCEPT !.deleg = "sealed otherwise"],
   [GssA0 EXCEPT !.cksum = "other"], [GssA0 EXCEPT !.cksum = "none"],
       [GssA0 EXCEPT !.cksum = "short"], [GssA0 EXCEPT !.spnego = TRUE, !.flags = {"mutual",
       "replay"}],
  [GssA0 EXCEPT !.dce = "token"], [GssA0 EXCEPT !.dce = "both"]}
GssAcc == {[cb |-> "none", cfx |-> TRUE], [cb |-> "x", cfx |-> TRUE], [cb |-> "none",
    cfx |-> FALSE]}

Gs == INSTANCE Gss WITH
    Asks <- GssAsks, Acceptors <- GssAcc, Bases <- {6}, MaxReq <- 2, MaxSent <- 3, Window <- 2,
    Modulus <- 8, ask <- x1, conf <- x2, ini <- x3, acp <- x4, wire <- x5

-----------------------------------------------------------------------------
(* Profiles, resolver files and zones.                                     *)
LocXY == <<"x", "y">>
LocNs(s) == [key |-> "nameserver", words |-> s]
LocOpt(o, n) == [opt |-> o, n |-> n]
LocTwo == <<[key |-> "domain", words |-> << <<"y">> >>], LocNs(<<>>), LocNs(<<"n1">>),
    [key |-> "search", words |-> <<>>], [key |-> "options", words |-> <<LocOpt("ndots", 1),
    LocOpt("attempts", 0)>>], LocNs(<<"n2">>)>>
LocFour == <<LocNs(<<"n2">>), LocNs(<<"n1">>), LocNs(<<"n2">>), LocNs(<<"n3">>), [key |-> "search",
    words |-> <<LocXY, <<"y">> >>]>>
LocBase == [domains |-> {}, default |-> {<<"d">>}, tries |-> -1, lists |-> <<>>, invalid |-> {},
    dns |-> TRUE, qualify |-> {<<>>}, resolv |-> LocTwo, local |-> {}, options |-> <<>>,
    here |-> <<"w", "x", "y">>]
LocRule(d, n, r) == [dot |-> d, name |-> n, realm |-> r]
LocA(w, h) == [what |-> w, host |-> h, numeric |-> FALSE, srvHst |-> TRUE, realm |-> {}]
LocHXY == <<"h", "x", "y">>
LocCases ==
  {[conf |-> LocBase, ask |-> LocA("kpasswd", LocHXY)], [conf |-> LocBase, ask |-> LocA("kdc",
      <<"h", "y">>)],
   [conf |-> [LocBase EXCEPT !.tries = 1], ask |-> LocA("kdc", LocHXY)],
   [conf |-> [LocBase EXCEPT !.dns = FALSE, !.default = {}], ask |-> LocA("kpasswd", <<"h">>)],
   [conf |-> [LocBase EXCEPT !.dns = FALSE], ask |-> LocA("kpasswd", <<"h">>)],
   [conf |-> [LocBase EXCEPT !.domains = {LocRule(TRUE, LocXY, <<"d">>), LocRule(FALSE, LocXY,
       LocXY), LocRule(FALSE, <<"y">>, <<"y">>)}, !.qualify = {LocXY}],
    ask |-> LocA("kdc", <<"h">>)],
   [conf |-> [LocBase EXCEPT !.domains = {LocRule(FALSE, LocHXY, <<"d">>), LocRule(TRUE, <<"y">>,
       LocXY)}, !.qualify = {LocXY}],
    ask |-> LocA("kdc", <<"z", "y">>)],
   [conf |-> [LocBase EXCEPT !.lists = (<<"kdc", LocXY>> :> <<"k1", "k2">>) @@ (<<"admin",
       LocXY>> :> <<"a1">>), !.tries = 2, !.dns = FALSE],
    ask |-> LocA("kpasswd", LocXY)],
   [conf |-> [LocBase EXCEPT !.invalid = {<<"kdc", LocHXY>>}, !.tries = 0], ask |-> LocA("kdc",
       LocHXY)],
   [conf |-> [LocBase EXCEPT !.invalid = {<<"admin", <<"y">> >>}], ask |-> LocA("kpasswd", <<"h",
       "y">>)],
   [conf |-> [LocBase EXCEPT !.invalid = {<<"kpasswd", <<"y">> >>}], ask |-> LocA("kpasswd", <<"h",
       "y">>)],
   [conf |-> [LocBase EXCEPT !.tries = -2], ask |-> LocA("kdc", LocHXY)],
   [conf |-> [LocBase EXCEPT !.qualify = {}, !.resolv = LocFour, !.options = << <<LocOpt("attempts",
       1)>> >>], ask |-> LocA("kdc", <<"h">>)],
   [conf |-> [LocBase EXCEPT !.qualify = {}, !.local = {<<"y">>}, !.resolv = <<LocNs(<<"n2">>),
       [key |-> "options", words |-> <<LocOpt("attempts", 9)>>]>>], ask |-> LocA("kdc", <<"h">>)],
   [conf |-> [LocBase EXCEPT !.qualify = {}, !.resolv = <<>>], ask |-> LocA("kdc", <<"h">>)],
   [conf |-> LocBase, ask |-> [LocA("kdc", <<"1">>) EXCEPT !.numeric = TRUE, !.srvHst = FALSE]],
   [conf |-> LocBase, ask |-> [LocA("kpasswd", <<"h">>) EXCEPT !.srvHst = FALSE,
       !.realm = {LocXY}]]}
LocR(p, h) == [prio |-> p, host |-> h]
LocNone == [rc |-> 3, recs |-> <<>>, tc |-> FALSE]
LocNames == {"_kerberos", "_kpasswd", "_kerberos-adm"} \X {"_udp", "_tcp"} \X {<<"d">>, <<"y">>,
    LocXY, LocHXY, <<"h", "y">>, <<"h">>}
LocZ(f) == [n \in LocNames |-> IF n \in DOMAIN f THEN f[n] ELSE LocNone]
LocGood(n, a, b) == n :> [rc |-> 0, recs |-> <<LocR(2, a), LocR(1, b), LocR(1, "o")>>, tc |-> FALSE]
LocCut(n, a) == n :> [rc |-> 0, recs |-> <<LocR(1, a)>>, tc |-> TRUE]
LocCutFail(n) == n :> [rc |-> 2, recs |-> <<>>, tc |-> TRUE]
LocServFail(n) == n :> [rc |-> 2, recs |-> <<>>, tc |-> FALSE]
LocZones ==
  {[s \in {"n1", "n2", "localhost"} |-> IF s = "n1" THEN LocZ(LocGood(<<"_kerberos", "_udp",
      LocXY>>, "a", "b") @@ LocCut(<<"_kerberos", "_tcp", LocXY>>, "c") @@ LocCut(<<"_kerberos",
      "_udp", <<"y">> >>, "m")
                                             @@ LocGood(<<"_kerberos-adm", "_tcp", LocXY>>, "e",
                                                 "f") @@ LocServFail(<<"_kerberos", "_udp",
                                                 <<"d">> >>) @@ LocServFail(<<"_kerberos", "_tcp",
                                                 <<"d">> >>)
       @@ LocCutFail(<<"_kpasswd", "_udp", LocXY>>) @@ LocCutFail(<<"_kpasswd", "_tcp", LocXY>>))
                           ELSE LocZ(LocGood(<<"_kerberos", "_udp", <<"d">> >>, "g", "h")
                               @@ LocGood(<<"_kpasswd", "_tcp", <<"y">> >>, "i", "j")
       @@ LocCutFail(<<"_kpasswd", "_udp", LocXY>>) @@ LocCutFail(<<"_kpasswd", "_tcp", LocXY>>)
           @@ LocServFail(<<"_kerberos", "_tcp", <<"d">> >>)
       @@ LocServFail(<<"_kpasswd", "_udp", <<"y">> >>))]}

Lo == INSTANCE Locate WITH
    Cases <- LocCases, Zones <- LocZones, Ids <- {0, 1}, InFlight <- 2,
    conf <- x1, ask <- x2, zone <- x3, step <- x4, query <- x5, net <- x6, found <- x7

-----------------------------------------------------------------------------
(* Identity files, certificates and rules.                                 *)
CertBlk(l, g, i) == [label |-> l, good |-> g, id |-> i]
CertFiles == ( <<"a", "crt">> :> <<CertBlk("other", TRUE, "a"), CertBlk("cert", TRUE, "a")>>
    @@ <<"a", "key">> :> <<CertBlk("key", TRUE, "a")>>
          @@ <<"b", "crt">> :> <<CertBlk("cert", TRUE, "b"), CertBlk("cert", TRUE, "a")>> @@ <<"b",
              "key">> :> <<CertBlk("key", TRUE, "b")>>
          @@ <<"c", "crt">> :> <<CertBlk("cert", TRUE, "c"), CertBlk("key", TRUE, "c")>> @@ <<"c",
              "key">> :> <<CertBlk("encrypted", TRUE, "c"), CertBlk("key", TRUE, "c")>>
          @@ <<"d", "crt">> :> <<CertBlk("cert", FALSE, "d")>> @@ <<"d", "key">> :> <<CertBlk("dsa",
              TRUE, "d")>>
          @@ <<"e", "crt">> :> <<CertBlk("cert", TRUE, "e")>> @@ <<"e", "key">> :> <<CertBlk("key",
              TRUE, "e")>>
          @@ <<"n", "crt">> :> <<>> )
CertDirs == "ab" :> <<"a", "b">> @@ "cdeb" :> <<"b", "c", "d", "e">> @@ "abe" :> <<"a", "b", "e">>
    @@ "cd" :> <<"c", "d">>
CertF(c, k) == [kind |-> "FILE", name |-> <<c, "crt">>, key |-> <<k[1], k[2]>>]
CertD(d) == [kind |-> "DIR", name |-> d]
CertE(v) == [kind |-> "ENV", name |-> v]
CertEnv == "x" :> CertF("a", <<"a", "key">>) @@ "loop" :> CertE("loop") @@ "y" :> CertE("x")
CertU(w, b) == [whole |-> w, bits |-> b]
CertDs == <<"d", "s">>
CertKe == <<"k", "e">>
CertPk == <<"p", "k">>
CertCa == <<"c", "a">>
CertCerts == [a |-> [reads |-> TRUE, subject |-> "s1", issuer |-> "i1", sans |-> <<"n1", "n2">>,
    upns |-> <<>>, ku |-> <<CertU(TRUE, {CertDs, CertKe})>>, eku |-> <<CertU(TRUE, {CertPk})>>],
            b |-> [reads |-> TRUE, subject |-> "s2", issuer |-> "i1", sans |-> <<"n1">>,
                upns |-> <<"u1", "n2">>, ku |-> <<CertU(TRUE, {CertDs})>>, eku |-> <<CertU(TRUE,
                {CertPk, CertCa}), CertU(TRUE, {CertPk})>>],
            c |-> [reads |-> TRUE, subject |-> "s1", issuer |-> "i2", sans |-> <<>>, upns |-> <<>>,
                ku |-> <<>>, eku |-> <<CertU(FALSE, {CertPk, CertCa})>>],
            d |-> [reads |-> FALSE], e |-> [reads |-> FALSE]]
CertRe(on) == [code |-> 0, back |-> FALSE, on |-> on]
CertNone == CertRe({})
CertCm(kw, re) == [kw |-> kw, empty |-> FALSE, words |-> <<>>, re |-> re]
CertLs(kw, words) == [kw |-> kw, empty |-> FALSE, words |-> words, re |-> CertNone]
CertComps == { CertCm("none", CertNone), [CertCm("SAN", CertNone) EXCEPT !.empty = TRUE],
    [CertCm("KU", CertNone) EXCEPT !.empty = TRUE], CertCm("SUBJECT", [code |-> 13, back |-> FALSE,
    on |-> {}]),
           CertCm("SUBJECT", [code |-> 0, back |-> TRUE, on |-> {}]), CertCm("SUBJECT",
               CertRe({"s1"})), CertCm("ISSUER", CertRe({"i1"})), CertCm("ISSUER", CertRe({"i2"})),
           CertCm("SAN", CertRe({"n1"})), CertCm("SAN", CertRe({"n2"})), CertCm("SAN", [code |-> 0,
               back |-> TRUE, on |-> {}]),
           CertLs("KU", <<CertDs>>), CertLs("KU", <<CertKe, CertDs>>), CertLs("KU", << <<"k">> >>),
               CertLs("EKU", <<CertPk>>), CertLs("EKU", <<CertPk, CertCa>>), CertLs("EKU",
               << <<"m">>, CertPk>>), CertLs("EKU", << <<"z">> >>) }
CertRl(m, cs) == [mark |-> m, comps |-> cs]
CertRules1 == {CertRl(m, <<>>) : m \in {"none", "and", "or"}} \cup {CertRl(m,
    <<c>>) : m \in {"none", "or"}, c \in CertComps} \cup {CertRl(m, <<c, d>>) : m \in {"none",
    "and", "or"}, c, d \in CertComps}
CertFew == {CertRl("none", <<CertCm("SAN", CertRe({"n1"}))>>), CertRl("none", <<CertCm("ISSUER",
    CertRe({"i1"}))>>), CertRl("or", <<>>), CertRl("none", <<CertCm("none", CertNone)>>),
    CertRl("none", << [CertCm("KU", CertNone) EXCEPT !.empty = TRUE] >>)}
CertQ(who, ids, anchors, pool, rules, cert) == [who |-> who, ids |-> ids, anchors |-> anchors,
    pool |-> pool, rules |-> rules, cert |-> cert]
CertAn == {<<"a", "crt">>}
CertValues == {CertF("a", <<"a", "key">>), CertF("b", <<"c", "key">>), CertF("c", <<"c", "crt">>),
    CertF("d", <<"a", "key">>), CertF("a", <<"d", "key">>), CertF("a", <<"n", "crt">>), CertF("a",
    <<"z", "key">>), CertD("ab"), CertD("cdeb"), CertD("abe"), CertD("cd"), CertD("zz"), CertE("x"),
    CertE("y"), CertE("loop"), CertE("zz"), [kind |-> "PKCS11", name |-> "p"]}
CertAsks == {CertQ("client", <<CertD("ab")>>, CertAn, {}, <<r>>, "a") : r \in CertRules1}
    \cup {CertQ("client", <<CertD("abe")>>, CertAn, {}, <<f, r>>, "a") : f \in CertFew,
        r \in {x \in CertRules1 : Len(x.comps) < 2 \/ x.comps[1].kw = "SAN"}}
    \cup {CertQ("login", <<>>, {}, {}, <<r>>, c) : r \in CertRules1, c \in {"a", "b", "c"}}
        \cup {CertQ("login", <<>>, {}, {}, <<CertRl("or", <<>>)>>, "d")}
    \cup {CertQ("kdc", <<v>>, {}, {}, <<>>, "a") : v \in CertValues}
    \cup {CertQ("client", <<v, w>>, a, p, rs, "a") : v \in CertValues, w \in {CertD("ab"),
        CertE("y"), CertD("zz")}, a \in {CertAn, {}, {<<"n", "crt">>}, {<<"d", "crt">>}}, p \in {{},
        {<<"z", "crt">>}}, rs \in {<<>>, <<CertRl("none", <<CertCm("SAN", CertRe({"n1"}))>>)>>}}
    \cup {CertQ("client", <<>>, CertAn, {}, <<>>, "a")}

Ce == INSTANCE CertMatch WITH
    Files <- CertFiles, Dirs <- CertDirs, Env <- CertEnv, Certs <- CertCerts, Asks <- CertAsks,
    ask <- x1, out <- x2

-----------------------------------------------------------------------------
(* kdc.conf, krb5.conf and the files they include.                         *)
ProfH(n) == [t |-> "head", name |-> n, star |-> FALSE]
ProfHS(n) == [t |-> "head", name |-> n, star |-> TRUE]
ProfO(n) == [t |-> "open", name |-> n, star |-> FALSE]
ProfOS(n) == [t |-> "open", name |-> n, star |-> TRUE]
ProfT(n) == [t |-> "tag", name |-> n, star |-> FALSE]
ProfB == [t |-> "brace"]
ProfE == [t |-> "close", star |-> FALSE]
ProfES == [t |-> "close", star |-> TRUE]
ProfV(n, v) == [t |-> "rel", name |-> n, value |-> v, star |-> FALSE]
ProfVS(n, v) == [t |-> "rel", name |-> n, value |-> v, star |-> TRUE]
ProfI(p) == [t |-> "include", name |-> p]
ProfID(p) == [t |-> "includedir", name |-> p]
ProfX == [t |-> "indented"]

ProfPlug(a, b) == <<ProfH("plugins"), a, b, ProfE>>
ProfModules == [pwqual |-> <<"dict", "empty", "princ">>]

ProfKdcStart == {<<>>, <<ProfH("realms"), ProfO("A"), ProfV("database_name", "a"), ProfE,
    ProfO("B"), ProfV("database_name", "b"), ProfO("n"), ProfE, ProfV("acl_file", "x"), ProfE>>,
             <<ProfH("realms"), ProfT("A"), ProfB, ProfV("database_name", "a"), ProfV("kdc_listen",
                 "1"), ProfE, ProfI("inc"), ProfO("A"), ProfV("database_name", "c"), ProfE>>,
             <<ProfH("libdefaults"), ProfV("clockskew", "1"), ProfI("inc"), ProfV("clockskew", "2"),
                 ProfH("dbmodules"), ProfO("A"), ProfV("disable_lockout", "true"), ProfE>>,
             <<ProfH("realms"), ProfT("A"), ProfI("inc"), ProfB, ProfV("database_name", "a"), ProfE,
                 ProfID("d"), ProfH("kdcdefaults"), ProfV("kdc_ports", "2")>>,
             <<ProfH("realms"), ProfO("B"), ProfI("inc"), ProfE>>}
ProfKdcPlug == {<<>>, <<ProfH("plugins"), ProfO("pwqual"), ProfV("disable", "dict"), ProfE>>,
    <<ProfH("plugins"), ProfO("pwqual"), ProfVS("disable", "dict"), ProfE>>,
            <<ProfHS("plugins"), ProfO("pwqual"), ProfV("enable_only", "princ"), ProfE>>,
                <<ProfH("plugins"), ProfOS("pwqual"), ProfV("enable_only", "princ"), ProfE>>,
            <<ProfH("plugins"), ProfO("pwqual"), ProfV("enable_only", "princ"), ProfES,
                ProfH("otp"), ProfO("t"), ProfVS("indicator", "i"), ProfES>>}
ProfKrb == {<<>>, <<ProfH("libdefaults"), ProfO("A"), ProfV("forwardable", "true"), ProfE,
    ProfV("forwardable", "false"), ProfID("d"), ProfV("allow_weak_crypto", "bad"),
               ProfH("realms"), ProfO("A"), ProfV("kdc", "h"), ProfV("kdc", "bad"), ProfE>>,
        <<ProfH("plugins"), ProfO("pwqual"), ProfV("disable", "empty"), ProfV("enable_only",
            "dict"), ProfE, ProfH("otp"), ProfO("t"), ProfV("indicator", "j"), ProfE>>,
        <<ProfH("domain_realm"), ProfV("x", "A"), ProfI("inc"), ProfV("x", "B"), ProfH("capaths"),
            ProfO("A"), ProfV("B", "."), ProfE>>,
        <<ProfH("logging"), ProfV("kdc", "f"), ProfX>>, <<ProfHS("otp"), ProfO("t"),
            ProfV("indicator", "k"), ProfE, ProfID("none")>>,
        <<ProfT("z"), ProfH("realms"), ProfT("A"), ProfV("kdc", "h")>>}
ProfInc == {<<>>, <<ProfH("libdefaults"), ProfV("clockskew", "3")>>, <<ProfH("realms"), ProfO("A"),
    ProfV("database_name", "i"), ProfE, ProfI("krb5.conf")>>,
        <<ProfH("plugins"), ProfO("pwqual"), ProfV("disable", "princ"), ProfE>>, <<ProfI("inc2")>>,
            <<ProfV("clockskew", "9")>>, <<ProfT("z"), ProfH("logging")>>,
        <<ProfH("realms"), ProfT("A"), ProfV("kdc", "h")>>}
ProfLayouts ==
  {[files |-> ("kdc.conf" :> (a \o b)) @@ ("krb5.conf" :> c) @@ ("inc" :> i)
      @@ ("inc2" :> <<ProfI("inc3")>>) @@ ("inc3" :> <<>>),
    dirs |-> ("d" :> <<"gone", "inc", "inc3">>), denied |-> {}] : a \in ProfKdcStart,
        b \in ProfKdcPlug, c \in ProfKrb, i \in ProfInc}
  \cup {[files |-> ("krb5.conf" :> <<ProfH("libdefaults"), ProfI("gone")>>), dirs |-> <<>>,
      denied |-> {"kdc.conf"}], [files |-> <<>>, dirs |-> <<>>, denied |-> {}],
        [files |-> <<>>, dirs |-> <<>>, denied |-> {"kdc.conf"}]}
ProfTops == <<"kdc.conf", "krb5.conf">>

Pr == INSTANCE Profile WITH
    Layouts <- ProfLayouts, Tops <- ProfTops, Realms <- {"A", "B"}, Modules <- ProfModules,
    MaxDepth <- 3,
    layout <- x1, todo <- x2, stack <- x3, conf <- x4, text <- x5, result <- x6

-----------------------------------------------------------------------------
(* Phrases typed in winter and in summer of 2024.                          *)
DateTok(t, n) == [t |-> t, n |-> n]
DateU(n) == DateTok("UNumber", n)
DateS(n) == DateTok("SNumber", n)
DateC(c) == DateTok(c, 0)
DateW(w) == [w |-> w]
DateD(y, m, d) == <<DateU(y), DateS(-m), DateS(-d)>>
DateHm(h, m) == <<DateU(h), DateC(":"), DateU(m)>>
DateDates == {DateD(1970, 1, 1), DateD(1999, 12, 31), DateD(2000, 2, 29), DateD(2024, 2, 29),
    DateD(2023, 2, 29), DateD(2026, 7, 10), DateD(2038, 1, 20), DateD(2099, 12, 31), DateD(2100, 3,
    1), DateD(2106, 2, 1), DateD(2107, 1, 1),
  DateD(99, 5, 6), DateD(26, 5, 6), <<DateU(3), DateC("/"), DateU(4), DateC("/"), DateU(2031)>>,
      <<DateU(3), DateC("/"), DateU(4)>>, <<DateU(13), DateC("/"), DateU(4)>>, <<DateU(3),
      DateC("/"), DateU(4), DateC("/")>>, <<DateU(3), DateC("/")>>,
  <<DateU(4), DateW("july"), DateU(2030)>>, <<DateU(4), DateW("july"), DateS(-2030)>>, <<DateU(29),
      DateW("february")>>, <<DateW("july"), DateU(4)>>, <<DateW("july"), DateU(4), DateC(","),
      DateU(2030)>>, <<DateW("july"), DateU(4), DateC(",")>>, <<DateW("july")>>, <<DateU(2030),
      DateS(-2)>>}
DateTimes == {<<>>, DateHm(0, 0), DateHm(23, 59), DateHm(24, 0), DateHm(7, 60), <<DateU(12),
    DateW("am")>>, <<DateU(12), DateW("pm")>>, <<DateU(13), DateW("pm")>>, DateHm(11,
    30) \o <<DateW("pm")>>, DateHm(10, 0) \o <<DateC(":"), DateU(5)>>, DateHm(10,
    0) \o <<DateC(":")>>, DateHm(10, 0) \o <<DateS(-330)>>, DateHm(10, 0) \o <<DateC(":"), DateU(1),
    DateS(200)>>, <<DateU(5), DateC(":")>>}
DateZones == {<<>>, <<DateW("utc")>>, <<DateW("cet")>>, <<DateW("cet"), DateW("dst")>>,
    <<DateW("edt")>>, <<DateW("utc"), DateW("edt")>>}
DateMonths == {<<DateW("month")>>, <<DateU(1), DateW("month")>>, <<DateU(6), DateW("month")>>,
    <<DateS(5), DateW("month"), DateW("ago")>>, <<DateU(2), DateW("year")>>, <<DateW("next"),
    DateW("year")>>, <<DateW("last"), DateW("month")>>, <<DateU(90), DateW("year")>>}
DateRels == {<<DateW("yesterday")>>, <<DateU(3), DateW("week")>>, <<DateU(36), DateW("hour"),
    DateW("ago")>>, <<DateW("hour")>>, <<DateW("second")>>, <<DateU(9), DateW("second")>>,
    <<DateU(1), DateW("week"), DateU(1), DateW("month"), DateW("ago")>>}
DateDays == {<<DateW("friday")>>, <<DateW("sunday"), DateC(",")>>, <<DateW("next"),
    DateW("friday")>>, <<DateW("last"), DateW("sunday")>>, <<DateW("friday"), DateW("sunday")>>}
DateOdd == {<<DateW("never")>>, <<DateW("never"), DateU(1), DateW("hour")>>, <<DateW("soon")>>,
    <<DateC("(")>>, <<DateU(7)>>, <<DateU(1), DateW("month"), DateW("never")>>}
DatePhrases == {d \o z : d \in DateDates, z \in DateZones} \cup {t \o z : t \in DateTimes \ {<<>>},
    z \in {<<>>, <<DateW("cet")>>}} \cup {DateD(2026, 7, 10) \o t \o z : t \in DateTimes,
    z \in {<<>>, <<DateW("edt")>>}}
   \cup DateMonths \cup DateRels \cup DateDays \cup DateOdd \cup {d \o r : d \in DateDays,
       r \in DateRels} \cup {DateD(2026, 10, 31) \o m : m \in DateMonths}
DateDay2024 == 19723
DateNows == {24 * 60 * (DateDay2024 + k) + h : k \in {30, 195}, h \in {210, 720}}

Ge == INSTANCE Getdate WITH
    Phrases <- DatePhrases, Nows <- DateNows, West <- 300,
    now <- x1, ask <- x2, rest <- x3, st <- x4, result <- x5

-----------------------------------------------------------------------------
(* A field and a scalar modulus of three limbs in base 4, related to R as  *)
(* the 512-bit ones are.                                                   *)
MontF == [m |-> <<3, 2, 2>>, mp |-> 1, r2 |-> <<3, 2, 0>>, one |-> <<1, 1, 1>>, half |-> <<3, 2,
    0>>]
MontS == [m |-> <<1, 2, 2>>, mp |-> 3, r2 |-> <<1, 1, 2>>, one |-> <<3, 1, 1>>, half |-> <<0, 0,
    1>>]

Mo == INSTANCE Montgomery WITH
    Base <- 4, Limbs <- 3, Count <- 128, Field <- MontF, Scalar <- MontS,
    x <- x1, y <- x2, out <- x3

-----------------------------------------------------------------------------
(* Types and values at the edges of lengths, widths and tags.              *)
DerBool == [kind |-> "bool"]
DerIntOf(width, signed, word) == [kind |-> "int", width |-> width, signed |-> signed, word |-> word]
DerStr(kind, sizes, alphabet) == [kind |-> kind, sizes |-> sizes, alphabet |-> alphabet]
DerFill(n) == [i \in 1 .. n |-> 7]
DerField(n, opt, type) == [tag |-> <<2, n>>, opt |-> opt, type |-> type]
DerExplicit(tag, of) == [kind |-> "explicit", tag |-> tag, of |-> of]
DerListOf(of) == [kind |-> "seqof", of |-> of]

DerEdges == {0, 1, 127, 128, 255, 256, 32767, 32768, 65535}
DerName == [kind |-> "seq", fields |-> <<DerField(0, FALSE, DerIntOf(2, TRUE, FALSE)),
                                      DerField(1, FALSE, DerListOf(DerStr("string", 0 .. 200,
                                          0 .. 127)))>>]
DerTicket == DerExplicit(<<1, 1>>, [kind |-> "seq", fields |-> <<DerField(0, FALSE, DerIntOf(2,
    TRUE, FALSE)),
              DerField(1, TRUE, DerName), DerField(2, TRUE, DerStr("octets", 0 .. 300,
                  0 .. 255))>>])
DerNames == {<<{t}, {ns}>> : t \in {0, -1}, ns \in {<<>>, <<DerFill(1)>>, <<DerFill(1),
    DerFill(127)>>}}

DerAllCases == <<
    [type |-> DerBool, values |-> BOOLEAN],
    [type |-> DerIntOf(2, TRUE, FALSE), values |-> {n \in DerEdges
        \cup {0 - e : e \in DerEdges} : -32768 <= n /\ n < 32768}],
    [type |-> DerIntOf(3, TRUE, FALSE), values |-> DerEdges \cup {0 - e : e \in DerEdges}],
    [type |-> DerIntOf(2, FALSE, TRUE), values |-> DerEdges],
    [type |-> DerIntOf(3, FALSE, FALSE), values |-> DerEdges],
    [type |-> DerStr("octets", 0 .. 300, 0 .. 255), values |-> {DerFill(n) : n \in {0, 1, 127, 128,
        129, 255, 256, 300}}],
    [type |-> [kind |-> "bits"], values |-> UNION {[1 .. n -> BOOLEAN] : n \in {0, 1, 3, 4}}
                                              \cup {[i \in 1 .. n |-> i % 3 = 0] : n \in {7, 8, 9,
                                                  16, 32}}],
    [type |-> [kind |-> "null"], values |-> {"null"}],
    [type |-> [kind |-> "oid"], values |-> {<<a, b>> \o t : a \in 0 .. 2, b \in {0, 39},
        t \in {<<>>, <<127>>, <<128, 16384>>}}
                                              \cup {<<2, 40>>, <<2, 999, 3>>}],
    [type |-> DerName, values |-> DerNames],
    [type |-> DerTicket, values |-> {<<{5}, n, o>> : n \in {{}} \cup {{x} : x \in DerNames},
                                                  o \in {{}, {DerFill(2)}, {DerFill(130)}}}],
    [type |-> DerListOf(DerListOf(DerBool)), values |-> {<<>>, <<<<>>>>, <<<<TRUE>>, <<FALSE,
        TRUE>>>>}],
    [type |-> DerListOf(DerListOf(DerListOf(DerBool))), values |-> {<<>>, <<<<>>>>, <<<<<<>>>>>>,
        <<<<<<TRUE>>>>>>}],
    [type |-> DerListOf(DerListOf(DerListOf(DerListOf(DerBool)))), values |-> {<<>>, <<<<<<>>>>>>,
        <<<<<<<<TRUE>>>>>>>>}],
    [type |-> [kind |-> "setof", of |-> DerIntOf(2, TRUE, FALSE)], values |-> SUBSET {0, 5, -1,
        300}],
    [type |-> [kind |-> "choice", alts |-> <<DerBool, DerExplicit(<<2, 40>>, DerBool),
        DerExplicit(<<2, 31>>, DerBool)>>],
     values |-> [alt : 1 .. 3, v : BOOLEAN]],
    [type |-> [kind |-> "any"], values |-> {<<4, 1, 9>>, <<48, 0>>, <<48, 3, 1, 1, 255>>, <<159,
        129, 2, 1, 7>>}]
>>

DerAllForms == {"Der", "Long", "Extended", "Indefinite"}
DerAllTails == {<<>>, <<0>>, <<5, 0>>}

De == INSTANCE Der WITH
    Cases <- DerAllCases, Forms <- DerAllForms, Tails <- DerAllTails, Cuts <- {0, 1, 2},
    IntOctets <- 3, Word <- 2, RemainingDepth <- 6, case <- x1, value <- x2, sent <- x3, got <- x4

-----------------------------------------------------------------------------
Scenes == {"as", "tgs", "net", "kinit", "creds", "keytab", "session", "gss",
    "locate", "cert", "profile", "date", "field", "der"}

Off(v) == v = "off"

OffFrom(i) ==
    /\ i <= 3 => Off(x3)
    /\ i <= 4 => Off(x4)
    /\ i <= 5 => Off(x5)
    /\ i <= 6 => Off(x6)
    /\ i <= 7 => Off(x7)

Init ==
    /\ scene \in Scenes
    /\ CASE scene = "as" -> As!Init /\ OffFrom(3)
         [] scene = "tgs" -> Tgs!Init /\ OffFrom(3)
         [] scene = "net" -> Net!Init /\ OffFrom(5)
         [] scene = "kinit" -> Kin!Init /\ OffFrom(3)
         [] scene = "creds" -> Creds!Init /\ OffFrom(6)
         [] scene = "keytab" -> Kt!Init /\ OffFrom(5)
         [] scene = "session" -> Se!Init /\ OffFrom(6)
         [] scene = "gss" -> Gs!Init /\ OffFrom(6)
         [] scene = "locate" -> Lo!Init
         [] scene = "cert" -> Ce!Init /\ OffFrom(3)
         [] scene = "profile" -> Pr!Init /\ OffFrom(7)
         [] scene = "date" -> Ge!Init /\ OffFrom(6)
         [] scene = "field" -> Mo!Init /\ OffFrom(4)
         [] scene = "der" -> De!Init /\ OffFrom(5)

AsScene == scene = "as" /\ As!Next /\ UNCHANGED <<scene, x3, x4, x5, x6, x7>>
TgsScene == scene = "tgs" /\ Tgs!Next /\ UNCHANGED <<scene, x3, x4, x5, x6, x7>>
NetScene == scene = "net" /\ Net!Next /\ UNCHANGED <<scene, x5, x6, x7>>
KinitScene == scene = "kinit" /\ Kin!Next /\ UNCHANGED <<scene, x3, x4, x5, x6, x7>>
CredsScene == scene = "creds" /\ Creds!Next /\ UNCHANGED <<scene, x6, x7>>
KeytabScene == scene = "keytab" /\ Kt!Next /\ UNCHANGED <<scene, x5, x6, x7>>
SessionScene == scene = "session" /\ Se!Next /\ UNCHANGED <<scene, x6, x7>>
GssScene == scene = "gss" /\ Gs!Next /\ UNCHANGED <<scene, x6, x7>>
LocateScene == scene = "locate" /\ Lo!Next /\ UNCHANGED <<scene>>
CertScene == scene = "cert" /\ Ce!Next /\ UNCHANGED <<scene, x3, x4, x5, x6, x7>>
ProfileScene == scene = "profile" /\ Pr!Next /\ UNCHANGED <<scene, x7>>
DateScene == scene = "date" /\ Ge!Next /\ UNCHANGED <<scene, x6, x7>>
FieldScene == scene = "field" /\ Mo!Next /\ UNCHANGED <<scene, x4, x5, x6, x7>>
DerScene == scene = "der" /\ De!Next /\ UNCHANGED <<scene, x5, x6, x7>>

Next ==
    \/ AsScene \/ TgsScene \/ NetScene \/ KinitScene \/ CredsScene
    \/ KeytabScene \/ SessionScene \/ GssScene \/ LocateScene \/ CertScene
    \/ ProfileScene \/ DateScene \/ FieldScene \/ DerScene

(* An exchange goes on: a socket's waits are bounded, and a process that   *)
(* runs is scheduled.                                                      *)
Spec ==
    /\ Init /\ [][Next]_vars
    /\ WF_vars(AsScene) /\ WF_vars(TgsScene) /\ WF_vars(KinitScene)
    /\ WF_xs(scene = "locate" /\ Lo!Work) /\ WF_xs(scene = "locate" /\ Lo!Send)
    /\ WF_xs(scene = "locate" /\ (Lo!Timeout \/ Lo!TcpQuery))

-----------------------------------------------------------------------------

(* With armor, no request follows an unprotected or unfinished answer of   *)
(* the KDC and no ticket is taken from one (fast.rs); a password that was  *)
(* read is not asked for again, whatever mechanism fails after it, and an  *)
(* interrupted prompt ends the exchange (password.rs): ClientAs's          *)
(* ArmorHolds and PromptsEnd.                                              *)
AnswersAreProtected == [][scene = "as" => As!ArmorStep /\ As!PromptStep]_vars


(* A kinit that fails half way leaves the credentials that were there      *)
(* (store_then_warn); kvno is given credentials of the cache's owner       *)
(* although another client's may have been appended (matches); an          *)
(* undisturbed kinit in a collection replaces no other principal's cache   *)
(* (k5_begin); and a keytab holds what was added and not removed, and      *)
(* ktutil's slots are the ones it printed (keytab.rs).                     *)
StoresHold ==
    CASE scene = "kinit" -> Kin!CacheIsWhole
      [] scene = "creds" -> Creds!LookupIsForClient /\ Creds!KinitKeepsOthers
      [] scene = "keytab" -> Kt!KeytabHolds
      [] OTHER -> TRUE

(* A ticket under a key the keytab still holds is opened, messages of a    *)
(* session and of a GSS context are delivered once and, where that was     *)
(* asked for, in order, and the two ends of a context agree on its         *)
(* channel bindings and on the request it answers (decrypt_for_server,     *)
(* RemoteSeq::check, SeqState::check, process_checksum, process_ap_rep).   *)
MessagesHold ==
    CASE scene = "session" -> Se!TicketOpens /\ Se!MessagesInOrder
      [] scene = "gss" -> Gs!DeliveredOnce /\ Gs!BoundTruly
      [] OTHER -> TRUE

(* What the libraries read and compute is what is meant: the readers of    *)
(* the configuration files agree with one another across includes, groups  *)
(* of other realms and final sections (profile.rs, kdcconf.rs,             *)
(* plugin_profile.rs); a typed date, an operation of the field or of the   *)
(* scalars and a message in DER give what the calendar, arithmetic modulo  *)
(* the modulus and the sender mean, at every edge of the lengths and the   *)
(* carries (getdate.rs, bp512_64.rs, rasn's enc.rs and de.rs).             *)
LibrariesAreExact ==
    CASE scene = "profile" -> Pr!ReadersAgree /\ Pr!FinalHolds
      [] scene = "date" -> Ge!DatesAreMeant
      [] scene = "field" -> Mo!ArithmeticIsExact
      [] scene = "der" -> De!ReadsWhatWasSent
      [] OTHER -> TRUE

(* The modules that kdc.conf and krb5.conf select together are the same    *)
(* wherever a final section stands in kdc.conf: CHANGELOG.md says that     *)
(* [plugins] and [otp] are read as MIT's profile library reads them.       *)
FinalIsRead == scene = "profile" => Pr!FinalIsRead
=============================================================================
