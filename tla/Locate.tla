------------------------------- MODULE Locate --------------------------------
(***************************************************************************)
(* From a host's name to the servers to ask (krb5-config/src/hostname.rs,  *)
(* profile.rs and srv.rs): the name is made canonical, the realm comes     *)
(* from [domain_realm] or from the name itself, and the realm's servers    *)
(* from the configuration or from DNS.  The resolver is the crate's own:   *)
(* one datagram and one fresh socket for each attempt, each server in      *)
(* turn, TCP after a truncated answer.  A fresh socket may have the port   *)
(* of an earlier one, so an answer that comes late can reach it.           *)
(*                                                                         *)
(* A domain, and so a realm made from one, is the sequence of its labels;  *)
(* an optional value is a set with at most one element.                    *)
(***************************************************************************)
EXTENDS Integers, Sequences, FiniteSets, SequencesExt

CONSTANTS
    Cases,      \* [conf, ask]: a configuration [domains, default, tries, lists,
                \* invalid, dns, qualify, resolv, local, options, here] and what is
                \* asked [what, host, numeric, srvHst, realm]
    Zones,      \* what each name server answers: [server -> [name -> [rc, recs, tc]]]
    Ids,        \* the identifiers a query may draw
    InFlight    \* answers on their way at one time

VARIABLES
    conf, ask, zone,
    step,       \* what is being done, and for which realm
    query,      \* the DNS query under way, as a set with at most one element
    net,        \* answers on their way
    found       \* the servers found so far

vars == <<conf, ask, zone, step, query, net, found>>

One(s) == CHOOSE x \in s : TRUE

-----------------------------------------------------------------------------
(* parse_resolv, over the lines [key, words] of /etc/resolv.conf: at most  *)
(* three servers, and the one of this host when there is none.  Every name *)
(* asked ends in a dot, so the search list and ndots play no part.         *)
MaxNs == 3
MaxRetry == 5

(* apply_options, over words [opt, n]. *)
ApplyOptions(r, words) ==
    FoldLeft(LAMBDA a, w : IF w.opt # "attempts" \/ w.n = 0 THEN a
                           ELSE [a EXCEPT !.attempts = IF w.n < MaxRetry THEN w.n ELSE MaxRetry],
             r, words)

ResolvLine(r, l) ==
    CASE l.key = "nameserver" /\ Len(r.servers) < MaxNs /\ l.words # <<>> ->
             [r EXCEPT !.servers = Append(@, l.words[1])]
      [] l.key = "options" -> ApplyOptions(r, l.words)
      [] OTHER -> r

ParseResolv ==
    LET r == FoldLeft(ApplyOptions,
                      FoldLeft(ResolvLine, [servers |-> <<>>, attempts |-> 2], conf.resolv),
                      conf.options)
    IN  IF r.servers = <<>> THEN [r EXCEPT !.servers = <<"localhost">>] ELSE r

(* primary_domain_in, another reader of the file: the last line that names *)
(* a domain, or else what follows the dot in this host's name.             *)
PrimaryDomain ==
    LET lines == SelectSeq(conf.resolv, LAMBDA l : l.key \in {"domain", "search"} /\ l.words # <<>>)
    IN  CASE conf.local # {} -> One(conf.local)
          [] conf.local = {} /\ lines # <<>> -> lines[Len(lines)].words[1]
          [] OTHER -> Tail(conf.here)

(* expand_hostname_no_dns: a name without a dot takes a domain. *)
ExpandHostname(host) ==
    IF Len(host) > 1 THEN host
    ELSE host \o (IF conf.qualify = {} THEN PrimaryDomain ELSE One(conf.qualify))

(* next_candidate: only a host's name is made canonical; without a look at *)
(* DNS there is no second candidate.                                       *)
Canonical == IF ask.srvHst THEN ExpandHostname(ask.host) ELSE ask.host

(* host_to_realm: the name itself, then for each shorter suffix the rule   *)
(* with a dot and the one without.                                         *)
Suffix(host, n) == SubSeq(host, n + 1, Len(host))

Rules(host) ==
    {r \in conf.domains :
        \/ ~ r.dot /\ r.name = host
        \/ \E n \in 1 .. Len(host) - 1 : r.name = Suffix(host, n)}

(* Mutant of Before: the shortest suffix is taken. *)
BeforeShort(a, b) == Len(a.name) < Len(b.name) \/ (a.name = b.name /\ a.dot)

Before(a, b) == Len(a.name) > Len(b.name) \/ (a.name = b.name /\ a.dot)

HostToRealm(host) ==
    IF ask.numeric THEN {}
    ELSE {r.realm : r \in {r \in Rules(host) : \A o \in Rules(host) : o = r \/ Before(r, o)}}

(* fallback_host_realm: suffixes for which there is a KDC, then the parent *)
(* domain, then the default realm.                                         *)
NoNumber == -2

Tries(host) == {n \in 0 .. Len(host) - 2 : n <= conf.tries}

Fallback(host) ==
    IF ~ ask.numeric /\ Len(host) > 1 THEN {Tail(host)} ELSE conf.default

-----------------------------------------------------------------------------
(* search, query and send_server.  Every name asked ends in a dot, so it   *)
(* is asked as it stands.                                                  *)
Name(service, proto, realm) == <<service, proto, realm>>

Ask(service, proto, id) ==
    {[name |-> Name(service, proto, step.realm), id |-> id, server |-> 1, attempt |-> 1,
      sent |-> FALSE, tcp |-> FALSE, resolv |-> ParseResolv]}

Server(q) == q.resolv.servers[q.server]

Reply(q, tc) ==
    [from |-> Server(q), id |-> q.id, name |-> q.name, rc |-> zone[Server(q)][q.name].rc,
     recs |-> zone[Server(q)][q.name].recs, tc |-> tc]

(* Mutant of Accepts: the question in the answer is not looked at. *)
AcceptsAnyName(m, q) == m.from = Server(q) /\ m.id = q.id

(* accepts, and the source of the datagram. *)
Accepts(m, q) == m.from = Server(q) /\ m.id = q.id /\ m.name = q.name

(* udp_attempt sends; the server answers or the datagram is lost. *)
Send ==
    \E q \in query :
        /\ ~ q.sent
        /\ query' = {[q EXCEPT !.sent = TRUE]}
        /\ \/ net' = net
           \/ /\ Cardinality(net) < InFlight
              /\ net' = net \cup {Reply(q, zone[Server(q)][q.name].tc)}
        /\ UNCHANGED <<conf, ask, zone, step, found>>

NextServer(q) == [q EXCEPT !.server = @ + 1, !.attempt = 1, !.sent = FALSE, !.tcp = FALSE]

(* srv_targets: by priority, in the order of the answer. *)
ByPriority(recs) ==
    SortSeq([i \in DOMAIN recs |-> i],
            LAMBDA a, b : recs[a].prio < recs[b].prio \/ (recs[a].prio = recs[b].prio /\ a < b))

Targets(recs, proto) ==
    [i \in DOMAIN recs |->
        [host |-> recs[ByPriority(recs)[i]].host, proto |-> proto, port |-> "srv"]]

(* query_service ends; locate_named_srv asks for UDP and then for TCP. *)
Given(recs, q) ==
    /\ found' = found \o Targets(recs, q.name[2])
    /\ IF q.name[2] = "_tcp" THEN query' = {}
       ELSE \E id \in Ids : query' = Ask(q.name[1], "_tcp", id)

Failed(q) ==
    IF q.server = Len(q.resolv.servers) THEN Given(<<>>, q)
    ELSE query' = {NextServer(q)} /\ UNCHANGED found

(* rcodes 2, 4 and 5 go on to the next server; no record is no answer. *)
Answered(rc, recs, q) == IF rc \in {2, 4, 5} THEN Failed(q) ELSE Given(recs, q)

(* A datagram reaches the socket; one that is not the answer is dropped,   *)
(* and a truncated answer is asked for again over TCP.                     *)
Receive ==
    \E q \in query, m \in net :
        /\ q.sent /\ ~ q.tcp
        /\ net' = net \ {m}
        /\ IF ~ Accepts(m, q) THEN UNCHANGED <<query, found>>
           ELSE IF m.tc THEN query' = {[q EXCEPT !.tcp = TRUE]} /\ UNCHANGED found
           ELSE Answered(m.rc, m.recs, q)
        /\ UNCHANGED <<conf, ask, zone, step>>

(* Mutant of Timeout: the attempts are not counted. *)
TimeoutUncounted ==
    \E q \in query :
        /\ q.sent
        /\ query' = {[q EXCEPT !.sent = FALSE, !.tcp = FALSE]}
        /\ UNCHANGED <<conf, ask, zone, step, net, found>>

(* The time is over, or the connection fails: another attempt. *)
Timeout ==
    \E q \in query :
        /\ q.sent
        /\ IF q.attempt < q.resolv.attempts
           THEN /\ query' = {[q EXCEPT !.attempt = @ + 1, !.sent = FALSE, !.tcp = FALSE]}
                /\ UNCHANGED found
           ELSE Failed(q)
        /\ UNCHANGED <<conf, ask, zone, step, net>>

(* tcp_query: the whole answer. *)
TcpQuery ==
    \E q \in query :
        /\ q.tcp
        /\ Answered(zone[Server(q)][q.name].rc, zone[Server(q)][q.name].recs, q)
        /\ UNCHANGED <<conf, ask, zone, step, net>>

-----------------------------------------------------------------------------
(* The realm of the host. *)
Goto(s) == step' = s /\ UNCHANGED <<conf, ask, zone, net>>

Locating(realm, why) == [at |-> "locate", realm |-> realm, why |-> why, n |-> 0]

(* with_host: a principal that has a realm keeps it. *)
WithHost(host) == IF ask.realm # {} THEN ask.realm ELSE HostToRealm(host)

(* sname_to_principal, or the first candidate of a service's name. *)
SnameToPrincipal ==
    /\ step.at = "host"
    /\ LET known == WithHost(Canonical)
       IN  IF known # {} THEN Goto(Locating(One(known), "found"))
           ELSE Goto([at |-> "fallback", realm |-> <<>>, why |-> "", n |-> 0])
    /\ UNCHANGED <<query, found>>

(* A limit that is no number gives no realm at all. *)
FallbackHostRealm ==
    /\ step.at = "fallback"
    /\ IF ~ ask.numeric /\ conf.tries = NoNumber THEN Goto([step EXCEPT !.at = "norealm"])
       ELSE IF ~ ask.numeric /\ step.n \in Tries(Canonical)
       THEN Goto([Locating(Suffix(Canonical, step.n), "try") EXCEPT !.n = step.n])
       ELSE IF Fallback(Canonical) # {} THEN Goto(Locating(One(Fallback(Canonical)), "found"))
       ELSE Goto([step EXCEPT !.at = "norealm"])
    /\ UNCHANGED <<query, found>>

(* The configuration's own list: the addresses of an admin server are      *)
(* asked on the password port.                                             *)
Listed(what, port) ==
    [i \in DOMAIN conf.lists[<<what, step.realm>>] |->
        [host |-> conf.lists[<<what, step.realm>>][i], proto |-> "either", port |-> port]]

Has(what) == <<what, step.realm>> \in DOMAIN conf.lists

(* A trial looks for KDCs, whatever is wanted in the end. *)
Wanted == IF step.why = "try" THEN "kdc" ELSE ask.what

Service == [kdc |-> "_kerberos", kpasswd |-> "_kpasswd", admin |-> "_kerberos-adm"]

Dns(what, at) ==
    /\ conf.dns
    /\ \E id \in Ids : query' = Ask(Service[what], IF what = "admin" THEN "_tcp" ELSE "_udp", id)
    /\ Goto([step EXCEPT !.at = at])
    /\ UNCHANGED found

NoDns(at) == ~ conf.dns /\ Goto([step EXCEPT !.at = at]) /\ UNCHANGED <<query, found>>

Refuse(what) ==
    <<what, step.realm>> \in conf.invalid
    /\ Goto([step EXCEPT !.at = IF step.why = "try" THEN "tried" ELSE "invalid"])
    /\ UNCHANGED <<query, found>>

Take(what, port) ==
    /\ <<what, step.realm>> \notin conf.invalid /\ Has(what)
    /\ found' = Listed(what, port)
    /\ Goto([step EXCEPT !.at = "tried"])
    /\ UNCHANGED query

Lookup(what, at) ==
    /\ <<what, step.realm>> \notin conf.invalid /\ ~ Has(what)
    /\ Dns(what, at) \/ NoDns(at)

(* kdcs_for, and the first half of locate_kpasswd. *)
KdcsFor ==
    /\ step.at = "locate"
    /\ \/ Refuse(Wanted) \/ Take(Wanted, "given")
       \/ Lookup(Wanted, IF Wanted = "kdc" THEN "tried" ELSE "admin")

(* locate_kpasswd goes on to the admin server. *)
LocateKpasswd ==
    /\ step.at = "admin" /\ query = {}
    /\ IF found # <<>> THEN Goto([step EXCEPT !.at = "tried"]) /\ UNCHANGED <<query, found>>
       ELSE Refuse("admin") \/ Take("admin", "464") \/ Lookup("admin", "adminDns")

(* kpasswd_from_admin: the SRV's port and transport are not kept. *)
FromAdmin ==
    /\ step.at = "adminDns" /\ query = {}
    /\ found' = [i \in DOMAIN found |-> [found[i] EXCEPT !.proto = "either", !.port = "464"]]
    /\ Goto([step EXCEPT !.at = "tried"])
    /\ UNCHANGED query

(* A suffix with no KDC gives way to the next one; one that has is the     *)
(* realm, and what was wanted is looked for there.                         *)
Tried ==
    /\ step.at = "tried" /\ query = {}
    /\ IF step.why = "found" THEN Goto([step EXCEPT !.at = "done"]) /\ UNCHANGED found
       ELSE /\ found' = <<>>
            /\ IF found = <<>>
               THEN Goto([at |-> "fallback", realm |-> <<>>, why |-> "", n |-> step.n + 1])
               ELSE Goto(Locating(step.realm, "found"))
    /\ UNCHANGED query

Init ==
    /\ \E c \in Cases : conf = c.conf /\ ask = c.ask
    /\ zone \in Zones
    /\ step = [at |-> "host", realm |-> <<>>, why |-> "", n |-> 0]
    /\ query = {} /\ net = {} /\ found = <<>>

Work == SnameToPrincipal \/ FallbackHostRealm \/ KdcsFor \/ LocateKpasswd \/ FromAdmin \/ Tried

Next == Work \/ Send \/ Receive \/ Timeout \/ TcpQuery

Spec == Init /\ [][Next]_vars /\ WF_vars(Work) /\ WF_vars(Send) /\ WF_vars(Timeout \/ TcpQuery)

-----------------------------------------------------------------------------
(* One server's whole answer to one name, in the order of priorities. *)
Answer(s, service, proto) ==
    Targets(zone[s][Name(service, proto, step.realm)].recs, proto)

Whole(service, proto) ==
    {<<>>} \cup {Answer(s, service, proto) : s \in ToSet(ParseResolv.servers)}

FromDns ==
    IF ask.what = "kdc" THEN {u \o t : u \in Whole("_kerberos", "_udp"), t \in Whole("_kerberos", "_tcp")}
    ELSE {u \o t : u \in Whole("_kpasswd", "_udp"), t \in Whole("_kpasswd", "_tcp")}
         \cup {[i \in DOMAIN a |-> [a[i] EXCEPT !.proto = "either", !.port = "464"]] :
                   a \in Whole("_kerberos-adm", "_tcp")}

FromConf ==
    {Listed(w[1], w[2]) : w \in {w \in {<<ask.what, "given">>, <<"admin", "464">>} : Has(w[1])}}

(* The rule for the host that no other rule is nearer than. *)
Nearest(realm) ==
    \E n \in 0 .. Len(Canonical) - 1 :
        /\ \E r \in conf.domains : r.realm = realm /\ r.name = Suffix(Canonical, n)
                                   /\ (n = 0 => ~ r.dot)
        /\ \A m \in 0 .. n - 1, r \in conf.domains :
               r.name = Suffix(Canonical, m) => (m = 0 /\ r.dot)

(* LocatedTruly: what is found for a realm is the list of the              *)
(* configuration, or for each transport the whole answer of one name       *)
(* server to the very name that was asked, by priority, however late or    *)
(* mixed the answers come; and a realm that [domain_realm] gives is the    *)
(* one of the nearest rule (host_to_realm, kdcs_for, locate_kpasswd,       *)
(* udp_attempt, srv_targets).                                              *)
LocatedTruly ==
    step.at = "done" =>
        /\ found \in FromDns \cup FromConf
        /\ (ask.realm = {} /\ ~ ask.numeric /\ Rules(Canonical) # {}) => Nearest(step.realm)

(* LookupsEnd: whatever the name servers do, the search for a realm's      *)
(* servers ends (send_server's attempts, query's servers,                  *)
(* fallback_host_realm's limit).                                           *)
Over == step.at \in {"done", "invalid", "norealm"}

LookupsEnd == <>Over
=============================================================================
