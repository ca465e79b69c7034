---- MODULE CertMatch ----
(***************************************************************************)
(* The PKINIT identity a program presents, and the rules that choose it:   *)
(* krb5-types/src/pkinit/identity.rs reads certificates and keys from      *)
(* files, directories and the environment, pkinit/matching.rs reads the    *)
(* pkinit_cert_match rules and picks a certificate by them, and            *)
(* load_pkinit of krb5-client/src/lib.rs puts the two together for kinit.  *)
(* The KDC loads its own identity the same way and puts a principal's rule *)
(* to the certificate a client sent.                                       *)
(*                                                                         *)
(* A file is a sequence of PEM blocks, a certificate the record of what    *)
(* the rules look at, a regular expression the set of names it matches, a  *)
(* word of a usage list a short sequence of letters.  A rule is its        *)
(* leading mark and its components, a component its keyword and the value  *)
(* up to the next keyword.                                                 *)
(***************************************************************************)
EXTENDS Naturals, Sequences, FiniteSets, SequencesExt

CONSTANTS
    Files,      \* file name |-> its PEM blocks; a name outside does not open
    Dirs,       \* directory |-> the sorted stems of its *.crt names
    Env,        \* environment variable |-> the identity value it holds
    Certs,      \* certificate |-> what matching_data finds in it
    Asks        \* the questions put: [who, ids, anchors, pool, rules, cert]

VARIABLES
    ask,        \* the question being answered
    out         \* the answer, <<>> before it is given

vars == <<ask, out>>

EINVAL == 22
ENOENT == 2
EIO == 5
PreauthFailed == 24
NoAnchors == 210
MaxCreds == 2        \* MAX_CREDS, 20 in the code
MaxDepth == 2        \* the ENV chain, 8 in the code

Fail(code) == [ok |-> FALSE, code |-> code]
Ok(v) == [ok |-> TRUE, v |-> v]
----
(***************************************************************************)
(* Rules.                                                                  *)
(***************************************************************************)
KuWords == << <<"d", "s">>, <<"k", "e">> >>
EkuWords == << <<"p", "k">>, <<"m", "s", "l">>, <<"c", "a">>, <<"e", "p">> >>

\* The value of a list as it stands in the rule: its words with commas between.
Text(words) == FlattenSeq([i \in 1 .. 2 * Len(words) - 1 |-> IF i % 2 = 1 THEN words[(i + 1) \div 2] ELSE <<",">>])

\* An abbreviation names the first word it begins, and reading goes on after
\* the full length of that word.
TheOne(set) == CHOOSE x \in set : TRUE
FirstBegun(table, value, len) ==
    {table[i] : i \in {SelectInSeq(table, LAMBDA x : len <= Len(x) /\ SubSeq(x, 1, len) = SubSeq(value, 1, len))} \ {0}}
PastComma(rest) == IF rest # <<>> /\ rest[1] = "," THEN Tail(rest) ELSE rest

RECURSIVE ParseListValue(_, _, _)
ParseListValue(table, value, bits) ==
    IF value = <<>> THEN Ok(bits)
    ELSE LET word == FirstBegun(table, value, SelectInSeq(value \o <<",">>, LAMBDA c : c = ",") - 1)
         IN IF word = {} THEN Fail(EINVAL)
            ELSE ParseListValue(table, PastComma(SubSeq(value, Len(TheOne(word)) + 1, Len(value))), bits \cup word)

ParseRuleComponent(c) ==
    CASE c.kw = "none" -> Fail(ENOENT)
      [] c.empty -> Fail(EINVAL)
      [] c.kw \in {"KU", "EKU"} ->
            ParseListValue(IF c.kw = "EKU" THEN EkuWords ELSE KuWords, Text(c.words), {})
      [] OTHER -> IF c.re.code # 0 THEN Fail(c.re.code) ELSE Ok({})

\* && and || say how the components combine; without a mark the second
\* component makes the rule an &&.  The first component that does not parse
\* is the rule's error.
RelationNone(rule) == rule.mark \* mutant: without a mark the last component decides
Relation(rule) == IF rule.mark = "none" /\ Len(rule.comps) > 1 THEN "and" ELSE rule.mark
RuleSet(rule, parsed, bad) ==
    IF bad # <<>> THEN bad[1]
    ELSE Ok([rel |-> Relation(rule),
             comps |-> [i \in DOMAIN parsed |-> [kw |-> rule.comps[i].kw, re |-> rule.comps[i].re, bits |-> parsed[i].v]]])
ParseAll(rule, parsed) == RuleSet(rule, parsed, SelectSeq(parsed, LAMBDA p : ~p.ok))
ParseRuleSet(rule) == ParseAll(rule, [i \in DOMAIN rule.comps |-> ParseRuleComponent(rule.comps[i])])

\* An extension that appears twice, or is not the list it should be, gives none.
UsageBits(exts) == IF Len(exts) = 1 /\ exts[1].whole THEN exts[1].bits ELSE {}

MatchingData(cert) ==
    [subject |-> cert.subject, issuer |-> cert.issuer, sans |-> cert.sans, upns |-> cert.upns,
     ku |-> UsageBits(cert.ku), eku |-> UsageBits(cert.eku)]

Is(re, name) == name \in re.on

\* TRUE, FALSE or "back": an expression with a back reference cannot be put to
\* a name.  When there are user principal names they decide alone.
AnyOf(re, names) == \E i \in DOMAIN names : Is(re, names[i])
ComponentMatch(c, md) ==
    CASE c.kw = "KU" -> IF c.bits \subseteq md.ku THEN "yes" ELSE "no"
      [] c.kw = "EKU" -> IF c.bits \subseteq md.eku THEN "yes" ELSE "no"
      [] c.kw \in {"SUBJECT", "ISSUER"} ->
            IF c.re.back THEN "back"
            ELSE IF Is(c.re, IF c.kw = "SUBJECT" THEN md.subject ELSE md.issuer) THEN "yes" ELSE "no"
      [] OTHER ->
            IF c.re.back /\ md.sans \o md.upns # <<>> THEN "back"
            ELSE IF AnyOf(c.re, IF md.upns # <<>> THEN md.upns ELSE md.sans) THEN "yes" ELSE "no"

\* The components are tried in order until one decides; the last one tried is
\* the verdict, and carried is what stands when there is none.
RECURSIVE Verdict(_, _, _, _)
Verdict(rel, comps, md, carried) ==
    IF comps = <<>> THEN carried
    ELSE LET m == ComponentMatch(comps[1], md)
         IN IF m = "back" \/ (m = "yes" /\ rel = "or") \/ (m = "no" /\ rel = "and") THEN m
            ELSE Verdict(rel, Tail(comps), md, m)

\* The verdict of each certificate in turn; the verdict before is still there
\* when a rule has no components.
RECURSIVE Verdicts(_, _, _)
Verdicts(set, mds, vs) ==
    IF mds = <<>> \/ Last(vs) = "back" THEN Tail(vs)
    ELSE Verdicts(set, Tail(mds), Append(vs, Verdict(set.rel, set.comps, mds[1], Last(vs))))

\* The index of the only certificate the rule takes, 0 when there is none.
OnlyOneFirst(yes) == IF yes # {} THEN CHOOSE i \in yes : \A j \in yes : i <= j ELSE 0 \* mutant: the first is as good as the only one
OnlyOne(yes) == IF Cardinality(yes) = 1 THEN TheOne(yes) ELSE 0
Checked(vs) == IF "back" \in Range(vs) THEN Fail(PreauthFailed) ELSE Ok(OnlyOne({i \in DOMAIN vs : vs[i] = "yes"}))
CheckAllCerts(set, mds) == Checked(Verdicts(set, mds, <<"no">>))

\* The first rule that takes just one certificate picks it.  A rule that is
\* not valid is passed over; an expression that does not compile, a rule
\* without a keyword and a certificate that does not read end the search.
TryRule(set, certs) ==
    IF ~set.ok THEN IF set.code = EINVAL THEN Ok(0) ELSE set
    ELSE IF \E i \in DOMAIN certs : ~certs[i].reads THEN Fail(ENOENT)
    ELSE CheckAllCerts(set.v, [i \in DOMAIN certs |-> MatchingData(certs[i])])
RECURSIVE SelectByRules(_, _, _)
SelectByRules(rules, certs, one) ==
    IF ~one.ok \/ one.v # 0 THEN one
    ELSE IF rules = <<>> THEN Fail(ENOENT)
    ELSE SelectByRules(Tail(rules), certs, TryRule(ParseRuleSet(rules[1]), certs))

SelectCert(rules, certs) ==
    IF rules # <<>> THEN SelectByRules(rules, certs, Ok(0))
    ELSE IF Len(certs) = 1 THEN Ok(1) ELSE Fail(EINVAL)
----
(***************************************************************************)
(* Identities.                                                             *)
(***************************************************************************)
Opens(name) == name \in DOMAIN Files
Blocks(name, labels) == SelectSeq(Files[name], LAMBDA b : b.label \in labels)

\* The first certificate of the file; what the file holds besides is passed over.
ReadCert(name) ==
    IF ~Opens(name) THEN Fail(ENOENT)
    ELSE LET found == Blocks(name, {"cert"})
         IN IF found = <<>> \/ ~found[1].good THEN Fail(EIO) ELSE Ok(found[1].id)

\* The first block that is a private key of some kind decides.
ReadKey(name) ==
    IF ~Opens(name) THEN Fail(ENOENT)
    ELSE LET found == Blocks(name, {"key", "encrypted", "dsa"})
         IN IF found = <<>> \/ found[1].label = "encrypted" THEN Fail(EIO)
            ELSE IF found[1].label = "dsa" \/ ~found[1].good THEN Fail(PreauthFailed)
            ELSE Ok(found[1].id)

Pair(cert, key) == IF ~cert.ok THEN cert ELSE IF ~key.ok THEN key ELSE Ok([cert |-> cert.v, key |-> key.v])
LoadCertAndKey(cert, key) == Pair(ReadCert(cert), ReadKey(key))

\* Every pair of a directory that loads, in the order of the names, up to the limit.
Limited(good) == SubSeq(good, 1, IF Len(good) > MaxCreds THEN MaxCreds ELSE Len(good))
Found(good) == IF good = <<>> THEN Fail(ENOENT) ELSE IF ~good[1].ok THEN good[1] ELSE Ok([i \in DOMAIN good |-> good[i].v])
LoadIdentityDir(dir) ==
    IF dir \notin DOMAIN Dirs THEN Fail(ENOENT)
    ELSE Found(Limited(SelectSeq([i \in DOMAIN Dirs[dir] |-> LoadCertAndKey(<<Dirs[dir][i], "crt">>, <<Dirs[dir][i], "key">>)],
                                 LAMBDA l : l.ok)))

RECURSIVE LoadIdentitiesAt(_, _)
LoadIdentitiesAt(value, depth) ==
    CASE value.kind = "FILE" -> Found(<<LoadCertAndKey(value.name, value.key)>>)
      [] value.kind = "DIR" -> LoadIdentityDir(value.name)
      [] value.kind = "ENV" ->
            IF depth < MaxDepth /\ value.name \in DOMAIN Env
            THEN LoadIdentitiesAt(Env[value.name], depth + 1) ELSE Fail(EINVAL)
      [] OTHER -> Fail(PreauthFailed)

LoadIdentities(value) == LoadIdentitiesAt(value, 0)

\* The KDC's identity: one value that must give one certificate.
LoadIdentity(found) ==
    IF ~found.ok THEN found
    ELSE IF SelectCert(<<>>, found.v).ok THEN Ok(Last(found.v)) ELSE Fail(EINVAL)

\* Every certificate of a CA file; one that does not read fails the file.
LoadCaFile(name) ==
    IF ~Opens(name) THEN Fail(ENOENT)
    ELSE LET found == Blocks(name, {"cert"})
         IN IF \E i \in DOMAIN found : ~found[i].good THEN Fail(EIO)
            ELSE Ok({found[i].id : i \in DOMAIN found})

CaCerts(loaded) == IF \E l \in loaded : ~l.ok THEN Fail(PreauthFailed) ELSE Ok(UNION {l.v : l \in loaded})

\* The first identity value that loads; the error of the last one when none does.
RECURSIVE LoadFirst(_, _)
LoadFirst(values, found) ==
    IF found.ok \/ values = <<>> THEN found ELSE LoadFirst(Tail(values), LoadIdentities(values[1]))

Present(found, pick, anchors, pool) ==
    IF ~pick.ok THEN pick
    ELSE IF ~anchors.ok \/ ~pool.ok \/ anchors.v = {} THEN Fail(PreauthFailed)
    ELSE Ok([id |-> found[pick.v], anchors |-> anchors.v])
LoadPkinit(q, found) ==
    IF q.anchors = {} THEN Fail(NoAnchors)
    ELSE IF ~found.ok THEN found
    ELSE Present(found.v, SelectCert(q.rules, [i \in DOMAIN found.v |-> Certs[found.v[i].cert]]),
                 CaCerts({LoadCaFile(n) : n \in q.anchors}), CaCerts({LoadCaFile(n) : n \in q.pool}))

\* The KDC puts the rule of a principal to the certificate a client sent.
Verdicted(v) == IF v = "back" THEN Fail(PreauthFailed) ELSE Ok(v = "yes")
CertMatches(set, cert) ==
    IF ~set.ok THEN set
    ELSE IF ~cert.reads THEN Fail(EINVAL)
    ELSE Verdicted(Verdict(set.v.rel, set.v.comps, MatchingData(cert), "no"))
----
Init == ask \in Asks /\ out = <<>>

Answer(v) == out' = <<v>> /\ UNCHANGED ask
Kinit == /\ out = <<>> /\ ask.who = "client"
         /\ \E found \in {LoadFirst(ask.ids, Fail(EINVAL))} : Answer(LoadPkinit(ask, found))
Kdc == out = <<>> /\ ask.who = "kdc" /\ Answer(LoadIdentity(LoadIdentities(ask.ids[1])))
Login == out = <<>> /\ ask.who = "login" /\ Answer(CertMatches(ParseRuleSet(ask.rules[1]), Certs[ask.cert]))

Next == Kinit \/ Kdc \/ Login

Spec == Init /\ [][Next]_vars
----
(***************************************************************************)
(* What the rules mean.                                                    *)
(***************************************************************************)
Table(c) == IF c.kw = "EKU" THEN EkuWords ELSE KuWords

\* A list of whole words of its table.
PlainList(c) == \A i \in DOMAIN c.words : c.words[i] \in Range(Table(c))
Plain(c) == c.kw \in {"KU", "EKU"} => PlainList(c)

Valid(c) == ~c.empty /\ (c.kw \in {"KU", "EKU"} \/ c.re.code = 0)
Fatal(rule) == \E i \in DOMAIN rule.comps : /\ ~rule.comps[i].empty \/ rule.comps[i].kw = "none"
                                            /\ rule.comps[i].kw = "none" \/ rule.comps[i].re.code # 0
                                            /\ \A j \in 1 .. i - 1 : Valid(rule.comps[j])
ValidRule(rule) == \A i \in DOMAIN rule.comps : rule.comps[i].kw # "none" /\ Valid(rule.comps[i])

Meets(c, cert) ==
    CASE c.kw = "KU" -> Len(cert.ku) = 1 /\ cert.ku[1].whole /\ Range(c.words) \subseteq cert.ku[1].bits
      [] c.kw = "EKU" -> Len(cert.eku) = 1 /\ cert.eku[1].whole /\ Range(c.words) \subseteq cert.eku[1].bits
      [] c.kw = "SUBJECT" -> cert.subject \in c.re.on
      [] c.kw = "ISSUER" -> cert.issuer \in c.re.on
      [] OTHER -> c.re.on \cap Range(IF cert.upns # <<>> THEN cert.upns ELSE cert.sans) # {}

Satisfies(rule, cert) ==
    IF rule.mark = "or" THEN \E i \in DOMAIN rule.comps : Meets(rule.comps[i], cert)
    ELSE rule.comps # <<>> /\ \A i \in DOMAIN rule.comps : Meets(rule.comps[i], cert)

Ordinary(rules) == \A r \in DOMAIN rules : \A i \in DOMAIN rules[r].comps : Plain(rules[r].comps[i]) /\ ~rules[r].comps[i].re.back

Taken(rule, pairs) == {i \in DOMAIN pairs : Satisfies(rule, Certs[pairs[i].cert])}
Decides(rule, pairs) == ValidRule(rule) /\ Cardinality(Taken(rule, pairs)) = 1

\* id is what the rules name among the pairs of the first value that gives any.
Named(rules, pairs, id) ==
    IF rules = <<>> THEN pairs = <<id>>
    ELSE \E k \in DOMAIN rules :
            /\ Decides(rules[k], pairs) /\ \A i \in Taken(rules[k], pairs) : id = pairs[i]
            /\ \A j \in 1 .. k - 1 : ~Decides(rules[j], pairs) /\ ~Fatal(rules[j])
NamesNone(rules, pairs) ==
    (\A i \in DOMAIN pairs : Certs[pairs[i].cert].reads) =>
        \A k \in DOMAIN rules : Decides(rules[k], pairs) => \E j \in 1 .. k - 1 : Fatal(rules[j])

\* The certificate kinit presents is the one the rules name: the first rule
\* that is valid and that exactly one of the loaded certificates satisfies
\* names it, no rule in front of it stops the search, and without rules it is
\* the only one.  Nothing is found only when no rule names one.  The key is the
\* one stored beside that certificate, and the KDC refuses a certificate
\* exactly when it does not satisfy the principal's rule.
ChosenTruly ==
    out # <<>> /\ Ordinary(ask.rules) =>
        /\ ask.who = "login" /\ out[1].ok => out[1].v = Satisfies(ask.rules[1], Certs[ask.cert])
        /\ ask.who = "client" /\ out[1].ok =>
              /\ out[1].v.anchors # {}
              /\ ask.ids[1].kind = "DIR" => out[1].v.id.key = out[1].v.id.cert
              /\ \A found \in {LoadFirst(ask.ids, Fail(EINVAL))} : Named(ask.rules, found.v, out[1].v.id)
        /\ ask.who = "client" /\ ~out[1].ok /\ out[1].code = ENOENT =>
              \A found \in {LoadFirst(ask.ids, Fail(EINVAL))} : found.ok => NamesNone(ask.rules, found.v)
====
