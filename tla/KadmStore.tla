----------------------------- MODULE KadmStore ------------------------------
(***************************************************************************)
(* What an administrative change does to the principal store               *)
(* (krb5-kdc/src/store/principal.rs, password.rs, history.rs, keys.rs,     *)
(* policy.rs, alias.rs, rid.rs, pwqual.rs, kadm5_hook.rs): operators from  *)
(* a store to [code, s], the store left as it is on a refusal.             *)
(*                                                                         *)
(* A store is [db, pol, nextRid, fresh]: the principals by id, the         *)
(* policies by name, the next RID, and a source of random keys and salts.  *)
(* A key is [kvno, etype, secret, salt], salt being the salt type, and the *)
(* value of a special one; string_to_key of a password and a salt is the   *)
(* pair of them.                                                           *)
(***************************************************************************)
EXTENDS Integers, Sequences, FiniteSets, FiniteSetsExt, Functions, TLC
-----------------------------------------------------------------------------
(***************************************************************************)
(* Who may administer what (krb5-kdc/src/acl.rs and krb5-admin/src/kadm5/  *)
(* auth_plugin.rs): the lines of kadm5.acl with their wildcards, back      *)
(* references and restrictions, and the stack of authorization modules.    *)
(* A principal is <<components, realm>>, an optional value a set with at   *)
(* most one element, a set of attribute bits a set of their names.         *)
(***************************************************************************)

CONSTANTS
    AclLines,    \* the lines of kadm5.acl, split into fields
    AuthModules, \* the names of the modules, in the order of the plugin list
    SiteDenies   \* <<client, operation>> pairs a site's own module refuses

AdminOps == {"Create", "Delete", "Inquire", "Extract", "ChangePassword",
             "Modify", "SetKey", "List", "Propagate"}

(* The letters of an ACL line; an upper-case one revokes. *)
Letters ==
    [a |-> {"Create"}, d |-> {"Delete"}, i |-> {"Inquire"}, e |-> {"Extract"},
     c |-> {"ChangePassword"}, m |-> {"Modify"}, s |-> {"SetKey"}, l |-> {"List"},
     p |-> {"Propagate"}, x |-> AdminOps \ {"Extract"}]
    @@ ("*" :> AdminOps \ {"Extract"})

Capitals ==
    [A |-> "a", D |-> "d", I |-> "i", E |-> "e", C |-> "c", M |-> "m",
     S |-> "s", L |-> "l", P |-> "p", X |-> "x"]

(* The operations of a line, each as the last letter with it says; an      *)
(* unknown letter makes the line an error.                                 *)
Removes(ch, op) == ch \in DOMAIN Capitals /\ op \in Letters[Capitals[ch]]

ParseOps(letters) ==
    {op \in AdminOps : \E i \in DOMAIN letters :
        /\ letters[i] \notin DOMAIN Capitals /\ op \in Letters[letters[i]]
        /\ \A j \in i + 1 .. Len(letters) : ~ Removes(letters[j], op)}

BadOps(letters) == ~ Range(letters) \subseteq DOMAIN Letters \cup DOMAIN Capitals

Deltas == [e |-> "-expire", p |-> "-pwexpire", l |-> "-maxlife", r |-> "-maxrenewlife"]

(* parse_restrictions, over tokens [token, arg] whose flags are read:      *)
(* "+flag" is required, "-flag" is forbidden; a later value replaces an    *)
(* earlier one.  A second -policy is an error.                             *)
Named(tokens, t) == {i \in DOMAIN tokens : tokens[i].token = t}
Args(tokens, t) == {tokens[i].arg : i \in Named(tokens, t)}
LastArg(tokens, t) == {tokens[i].arg : i \in {i \in Named(tokens, t) : \A j \in Named(tokens, t) : j <= i}}

ParseRestrictions(tokens) ==
    [attrs |-> Named(tokens, "+flag") \cup Named(tokens, "-flag") # {},
     require |-> Args(tokens, "+flag"), forbid |-> Args(tokens, "-flag"),
     clearPolicy |-> Named(tokens, "-clearpolicy") # {}, policy |-> LastArg(tokens, "-policy"),
     expire |-> LastArg(tokens, Deltas.e), pwexpire |-> LastArg(tokens, Deltas.p),
     maxLife |-> LastArg(tokens, Deltas.l), maxRlife |-> LastArg(tokens, Deltas.r)]

BadRestrictions(tokens) ==
    Cardinality(Named(tokens, "-policy")) > 1

(* parse_line; the whole file is refused when one line is bad. *)
ParseLine(line) ==
    [client |-> IF line.client = <<"*">> THEN {} ELSE {line.client},
     ops |-> ParseOps(line.ops),
     target |-> {t \in line.target : t # <<"*">>},
     restrictions |-> {ParseRestrictions(r) : r \in line.restrictions}]

BadLine(line) == BadOps(line.ops) \/ \E r \in line.restrictions : BadRestrictions(r)

Entries ==
    IF \E i \in DOMAIN AclLines : BadLine(AclLines[i]) THEN <<>>
    ELSE [i \in DOMAIN AclLines |-> ParseLine(AclLines[i])]

-----------------------------------------------------------------------------
BackRefs == <<"*1", "*2", "*3", "*4", "*5", "*6", "*7", "*8", "*9">>

(* Mutant of MatchTarget: a back reference matches any component. *)
MatchTargetLoose(pat, actual, refs) ==
    pat \in {"*", actual} \/ \E n \in DOMAIN BackRefs : BackRefs[n] = pat

(* match_data of a target: "*N" is what the client's N-th "*" matched. *)
MatchTarget(pat, actual, refs) ==
    IF \E n \in DOMAIN BackRefs : BackRefs[n] = pat
    THEN \E n \in DOMAIN refs : BackRefs[n] = pat /\ refs[n] = actual
    ELSE pat \in {"*", actual}

(* match_princ of the client, and what its wildcards matched. *)
MatchClient(pat, actual) ==
    /\ Len(pat[1]) = Len(actual[1])
    /\ pat[2] \in {"*", actual[2]}
    /\ \A i \in DOMAIN pat[1] : pat[1][i] \in {"*", actual[1][i]}

Wild(pat, actual) ==
    LET stars == SelectSeq([i \in DOMAIN pat[1] |-> i], LAMBDA i : pat[1][i] = "*")
    IN  [n \in 1 .. (IF Len(stars) < 9 THEN Len(stars) ELSE 9) |-> actual[1][stars[n]]]

(* match_princ of the target; the realm takes no back reference. *)
MatchPrinc(pat, actual, refs) ==
    /\ Len(pat[1]) = Len(actual[1])
    /\ pat[2] \in {"*", actual[2]}
    /\ \A i \in DOMAIN pat[1] : MatchTarget(pat[1][i], actual[1][i], refs)

Refs(e, actor) == IF e.client = {} THEN <<>> ELSE Wild(CHOOSE c \in e.client : TRUE, actor)

(* An entry with a target is skipped when the operation has none. *)
Matches(e, actor, target) ==
    /\ \A c \in e.client : MatchClient(c, actor)
    /\ \A t \in e.target : \E a \in target : MatchPrinc(t, a, Refs(e, actor))

(* Acl::find: the first line that matches decides, whatever it grants. *)
First(seq) == IF seq = <<>> THEN {} ELSE {seq[1]}

Find(actor, target) == First(SelectSeq(Entries, LAMBDA e : Matches(e, actor, target)))

Allows(actor, op, target) == \E e \in Find(actor, target) : op \in e.ops

Restrictions(actor, target) == UNION {e.restrictions : e \in Find(actor, target)}

(* check_rename and check_addalias, as acl_renprinc and acl_addalias. *)
AllowsUnrestricted(actor, op, target) ==
    \E e \in Find(actor, target) : op \in e.ops /\ e.restrictions = {}

CheckRename(actor, src, dest) ==
    Allows(actor, "Delete", {src}) /\ AllowsUnrestricted(actor, "Create", {dest})

CheckAddalias(actor, alias, target) ==
    AllowsUnrestricted(actor, "Create", {alias}) /\ Allows(actor, "Modify", {target})

(* Mutant of ImposeCap: only a value that was given is capped. *)
ImposeCapGiven(ent, field, cap) ==
    IF cap = {} \/ field \notin ent.mask THEN ent
    ELSE LET c == CHOOSE x \in cap : TRUE IN [ent EXCEPT ![field] = IF @ > c THEN c ELSE @]

(* Restrictions::impose on a request [mask, attrs, policy, expire,         *)
(* pwexpire, maxLife, maxRlife]: a value that is absent or above the cap   *)
(* becomes the cap.                                                        *)
ImposeCap(ent, field, cap) ==
    IF cap = {} THEN ent
    ELSE LET c == CHOOSE x \in cap : TRUE
         IN  [ent EXCEPT ![field] = IF field \notin ent.mask \/ @ > c THEN c ELSE @,
                         !.mask = @ \cup {field}]

ImposePolicy(ent, rs) ==
    IF rs.clearPolicy THEN [ent EXCEPT !.mask = (@ \ {"policy"}) \cup {"policyClr"}]
    ELSE IF rs.policy = {} THEN ent
    ELSE [ent EXCEPT !.policy = rs.policy, !.mask = @ \cup {"policy"}]

ImposeAttrs(ent, rs) ==
    IF ~ rs.attrs THEN ent
    ELSE [ent EXCEPT !.attrs = (@ \cup rs.require) \ rs.forbid, !.mask = @ \cup {"attrs"}]

Impose(rs, ent, now) ==
    LET after == ImposePolicy(ImposeAttrs(ent, rs), rs)
        dated == ImposeCap(ImposeCap(after, "expire", {now + d : d \in rs.expire}),
                           "pwexpire", {now + d : d \in rs.pwexpire})
    IN  ImposeCap(ImposeCap(dated, "maxLife", rs.maxLife), "maxRlife", rs.maxRlife)

-----------------------------------------------------------------------------
(* What the acl module says of an operation of the kadm5 service. *)
Needs ==
    [addprinc |-> "Create", modprinc |-> "Modify", setstr |-> "Modify",
     cpw |-> "ChangePassword", chrand |-> "ChangePassword", setkey |-> "SetKey",
     purgekeys |-> "Modify", delprinc |-> "Delete", getprinc |-> "Inquire",
     getstrs |-> "Inquire", extract |-> "Extract", listprincs |-> "List",
     addpol |-> "Create", modpol |-> "Modify", delpol |-> "Delete",
     getpol |-> "Inquire", listpols |-> "List", iprop |-> "Propagate"]

AclModule(op, client, targets) ==
    CASE op = "renprinc" -> CheckRename(client, targets[1], targets[2])
      [] op = "addalias" -> CheckAddalias(client, targets[1], targets[2])
      [] OTHER -> Allows(client, Needs[op], Range(targets))

(* The self module; the policy operations name no principal. *)
SelfModule(op, client, targets) ==
    /\ op \in {"cpw", "chrand", "purgekeys", "getprinc", "getstrs"}
    /\ targets = <<client>>

Decision(module, op, client, targets) ==
    CASE module = "acl" /\ AclModule(op, client, targets) -> "Allow"
      [] module = "self" /\ SelfModule(op, client, targets) -> "Allow"
      [] module = "site" /\ <<client, op>> \in SiteDenies -> "Deny"
      [] OTHER -> "Abstain"

Permits(said) == "Allow" \in said /\ "Deny" \notin said

(* AuthStack::combine: one refusal refuses, one permission permits. *)
Combine(op, client, targets) ==
    Permits({Decision(m, op, client, targets) : m \in Range(AuthModules)})

(* combine_restrict of addprinc and modprinc: the restrictions of the line *)
(* that allows it.                                                         *)
CombineRestrict(op, client, target) ==
    IF "acl" \in Range(AuthModules) /\ AclModule(op, client, <<target>>)
    THEN Restrictions(client, {target}) ELSE {}

(* SelfModule::getpol besides: a client may read the policy it is under. *)
MayGetPol(client, policy, own) ==
    \/ Combine("getpol", client, <<>>)
    \/ "self" \in Range(AuthModules) /\ policy \in own /\ <<client, "getpol">> \notin SiteDenies
-----------------------------------------------------------------------------

CONSTANTS
    Realm,
    MaxKvno,       \* 65535: a version number is 16 bits wide
    Supported,     \* supported_enctypes: a sequence of [etype, salt]
    DefaultAttrs,  \* default_principal_flags
    RealmMaxLife,  \* max_life of the realm
    Words,         \* the passwords of dict_file
    HookRefuses,   \* <<operation, id>> pairs a kadm5_hook module refuses
    MaxAliasDepth

Res(code, s) == [code |-> code, s |-> s]

Done(s) == Res("Ok", s)

HistoryId == <<<<"kadmin", "history">>, Realm>>

MasterId == <<<<"K", "M">>, Realm>>

KrbtgtId == <<<<"krbtgt", Realm>>, Realm>>

(* resolve_alias_id: one hop past the depth is none. *)
ResolveId(s, id) ==
    LET hop[n \in 0 .. MaxAliasDepth] ==
            IF n = 0 THEN {id}
            ELSE UNION {IF i \in DOMAIN s.db THEN s.db[i].alias \cup (IF s.db[i].alias = {} THEN {i} ELSE {})
                        ELSE {} : i \in hop[n - 1]}
    IN  {i \in hop[MaxAliasDepth] \cap DOMAIN s.db : s.db[i].alias = {}}

Found(s, id) == ResolveId(s, id) # {}

Canon(s, id) == CHOOSE i \in ResolveId(s, id) : TRUE

Entry(s, id) == s.db[Canon(s, id)]

PolicyOf(s, p) == {s.pol[n] : n \in p.policy \cap DOMAIN s.pol}

Put(s, id, p) == [s EXCEPT !.db = (id :> p) @@ @]

-----------------------------------------------------------------------------
(* next_kvno, cap_key_versions and the keys of the highest version. *)
Kvnos(keys) == {keys[i].kvno : i \in DOMAIN keys}

(* Mutant of NextKvno: the number of keys is taken for the version. *)
NextKvnoCount(keys) == Len(keys) + 1

NextKvno(keys) ==
    IF keys = <<>> \/ Max(Kvnos(keys)) >= MaxKvno THEN 1 ELSE Max(Kvnos(keys)) + 1

Newest(kvnos, n) == {k \in kvnos : Cardinality({m \in kvnos : m > k}) < n}

CapKeyVersions(keys, n) ==
    LET keep == Newest(Kvnos(keys), n) IN SelectSeq(keys, LAMBDA k : k.kvno \in keep)

(* What is kept beside new keys: 0 nothing, 1 everything, n versions. *)
KeepOld(new, old, keepold) ==
    CASE keepold = 0 -> new
      [] keepold = 1 -> new \o old
      [] OTHER -> CapKeyVersions(new \o old, keepold)

SaltFor(kind, id) ==
    CASE kind = "normal" -> <<"normal", id>>
      [] kind = "norealm" -> <<"norealm", id[1]>>
      [] kind = "onlyrealm" -> <<"onlyrealm", id[2]>>

(* key_salt, salt_of_keys and specialize_salts: all but a special salt is  *)
(* computed from the name the principal has now.                           *)
KeySalt(k, id) == IF k.salt.kind = "special" THEN k.salt.value ELSE SaltFor(k.salt.kind, id)

SaltOfKeys(keys, id) == IF keys = <<>> THEN <<"normal", id>> ELSE KeySalt(keys[1], id)

SpecializeSalts(p, id) ==
    LET keys == [i \in DOMAIN p.keys |->
                    [p.keys[i] EXCEPT !.salt = [kind |-> "special", value |-> KeySalt(p.keys[i], id)]]]
    IN  [p EXCEPT !.keys = keys, !.salt = SaltOfKeys(keys, id)]

(* The first of each enctype, in order. *)
FirstOfEtype(ks) ==
    LET firsts == {i \in DOMAIN ks : \A j \in 1 .. i - 1 : ks[j].etype # ks[i].etype}
    IN  [n \in 1 .. Cardinality(firsts) |-> ks[CHOOSE i \in firsts : Cardinality({j \in firsts : j <= i}) = n]]

(* keys_from_password and random_keys: one key per enctype. *)
NewKeys(uses, kvno, Secret(_), Salt(_)) ==
    [i \in DOMAIN uses |->
        [kvno |-> kvno, etype |-> uses[i].etype, secret |-> Secret(i), salt |-> Salt(i)]]

Unsalted == [kind |-> "normal", value |-> <<>>]

KeysFromPassword(s, ks, pw, id, kvno) ==
    LET uses == FirstOfEtype(ks)
        value(i) == IF uses[i].salt = "special" THEN <<"random", s.fresh, i>> ELSE SaltFor(uses[i].salt, id)
        salt(i) == IF uses[i].salt = "special" THEN [kind |-> "special", value |-> value(i)]
                   ELSE [kind |-> uses[i].salt, value |-> <<>>]
        secret(i) == <<pw.text, value(i)>>
    IN  NewKeys(uses, kvno, secret, salt)

RandomKeys(s, ks, kvno) ==
    LET secret(i) == <<"random", <<s.fresh, i>>>>
        salt(i) == Unsalted
    IN  NewKeys(FirstOfEtype(ks), kvno, secret, salt)

(* apply_keysalt_policy: a policy's list bounds what may be asked for. *)
BadKeysalts(pol, requested) ==
    \E q \in pol : q.keysalts # <<>> /\ ~ Range(requested) \subseteq Range(q.keysalts)

ApplyKeysaltPolicy(pol, requested) ==
    LET allowed == {q.keysalts : q \in pol} \ {<<>>}
    IN  IF allowed = {} THEN (IF requested = <<>> THEN Supported ELSE requested)
        ELSE LET ak == CHOOSE a \in allowed : TRUE
             IN  IF requested = <<>> THEN ak
                 ELSE SelectSeq(ak, LAMBDA k : k \in Range(requested))

-----------------------------------------------------------------------------
(* Password quality: check_against_policy, the modules of pwqual.rs in     *)
(* their order, and the history.  A password is [text, length, classes].   *)
CheckAgainstPolicy(pw, pol) ==
    CASE \E q \in pol : pw.length < q.minLength -> "TooShort"
      [] \E q \in pol : pw.classes < q.minClasses -> "Class"
      [] OTHER -> "Ok"

Pwqual(pw, pol, id) ==
    CASE pol # {} /\ pw.text \in Words -> "Dict"
      [] pw.length = 0 -> "TooShort"
      [] pol # {} /\ pw.text \in Range(id[1]) \cup {id[2]} -> "Dict"
      [] OTHER -> "Ok"

(* Mutant of Remembered: the key that is current is not compared. *)
RememberedOld(p, history) ==
    IF history = 0 THEN {}
    ELSE LET keep == Newest(Kvnos(p.history), history - 1)
         IN  {k \in Range(p.history) : k.kvno \in keep}

(* The keys a new password is compared with: the current ones, and those   *)
(* of history - 1 versions before, by version number.                      *)
Remembered(p, history) ==
    IF history = 0 THEN {}
    ELSE LET keep == Newest(Kvnos(p.history), history - 1)
         IN  Range(p.keys) \cup {k \in Range(p.history) : k.kvno \in keep}

(* check_password_quality_in: reuse is judged under the principal's salt. *)
CheckPasswordQuality(s, id, pw) ==
    LET p == Entry(s, id)
        pol == PolicyOf(s, p)
        first == CheckAgainstPolicy(pw, pol)
        second == Pwqual(pw, pol, id)
    IN  CASE ~ Found(s, id) -> "Ok"
          [] first # "Ok" -> first
          [] second # "Ok" -> second
          [] \E q \in pol : \E k \in Remembered(p, q.history) : k.secret = <<pw.text, p.salt>> -> "Reuse"
          [] OTHER -> "Ok"

CheckNewPassword(s, id, policy, pw) ==
    LET pol == {s.pol[n] : n \in policy \cap DOMAIN s.pol}
        first == CheckAgainstPolicy(pw, pol)
    IN  IF first # "Ok" THEN first ELSE Pwqual(pw, pol, id)

(* check_min_life_in *)
TooSoon(s, id, now) ==
    LET p == Entry(s, id)
    IN  /\ "PWCHANGE" \notin p.attrs
        /\ \E q \in PolicyOf(s, p) : q.minLife # 0 /\ now - p.lastPwd < q.minLife

(* apply_pw_max_life_in *)
PwMaxLife(s, p) ==
    LET life == {q.maxLife : q \in PolicyOf(s, p)} \ {0}
    IN  [p EXCEPT !.pwExpire = IF life = {} THEN 0 ELSE p.lastPwd + CHOOSE l \in life : TRUE]

-----------------------------------------------------------------------------
(* put_principal: settle_rid, then a RID of another principal is refused. *)
AllocRid(s, id) ==
    CASE id = KrbtgtId -> [rid |-> 502, next |-> s.nextRid]
      [] id[1] = <<"Administrator">> /\ \A i \in DOMAIN s.db : s.db[i].rid # 500 ->
            [rid |-> 500, next |-> s.nextRid]
      [] OTHER -> [rid |-> s.nextRid, next |-> s.nextRid + 1]

Settled(given) ==
    [rid |-> given.rid,
     next |-> IF given.rid >= 1000 /\ given.rid >= given.next THEN given.rid + 1 ELSE given.next]

SettleRid(s, id, p) ==
    Settled(IF p.rid = 0 /\ p.alias = {} THEN AllocRid(s, id) ELSE [rid |-> p.rid, next |-> s.nextRid])

PutWithRid(s, id, p, r) ==
    IF id # MasterId /\ \E i \in DOMAIN s.db \ {id} : s.db[i].rid = r.rid
    THEN Res("InvalidArgument", s)
    ELSE Done(Put([s EXCEPT !.nextRid = r.next], id, [p EXCEPT !.rid = r.rid]))

PutPrincipal(s, id, p) == PutWithRid(s, id, p, SettleRid(s, id, p))

NewRecord(id, keys, now) ==
    [keys |-> keys, salt |-> SaltOfKeys(keys, id), history |-> <<>>, histKvno |-> 0,
     attrs |-> {}, policy |-> {}, pwExpire |-> 0, lastPwd |-> now,
     maxLife |-> 0, maxRlife |-> 0, expire |-> 0, fail |-> 0, unlock |-> 0,
     rid |-> 0, alias |-> {}, strings |-> {}]

(* history_key and ensure_history_principal, made at version 2. *)
HistoryKvno(s) ==
    IF Found(s, HistoryId) /\ Entry(s, HistoryId).keys # <<>>
    THEN {Max(Kvnos(Entry(s, HistoryId).keys))} ELSE {}

EnsureHistory(s, now) ==
    IF HistoryKvno(s) # {} THEN s
    ELSE LET key == [kvno |-> 2, etype |-> Supported[1].etype, secret |-> <<"random", <<s.fresh, 0>>>>, salt |-> Unsalted]
             r == PutPrincipal(s, HistoryId, [NewRecord(HistoryId, <<key>>, now) EXCEPT !.maxLife = 64])
         IN  [r.s EXCEPT !.fresh = @ + 1]


(* record_history and prune_key_history: a new history key clears it. *)
RecordHistory(p, old, nhist, histKvno) ==
    LET kept == IF p.histKvno # histKvno THEN <<>> ELSE p.history
        recent == IF old = <<>> THEN <<>> ELSE CapKeyVersions(old, 1)
    IN  [p EXCEPT !.histKvno = histKvno,
                  !.history = IF nhist <= 1 \/ old = <<>> THEN kept
                              ELSE CapKeyVersions(kept \o recent, nhist - 1)]

-----------------------------------------------------------------------------
(* A password change.  chpass_inputs and chpass_plan: what is read ... *)
ChpassRefusal(s, id, pw, ks) ==
    CASE id = HistoryId -> "InvalidArgument"
      [] ~ Found(s, id) -> "NotFound"
      [] BadKeysalts(PolicyOf(s, Entry(s, id)), ks) -> "BadKeysalts"
      [] OTHER -> CheckPasswordQuality(s, id, pw)

ChpassPlan(s, id, pw, ks) ==
    LET pol == PolicyOf(s, Entry(s, id))
        uses == ApplyKeysaltPolicy(pol, ks)
    IN  [id |-> id, canon |-> Canon(s, id), pol |-> pol, record |-> Entry(s, id),
         keys |-> KeysFromPassword(s, uses, pw, Canon(s, id), NextKvno(Entry(s, id).keys)),
         pw |-> pw, ks |-> ks]

(* ... and commit_password with replace_password_keys: what is written.    *)
ReplacePasswordKeys(s, p, plan, keepold, now) ==
    LET nhist == {q.history : q \in plan.pol}
        recorded == IF nhist = {} THEN p
                    ELSE RecordHistory(p, p.keys, CHOOSE n \in nhist : TRUE,
                                       CHOOSE k \in HistoryKvno(s) : TRUE)
        keys == KeepOld(plan.keys, p.keys, keepold)
    IN  [recorded EXCEPT !.keys = keys, !.salt = SaltOfKeys(keys, plan.canon),
                         !.attrs = @ \ {"PWCHANGE"}, !.fail = 0, !.lastPwd = now]

WritePassword(s, plan, keepold, now) ==
    LET p == ReplacePasswordKeys(s, s.db[plan.canon], plan, keepold, now)
    IN  IF <<"chpass", plan.id>> \in HookRefuses THEN Res("Hook", s)
        ELSE Done([Put(s, plan.canon, PwMaxLife(s, p)) EXCEPT !.fresh = @ + 1])

CommitPassword(s, plan, keepold, now) ==
    WritePassword(IF plan.pol # {} THEN EnsureHistory(s, now) ELSE s, plan, keepold, now)

(* set_password_etypes_keepold_n_in: the whole change under the lock; a    *)
(* refused password still leaves kadmin/history.                           *)
SetGoodPassword(quality, s, id, pw, ks, keepold, now) ==
    IF quality # "Ok" THEN Res(quality, s)
    ELSE CommitPassword(s, ChpassPlan(s, id, pw, ks), keepold, now)

SetNewPassword(s, id, pw, ks, keepold, now) ==
    SetGoodPassword(CheckPasswordQuality(s, id, pw), s, id, pw, ks, keepold, now)

SetPassword(s, id, pw, ks, keepold, now) ==
    CASE id = HistoryId -> Res("InvalidArgument", s)
      [] ~ Found(s, id) -> Res("NotFound", s)
      [] BadKeysalts(PolicyOf(s, Entry(s, id)), ks) -> Res("BadKeysalts", s)
      [] OTHER -> SetNewPassword(IF PolicyOf(s, Entry(s, id)) # {} THEN EnsureHistory(s, now) ELSE s,
                                 id, pw, ks, keepold, now)

(* plan_password is none where only the in-lock path makes the history. *)
CanStage(s, id) == PolicyOf(s, Entry(s, id)) = {} \/ HistoryKvno(s) # {}

(* Mutant of StillSame: only that the principal is still there. *)
StillSameName(s, plan) == ResolveId(s, plan.id) = {plan.canon}

(* same_record and apply_password: what the plan was made from is as it    *)
(* was.                                                                    *)
StillSame(s, plan) ==
    /\ ResolveId(s, plan.id) = {plan.canon}
    /\ s.db[plan.canon] = plan.record
    /\ PolicyOf(s, s.db[plan.canon]) = plan.pol
    /\ plan.pol # {} => HistoryKvno(s) # {}

-----------------------------------------------------------------------------
(* Other keys: chrand_etypes_keepold_in, purgekeys_in and set_keys_in. *)
Rekeyed(s, id, keys, now) ==
    Put(s, id, PwMaxLife(s, [s.db[id] EXCEPT !.keys = keys, !.attrs = @ \ {"PWCHANGE"},
                                             !.fail = 0, !.lastPwd = now]))

Chrand(s, id, ks, keepold, now) ==
    LET p == Entry(s, id)
        uses == ApplyKeysaltPolicy(PolicyOf(s, p), ks)
        new == RandomKeys(s, IF id = HistoryId THEN SubSeq(uses, 1, 1) ELSE uses, NextKvno(p.keys))
    IN  CASE id = HistoryId /\ keepold > 0 -> Res("InvalidArgument", s)
          [] ~ Found(s, id) -> Res("NotFound", s)
          [] BadKeysalts(PolicyOf(s, p), ks) -> Res("BadKeysalts", s)
          [] <<"chpass", id>> \in HookRefuses -> Res("Hook", s)
          [] OTHER -> Done([Rekeyed(s, Canon(s, id), KeepOld(new, p.keys, keepold), now) EXCEPT !.fresh = @ + 1])

PurgeKeys(s, id, keepkvno) ==
    LET p == Entry(s, id)
        keep == IF keepkvno > 0 THEN keepkvno
                ELSE IF p.keys = <<>> THEN 0 ELSE Max(Kvnos(p.keys))
    IN  IF ~ Found(s, id) THEN Res("NotFound", s)
        ELSE Done(Put(s, Canon(s, id), [p EXCEPT !.keys = SelectSeq(@, LAMBDA k : k.kvno >= keep)]))

SetKeys(s, id, given, keepold, now) ==
    LET p == Entry(s, id)
        want == given[1].kvno
        kvno == IF want = 0 THEN NextKvno(p.keys) ELSE want
        new == [i \in DOMAIN given |-> [given[i] EXCEPT !.kvno = kvno]]
        asked == [i \in DOMAIN given |-> [etype |-> given[i].etype, salt |-> given[i].salt.kind]]
    IN  CASE given = <<>> \/ id = HistoryId -> Res("InvalidArgument", s)
          [] \E i \in DOMAIN given : given[i].kvno # want -> Res("BadKvno", s)
          [] ~ Found(s, id) -> Res("NotFound", s)
          [] want > MaxKvno \/ (keepold > 0 /\ want # 0 /\ want \in Kvnos(p.keys)) -> Res("BadKvno", s)
          [] BadKeysalts(PolicyOf(s, p), asked) -> Res("BadKeysalts", s)
          [] ~ IsInjective(asked) -> Res("DupEnctypes", s)
          [] OTHER -> Done(Rekeyed(s, Canon(s, id), KeepOld(new, p.keys, keepold), now))

-----------------------------------------------------------------------------
(* Creation.  ent is what the caller asked for, as Impose left it. *)
CreateRefusal(s, id, pw, ks, ent) ==
    LET policy == IF "policy" \in ent.mask THEN ent.policy ELSE {}
        pol == {s.pol[n] : n \in policy \cap DOMAIN s.pol}
        quality == IF pw = {} THEN "Ok" ELSE CheckNewPassword(s, id, policy, CHOOSE w \in pw : TRUE)
    IN  CASE Found(s, id) -> "AlreadyExists"
          [] quality # "Ok" -> quality
          [] BadKeysalts(pol, ks) -> "BadKeysalts"
          [] "kvno" \in ent.mask /\ ent.kvno > MaxKvno -> "InvalidArgument"
          [] OTHER -> "Ok"

CreatePlan(s, id, pw, ks, ent, now) ==
    LET policy == IF "policy" \in ent.mask THEN ent.policy ELSE {}
        pol == {s.pol[n] : n \in policy \cap DOMAIN s.pol}
        uses == ApplyKeysaltPolicy(pol, ks)
        kvno == IF "kvno" \in ent.mask THEN ent.kvno ELSE 1
    IN  [id |-> id, policy |-> policy, pol |-> pol, ent |-> ent, pw |-> pw, at |-> now,
         keys |-> IF pw = {} THEN RandomKeys(s, uses, kvno)
                  ELSE KeysFromPassword(s, uses, CHOOSE w \in pw : TRUE, id, kvno)]

Refreshed(r) == IF r.code # "Ok" THEN r ELSE Done([r.s EXCEPT !.fresh = @ + 1])

(* default_create_attributes, create_finish *)
CreateFinish(s, plan, now) ==
    LET ent == plan.ent
        life == {q.maxLife : q \in plan.pol} \ {0}
        p == [NewRecord(plan.id, plan.keys, now) EXCEPT
                !.attrs = IF "attrs" \in ent.mask THEN ent.attrs ELSE DefaultAttrs,
                !.maxLife = IF "maxLife" \in ent.mask THEN ent.maxLife ELSE RealmMaxLife,
                !.maxRlife = IF "maxRlife" \in ent.mask THEN ent.maxRlife ELSE 0,
                !.expire = IF "expire" \in ent.mask THEN ent.expire ELSE 0,
                !.pwExpire = CASE "pwexpire" \in ent.mask -> ent.pwexpire
                               [] life # {} -> plan.at + CHOOSE l \in life : TRUE
                               [] OTHER -> 0,
                !.policy = plan.policy]
    IN  IF <<"create", plan.id>> \in HookRefuses THEN Res("Hook", s)
        ELSE Refreshed(PutPrincipal(s, plan.id, p))

(* create_prepared: made again where the name is taken or the policy is    *)
(* not what it was.                                                        *)
CreateStillSame(s, plan) ==
    ~ Found(s, plan.id) /\ {s.pol[n] : n \in plan.policy \cap DOMAIN s.pol} = plan.pol

CreateUnless(no, s, plan, now) == IF no # "Ok" THEN Res(no, s) ELSE CreateFinish(s, plan, now)

Create(s, id, pw, ks, ent, now) ==
    CreateUnless(CreateRefusal(s, id, pw, ks, ent), s, CreatePlan(s, id, pw, ks, ent, now), now)

-----------------------------------------------------------------------------
(* remove_id_inner; delete_in resolves no alias: the alias row goes. *)
RemovePrincipal(s, id) ==
    CASE id \notin DOMAIN s.db -> Res("NotFound", s)
      [] id = MasterId -> Res("InvalidArgument", s)
      [] <<"remove", id>> \in HookRefuses -> Res("Hook", s)
      [] OTHER -> Done([s EXCEPT !.db = [i \in DOMAIN @ \ {id} |-> @[i]]])

(* Mutant of Rename: the salts stay those of the old name. *)
RenameUnsalted(s, old, new) ==
    CASE Found(s, new) -> Res("AlreadyExists", s)
      [] old \notin DOMAIN s.db -> Res("NotFound", s)
      [] s.db[old].alias # {} -> Res("AliasUnsupported", s)
      [] OTHER -> Done([s EXCEPT !.db = (new :> s.db[old]) @@ [i \in DOMAIN @ \ {old} |-> @[i]]])

(* rename_unchecked: the keys keep the salt they were made with. *)
Rename(s, old, new) ==
    CASE Found(s, new) -> Res("AlreadyExists", s)
      [] old \notin DOMAIN s.db -> Res("NotFound", s)
      [] s.db[old].alias # {} -> Res("AliasUnsupported", s)
      [] <<"rename", old>> \in HookRefuses -> Res("Hook", s)
      [] OTHER -> Done([s EXCEPT !.db = (new :> SpecializeSalts(s.db[old], old))
                                        @@ [i \in DOMAIN @ \ {old} |-> @[i]]])

(* create_alias_in: an absent target is fine. *)
CreateAlias(s, alias, target, now) ==
    CASE alias[2] # target[2] -> Res("AliasRealm", s)
      [] Found(s, alias) -> Res("AlreadyExists", s)
      [] <<"alias", alias>> \in HookRefuses -> Res("Hook", s)
      [] OTHER -> Done(Put(s, alias, [NewRecord(alias, <<>>, now) EXCEPT !.alias = {target}, !.attrs = {"ALLTIX"}]))

(* apply_admin_fields_in, then set_kvno_in and clear_fail_auth_count_in,   *)
(* as a MODIFY request strings them together.                              *)
AdminFields(s, p, ent) ==
    LET set(field, old, new) == IF field \in ent.mask THEN new ELSE old
        clear == "policyClr" \in ent.mask
        named == "policy" \in ent.mask /\ ~ clear
        q == [p EXCEPT !.attrs = set("attrs", @, ent.attrs), !.maxLife = set("maxLife", @, ent.maxLife),
                       !.maxRlife = set("maxRlife", @, ent.maxRlife), !.expire = set("expire", @, ent.expire),
                       !.pwExpire = IF clear THEN 0 ELSE set("pwexpire", @, ent.pwexpire),
                       !.policy = IF clear THEN {} ELSE set("policy", @, ent.policy)]
    IN  IF named /\ "pwexpire" \notin ent.mask THEN PwMaxLife(s, q) ELSE q

Modify(s, id, ent) ==
    LET p == AdminFields(s, Entry(s, id), ent)
        q == IF "kvno" \in ent.mask
             THEN [p EXCEPT !.keys = [i \in DOMAIN @ |-> [@[i] EXCEPT !.kvno = ent.kvno]]] ELSE p
    IN  CASE ~ Found(s, id) -> Res("NotFound", s)
          [] <<"modify", id>> \in HookRefuses -> Res("Hook", s)
          [] "kvno" \in ent.mask /\ ent.kvno > MaxKvno -> Res("InvalidArgument", s)
          [] OTHER -> Done(Put(s, Canon(s, id), IF "fail" \in ent.mask THEN [q EXCEPT !.fail = 0] ELSE q))

(* admin_unlock_in *)
AdminUnlock(s, id, now) ==
    IF ~ Found(s, id) THEN Res("NotFound", s)
    ELSE Done(Put(s, Canon(s, id), [Entry(s, id) EXCEPT !.fail = 0, !.unlock = now]))

(* set_string_in *)
SetString(s, id, key, value) ==
    IF ~ Found(s, id) THEN Res("NotFound", s)
    ELSE Done(Put(s, Canon(s, id), [Entry(s, id) EXCEPT !.strings = {x \in @ : x[1] # key} \cup {<<key, v>> : v \in value}]))

-----------------------------------------------------------------------------
(* Policies: policy_floor_err, apply_policy_floors and merge_policy over   *)
(* [minLife, maxLife, minLength, minClasses, history, keysalts].           *)
PolicyFloorErr(pol, mask) ==
    \/ "minLife" \in mask /\ pol.minLife > pol.maxLife /\ pol.maxLife # 0
    \/ "minLength" \in mask /\ pol.minLength < 1
    \/ "minClasses" \in mask /\ pol.minClasses \notin 1 .. 5
    \/ "history" \in mask /\ pol.history < 1

MergePolicy(existing, rec, mask) ==
    [f \in DOMAIN existing |-> IF f \in mask THEN rec[f] ELSE existing[f]]

(* What a mask leaves out of a new policy is 0, or its floor. *)
NewPolicy(rec, mask) ==
    MergePolicy([minLife |-> 0, maxLife |-> 0, minLength |-> 1, minClasses |-> 1,
                 history |-> 1, keysalts |-> <<>>], rec, mask)

CreatePolicy(s, name, rec, mask) ==
    CASE name \in DOMAIN s.pol -> Res("AlreadyExists", s)
      [] PolicyFloorErr(NewPolicy(rec, mask), mask) -> Res("BadPolicy", s)
      [] OTHER -> Done([s EXCEPT !.pol = (name :> NewPolicy(rec, mask)) @@ @])

(* MODIFY_POLICY: merged is made before the change's lock is taken. *)
PutMerged(s, name, merged) ==
    IF name \notin DOMAIN s.pol THEN Res("NotFound", s) ELSE Done([s EXCEPT !.pol[name] = merged])

(* delete_policy: principals under it stay. *)
DeletePolicy(s, name) ==
    IF name \notin DOMAIN s.pol THEN Res("NotFound", s)
    ELSE Done([s EXCEPT !.pol = [n \in DOMAIN @ \ {name} |-> @[n]]])
=============================================================================
