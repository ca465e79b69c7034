------------------------------- MODULE Kadmin -------------------------------
(***************************************************************************)
(* Administration of one database by two processes: kadmind, which serves  *)
(* the kadm5 and password-change protocols in one loop                     *)
(* (krb5-admin/src/kadm5/dispatch.rs, listen.rs, kadmind.rs), and          *)
(* kadmin.local (krb5-admin/src/lib.rs), beside a KDC that counts failed   *)
(* logins in the lockout side file.                                        *)
(*                                                                         *)
(* A change to the store takes the database's exclusive lock, reads the    *)
(* database again, and writes it: one step.  What a request checks, and    *)
(* what it plans, it does before, on what it read then: a step of its own. *)
(***************************************************************************)
EXTENDS KadmStore
-----------------------------------------------------------------------------
(***************************************************************************)
(* The authentication of a call on a connection to kadmind                 *)
(* (krb5-admin/src/kadm5/rpc.rs, auth.rs, acceptor.rs): RPCSEC_GSS with    *)
(* its window of sequence numbers and AUTH_GSSAPI with its next number,    *)
(* each with the one context the connection holds.                         *)
(*                                                                         *)
(* A session is [gss, agss], sets of at most one context.  A message is    *)
(* made for the context of a token, a token being an AP-REQ: what it seals *)
(* or signs verifies under that context alone, and a token is accepted     *)
(* once (the replay cache of ReplayCache.tla) for the acceptor it names.   *)
(***************************************************************************)

CONSTANTS
    SeqWindow,  \* RPCSEC_SEQ_WINDOW, the 32 bits of the mask
    MaxSeq,     \* MAXSEQ
    SeqBits     \* 2^32, where AUTH_GSSAPI's numbers wrap

NoSession == [gss |-> {}, agss |-> {}]

(* A reply, the session after it, and whether the call was carried out. *)
Answer(reply, sess) == [reply |-> reply, sess |-> sess, ran |-> FALSE]

Ran(sess) == [reply |-> "done", sess |-> sess, ran |-> TRUE]

(* Mutant of SeqWindowOk: a number ahead of the last forgets the others.   *)
SeqWindowOkForgets(gd, seq) ==
    LET off == gd.seqlast - seq
    IN  IF off < 0
        THEN [ok |-> TRUE, gd |-> [gd EXCEPT !.seqlast = seq, !.mask = {0}]]
        ELSE [ok |-> off < SeqWindow /\ off \notin gd.mask,
              gd |-> IF off >= SeqWindow THEN gd ELSE [gd EXCEPT !.mask = @ \cup {off}]]

(* seq_window_ok; mask is the set of bits, each an offset from seqlast. *)
SeqWindowOk(gd, seq) ==
    LET off == gd.seqlast - seq
    IN  IF off < 0
        THEN [ok |-> TRUE,
              gd |-> [gd EXCEPT !.seqlast = seq,
                                !.mask = {0} \cup ({b - off : b \in @} \cap 0 .. (SeqWindow - 1))]]
        ELSE [ok |-> off < SeqWindow /\ off \notin gd.mask,
              gd |-> IF off >= SeqWindow THEN gd ELSE [gd EXCEPT !.mask = @ \cup {off}]]

(* check_rpcsec_auth, check_iprop_rpcsec_auth and check_auth_gssapi_names  *)
(* of the acceptor [name, realm] a token was for.                          *)
AcceptorServed(flavor, prog, acceptor, realm) ==
    /\ acceptor[2] = realm
    /\ Len(acceptor[1]) = 2
    /\ CASE flavor = "gss" /\ prog = "iprop" -> acceptor[1][1] = "kiprop"
         [] flavor = "gss" -> acceptor[1][1] = "kadmin" /\ acceptor[1][2] # "history"
         [] OTHER -> acceptor[1][1] = "kadmin" /\ acceptor[1][2] \in {"admin", "changepw"}

(* The body of a data call: clear, signed or sealed, as the context was    *)
(* set up, and opening with the number of the credential.                  *)
BodyOpens(gd, m) ==
    \/ gd.svc = "none"
    \/ m.token = gd.token /\ m.bodySeq = m.seq /\ (gd.svc = "privacy" => m.sealed)

(* rpcsec_dispatch, once the call is authentic. *)
RpcsecDispatch(sess, m, realm) ==
    IF ~ AcceptorServed("gss", m.prog, m.acceptor, realm) THEN Answer("weakauth", sess)
    ELSE IF ~ m.served THEN Answer("procUnavail", sess)
    ELSE Ran(sess)

(* handle_rpcsec_gss: the number is taken before anything is verified. *)
GssData(sess, gd, m, realm) ==
    IF m.token # gd.token THEN Answer("credProblem", sess)
    ELSE IF m.prog \notin {"kadm", "iprop"} THEN Answer("progUnavail", sess)
    ELSE IF ~ BodyOpens(gd, m) THEN Answer("garbage", sess)
    ELSE RpcsecDispatch(sess, m, realm)

GssDestroy(sess, gd, m) ==
    IF m.token = gd.token THEN Answer("destroyed", [sess EXCEPT !.gss = {}])
    ELSE Answer("credProblem", sess)

GssInit(sess, m, used) ==
    IF m.token \in used THEN Answer("rejectedCred", sess)
    ELSE Answer("accepted", [sess EXCEPT !.gss = {[token |-> m.token, seqlast |-> 0, mask |-> {}, svc |-> m.service]}])

GssCall(sess, m, used, realm) ==
    IF m.proc = "init" THEN GssInit(sess, m, used)
    ELSE IF sess.gss = {} THEN Answer("credProblem", sess)
    ELSE IF m.proc = "data" THEN GssData(sess, CHOOSE gd \in sess.gss : TRUE, m, realm)
    ELSE IF m.proc = "destroy" THEN GssDestroy(sess, CHOOSE gd \in sess.gss : TRUE, m)
    ELSE Answer("rejectedCred", sess)

InWindow(window, sess, m, used, realm) ==
    IF window # {} /\ m.seq > MaxSeq THEN Answer("ctxProblem", sess)
    ELSE IF \E w \in window : ~ w.ok THEN Answer("ctxProblem", [sess EXCEPT !.gss = {w.gd : w \in window}])
    ELSE GssCall([sess EXCEPT !.gss = {w.gd : w \in window}], m, used, realm)

HandleRpcsecGss(sess, m, used, realm) ==
    IF m.service \notin {"none", "integrity", "privacy"} THEN Answer("badCred", sess)
    ELSE InWindow({SeqWindowOk(gd, m.seq) : gd \in sess.gss}, sess, m, used, realm)

-----------------------------------------------------------------------------
(* agss_init: a token that is refused leaves a context that is not set up. *)
AgssInit(sess, m, used, realm, isn, expires) ==
    IF m.token \in used \/ ~ AcceptorServed("agss", "kadm", m.acceptor, realm)
    THEN Answer("rejectedCred", sess)
    ELSE Answer("accepted",
                [sess EXCEPT !.agss = {[token |-> {m.token}, isn |-> isn, seq |-> isn, expires |-> expires]}])

(* wrapping_add(1) of a u32. *)
WrappingNext(n) == IF n + 1 >= SeqBits THEN 0 ELSE n + 1

(* Mutant of AgssEstablished: a number ahead of the next will do. *)
AgssEstablishedAhead(sess, st, m) ==
    LET next == [sess EXCEPT !.agss = {[st EXCEPT !.seq = m.seq]}]
    IN  CASE {m.token} # st.token -> Answer("badVerf", sess)
          [] m.seq < st.seq -> Answer("rejectedVerf", sess)
          [] m.proc = "data" -> IF m.bodySeq = m.seq THEN Ran(next) ELSE Answer("garbage", next)
          [] OTHER -> Answer("authFailed", next)

(* agss_established and agss_dispatch: the next number is used up, and the *)
(* one after it by the reply.                                              *)
AgssEstablished(sess, st, m) ==
    LET next == [sess EXCEPT !.agss = {[st EXCEPT !.seq = WrappingNext(m.seq)]}]
    IN  IF {m.token} # st.token THEN Answer("badVerf", sess)
        ELSE IF m.seq # WrappingNext(st.seq) THEN Answer("rejectedVerf", sess)
        ELSE IF m.proc = "destroy" THEN Answer("destroyed", [sess EXCEPT !.agss = {}])
        ELSE IF m.proc # "data" THEN Answer("authFailed", next)
        ELSE IF ~ m.served THEN Answer("procUnavail", next)
        ELSE IF m.bodySeq # m.seq THEN Answer("garbage", next)
        ELSE Ran(next)

AgssCall(sess, m, used, realm, isn, expires) ==
    IF sess.agss = {} THEN Answer("badCred", sess)
    ELSE IF \A st \in sess.agss : st.token # {} THEN AgssEstablished(sess, CHOOSE st \in sess.agss : TRUE, m)
    ELSE IF m.proc = "init" THEN AgssInit(sess, m, used, realm, isn, expires)
    ELSE Answer("authFailed", sess)

(* svcauth_gssapi: what has expired goes first; an INIT starts over. *)
AgssHeld(agss, m, now) ==
    IF m.proc = "init" THEN {[token |-> {}, isn |-> 0, seq |-> 0, expires |-> now + 900]}
    ELSE {st \in agss : st.expires >= now}

SvcauthGssapi(sess, m, used, realm, now, isn, expires) ==
    AgssCall([sess EXCEPT !.agss = AgssHeld(@, m, now)], m, used, realm, isn, expires)

OfKadm(a, prog) == IF a.ran /\ prog # "kadm" THEN Answer("progUnavail", a.sess) ELSE a

(* handle_rpc: the other flavors carry no call out, and AUTH_GSSAPI        *)
(* carries out the calls of the kadm5 program alone.                       *)
HandleRpc(sess, m, used, realm, now, isn, expires) ==
    IF m.flavor = "gss" THEN HandleRpcsecGss(sess, m, used, realm)
    ELSE IF m.flavor = "agss" THEN OfKadm(SvcauthGssapi(sess, m, used, realm, now, isn, expires), m.prog)
    ELSE Answer("weakauth", sess)
-----------------------------------------------------------------------------

CONSTANTS
    Scenes,    \* what each behaviour starts from and may be asked
    MaxTime

ASSUME NumbersAssumption ==
    /\ SeqWindow \in Nat /\ SeqBits \in Nat /\ SeqBits > 2
    /\ \A sc \in Scenes : sc.numbers \subseteq 0 .. SeqBits - 1 /\ \A m \in sc.messages : m.seq \in Nat

VARIABLES
    scene,
    now,
    s,         \* the store, as the database holds it
    rows,      \* the side file: failures counted, by the name of the row
    work,      \* the request each process is at
    kdc,       \* a failed login the KDC has yet to record: {} or {[id, rid]}
    rpc,       \* the session of kadmind's one connection
    spent,     \* how much of the scene has been used, and the tokens accepted
    \* History, which no step reads:
    past,      \* the passwords a principal had, by RID, the newest last
    issued,    \* the keys made, as <<RID, kvno, etype, secret>>
    owed,      \* the failures counted against a principal since a reset
    ran        \* the calls carried out, as <<flavor, token, seq>>

vars == <<scene, now, s, rows, work, kdc, rpc, spent, past, issued, owed, ran>>

ghosts == <<past, issued, owed>>

Procs == {"kadmind", "local"}

Idle == [phase |-> "idle"]

(* Mutant of Lockdown: an alias is not followed. *)
LockdownDirect(t, id) == id \in DOMAIN t.db /\ "LOCKDOWN" \in t.db[id].attrs

(* KDB_LOCKDOWN_KEYS of the principal an id resolves to. *)
Lockdown(t, id) == Found(t, id) /\ "LOCKDOWN" \in Entry(t, id).attrs

-----------------------------------------------------------------------------
(* What dispatch_kadm5_ticket answers before it takes the lock, arm by arm *)
(* (changepw: the client's ticket is for kadmin/changepw, which is for its *)
(* own password and entry).  May says whether the modules authorise it.    *)
May(r, targets) == Combine(r.op, r.actor, targets)

IsSelf(t, r) == Found(t, r.id) /\ r.actor = Canon(t, r.id)

(* impose_request_restrictions, for CREATE and MODIFY. *)
Restricted(t, r, at) ==
    IF r.op \notin {"addprinc", "modprinc"} THEN r
    ELSE [r EXCEPT !.ent = FoldSet(LAMBDA rs, ent : Impose(rs, ent, at), @,
                                   CombineRestrict(r.op, r.actor, IF r.op = "addprinc" THEN r.id ELSE Canon(t, r.id)))]

(* create_princ_mask_err and modify_princ_mask_err, on what is imposed. *)
BadMask(r) ==
    \/ "policy" \in r.ent.mask /\ (r.ent.policy = {} \/ "policyClr" \in r.ent.mask)
    \/ r.op = "addprinc" /\ "fail" \in r.ent.mask

OrElse(code, next) == IF code # "Ok" THEN code ELSE next

(* An operation on the principal a name stands for, and no other check. *)
OfKnown(t, r, denied) ==
    CASE ~ Found(t, r.id) -> "UnkPrinc"
      [] denied \/ ~ May(r, <<Canon(t, r.id)>>) -> "Auth"
      [] OTHER -> "Ok"

GetPrincipal(t, r) == OfKnown(t, r, r.changepw /\ r.actor # r.id)

ListPrincipals(r) == IF r.changepw \/ ~ May(r, <<>>) THEN "Auth" ELSE "Ok"

DeletePrincipal(t, r) ==
    CASE r.changepw \/ ~ May(r, <<r.id>>) \/ Lockdown(t, r.id) -> "Auth"
      [] ~ Found(t, r.id) -> "UnkPrinc"
      [] OTHER -> "Ok"

ModifyPrincipal(t, r) ==
    OrElse(OfKnown(t, r, r.changepw),
    CASE "attrs" \in r.ent.mask /\ "LOCKDOWN" \notin r.ent.attrs /\ Lockdown(t, r.id) -> "Auth"
      [] BadMask(r) -> "BadMask"
      [] OTHER -> "Ok")

CreatePrincipal(t, r) ==
    CASE r.changepw \/ ~ May(r, <<r.id>>) -> "Auth"
      [] BadMask(r) -> "BadMask"
      [] Found(t, r.id) -> "Dup"
      [] OTHER -> "Ok"

RenamePrincipal(t, r) ==
    CASE r.changepw \/ ~ May(r, <<r.id, r.to>>) \/ Lockdown(t, r.id) -> "Auth"
      [] ~ Found(t, r.id) -> "UnkPrinc"
      [] Found(t, r.to) -> "Dup"
      [] OTHER -> "Ok"

OwnKeys(t, r, at) ==
    OrElse(OfKnown(t, r, r.changepw /\ ~ IsSelf(t, r)),
    CASE ~ IsSelf(t, r) -> "Ok"
      [] ~ r.initial -> "AuthInitial"
      [] TooSoon(t, r.id, at) -> "TooSoon"
      [] OTHER -> "Ok")

ChpassPrincipal(t, r, at) ==
    IF Lockdown(t, r.id) THEN "Auth" ELSE OwnKeys(t, r, at)

ChrandPrincipal(t, r, at) == OwnKeys(t, r, at)

WritePolicy(r) == IF r.changepw \/ ~ May(r, <<>>) THEN "Auth" ELSE "Ok"

CreatePolicyCall(t, r) ==
    OrElse(WritePolicy(r), IF r.policy \in DOMAIN t.pol THEN "Dup" ELSE "Ok")

DeletePolicyCall(t, r) ==
    OrElse(WritePolicy(r), IF r.policy \notin DOMAIN t.pol THEN "UnkPolicy" ELSE "Ok")

ModifyPolicyCall(t, r) ==
    OrElse(DeletePolicyCall(t, r),
           IF PolicyFloorErr(MergePolicy(t.pol[r.policy], r.rec, r.mask), r.mask) THEN "BadPolicy" ELSE "Ok")

GetPolicyUnder(t, r, own) ==
    CASE (r.changepw /\ r.policy \notin own) \/ ~ MayGetPol(r.actor, r.policy, own) -> "Auth"
      [] r.policy \notin DOMAIN t.pol -> "UnkPolicy"
      [] OTHER -> "Ok"

GetPolicyCall(t, r) ==
    GetPolicyUnder(t, r, IF Found(t, r.actor) THEN Entry(t, r.actor).policy ELSE {})

ListPolicies(r) == ListPrincipals(r)

ExtractKeys(t, r) ==
    IF Lockdown(t, r.id) THEN "Auth" ELSE OfKnown(t, r, r.changepw)

PurgeKeysCall(t, r) == OfKnown(t, r, r.changepw)

SetkeyPrincipal(t, r) ==
    IF Lockdown(t, r.id) THEN "Auth" ELSE OfKnown(t, r, r.changepw)

GetStrings(t, r) == OfKnown(t, r, r.changepw)

SetStringCall(t, r) ==
    OrElse(OfKnown(t, r, r.changepw), IF r.key = "" THEN "Failure" ELSE "Ok")

CreateAliasCall(r) == IF r.changepw \/ ~ May(r, <<r.id, r.to>>) THEN "Auth" ELSE "Ok"

(* r as Restricted leaves it. *)
Kadm5Refusal(t, r, at) ==
    CASE r.op = "getprinc" -> GetPrincipal(t, r)
      [] r.op = "listprincs" -> ListPrincipals(r)
      [] r.op = "delprinc" -> DeletePrincipal(t, r)
      [] r.op = "modprinc" -> ModifyPrincipal(t, r)
      [] r.op = "addprinc" -> CreatePrincipal(t, r)
      [] r.op = "renprinc" -> RenamePrincipal(t, r)
      [] r.op = "cpw" -> ChpassPrincipal(t, r, at)
      [] r.op = "chrand" -> ChrandPrincipal(t, r, at)
      [] r.op = "addpol" -> CreatePolicyCall(t, r)
      [] r.op = "delpol" -> DeletePolicyCall(t, r)
      [] r.op = "modpol" -> ModifyPolicyCall(t, r)
      [] r.op = "getpol" -> GetPolicyCall(t, r)
      [] r.op = "listpols" -> ListPolicies(r)
      [] r.op = "extract" -> ExtractKeys(t, r)
      [] r.op = "purgekeys" -> PurgeKeysCall(t, r)
      [] r.op = "setkey" -> SetkeyPrincipal(t, r)
      [] r.op = "getstrs" -> GetStrings(t, r)
      [] r.op = "setstr" -> SetStringCall(t, r)
      [] r.op = "addalias" -> CreateAliasCall(r)

(* handle_kpasswd_from: the client's own password, or another's by the ACL *)
(* under the name given.                                                   *)
KpasswdRefusal(t, r, at) ==
    CASE r.actor = r.id /\ ~ r.initial -> "InitialFlagNeeded"
      [] ~ Combine("cpw", r.actor, <<r.id>>) -> "AccessDenied"
      [] r.id[2] # Realm -> "HardError"
      [] Lockdown(t, r.id) -> "AccessDenied"
      [] r.actor = r.id /\ Found(t, r.id) /\ TooSoon(t, r.id, at) -> "SoftError"
      [] OTHER -> "Ok"

(* kadmin.local checks that the time has come of its own password alone. *)
LocalRefusal(t, r, at) ==
    IF r.op = "cpw" /\ r.actor = r.id /\ Found(t, r.id) /\ TooSoon(t, r.id, at) THEN "TooSoon" ELSE "Ok"

Refusal(p, t, r, at) ==
    CASE p = "local" -> LocalRefusal(t, r, at)
      [] r.op = "kpasswd" -> KpasswdRefusal(t, r, at)
      [] OTHER -> Kadm5Refusal(t, r, at)

(* clamp_self_keepold; the password-change protocol keeps none. *)
Keep(t, r) ==
    CASE ~ r.keepold \/ r.op = "kpasswd" -> 0
      [] IF r.op = "setkey" THEN r.actor = r.id ELSE IsSelf(t, r) -> 5
      [] OTHER -> 1

-----------------------------------------------------------------------------
(* What a request does under the lock, if it was not planned. *)
Carry(t, w, at) ==
    LET r == w.r
    IN  CASE r.op \in {"cpw", "kpasswd"} -> SetPassword(t, r.id, CHOOSE x \in r.pw : TRUE, r.ks, w.keep, at)
          [] r.op = "addprinc" -> Create(t, r.id, r.pw, r.ks, r.ent, at)
          [] r.op = "chrand" -> Chrand(t, r.id, r.ks, w.keep, at)
          [] r.op = "setkey" -> SetKeys(t, r.id, r.given, w.keep, at)
          [] r.op = "purgekeys" -> PurgeKeys(t, r.id, r.kvno)
          [] r.op = "modprinc" -> Modify(t, r.id, r.ent)
          [] r.op = "delprinc" -> RemovePrincipal(t, r.id)
          [] r.op = "renprinc" -> Rename(t, r.id, r.to)
          [] r.op = "addalias" -> CreateAlias(t, r.id, r.to, at)
          [] r.op = "setstr" -> SetString(t, r.id, r.key, r.value)
          [] r.op = "unlock" -> AdminUnlock(t, r.id, at)
          [] r.op = "addpol" -> CreatePolicy(t, r.policy, r.rec, r.mask)
          [] r.op = "modpol" -> PutMerged(t, r.policy, w.merged)
          [] r.op = "delpol" -> DeletePolicy(t, r.policy)

(* rename_row, and the rows of names that are gone dropped. *)
RenameRow(f, old, new) ==
    LET kept == [i \in DOMAIN f \ {old} |-> f[i]]
    IN  IF old \in DOMAIN f THEN (new :> f[old]) @@ kept ELSE f

(* Mutant of RowsAfter: a renamed principal's row is dropped, not moved. *)
RowsAfterDropped(f, t, r) ==
    CASE r.op \in {"delprinc", "renprinc"} -> [i \in DOMAIN f \ {r.id} |-> f[i]]
      [] OTHER -> f

(* What a request does to the side file, before the database is saved:     *)
(* zero_fail_count_in_file and rename_lockout_in_file; and after,          *)
(* reconcile_ids.                                                          *)
RowsAfter(f, t, r) ==
    CASE r.op \in {"cpw", "kpasswd", "chrand", "setkey", "unlock"}
            \/ (r.op = "modprinc" /\ "fail" \in r.ent.mask) -> (Canon(t, r.id) :> 0) @@ f
      [] r.op = "renprinc" -> RenameRow(f, r.id, r.to)
      [] r.op = "delprinc" -> [i \in DOMAIN f \ {r.id} |-> f[i]]
      [] OTHER -> f

Count(t, f, id) == IF id \in DOMAIN f THEN f[id] ELSE t.db[id].fail

-----------------------------------------------------------------------------
(* History of a change from t to u by the request r of the principal id.   *)
RidOf(t, id) == IF Found(t, id) THEN Entry(t, id).rid ELSE 0

Depth(t, id) == IF PolicyOf(t, Entry(t, id)) = {} THEN 0
                ELSE (CHOOSE q \in PolicyOf(t, Entry(t, id)) : TRUE).history

LastN(seq, n) == SubSeq(seq, IF Len(seq) > n THEN Len(seq) - n + 1 ELSE 1, Len(seq))

(* A password that is set counts; what else touches keys, names or the     *)
(* policy starts the record over.                                          *)
PastAfter(t, u, r) ==
    LET rid == RidOf(t, r.id)
        had == IF rid \in DOMAIN past THEN past[rid] ELSE <<>>
    IN  CASE r.op \in {"cpw", "kpasswd"} ->
                (rid :> LastN(Append(had, Entry(u, r.id).keys[1].secret), Depth(t, r.id))) @@ past
          [] r.op \in {"chrand", "setkey", "purgekeys", "modprinc", "renprinc"} -> (rid :> <<>>) @@ past
          [] OTHER -> past

IssuedBy(u) ==
    UNION {{<<u.db[i].rid, k.kvno, k.etype, k.secret>> : k \in Range(u.db[i].keys)} : i \in DOMAIN u.db}

(* A version number that an administrator sets, or frees by removing every *)
(* key, names what it names from then on.                                  *)
IssuedAfter(t, u, r) ==
    LET rid == RidOf(t, r.id)
        again == \/ r.op \in {"setkey"}
                 \/ r.op = "modprinc" /\ "kvno" \in r.ent.mask
                 \/ r.op = "purgekeys" /\ Entry(u, r.id).keys = <<>>
    IN  {x \in issued : ~ again \/ x[1] # rid} \cup IssuedBy(u)

OwedAfter(t, r) ==
    LET rid == RidOf(t, r.id)
    IN  IF RowsAfter(rows, t, r) # rows /\ r.op \notin {"renprinc", "delprinc"} THEN (rid :> 0) @@ owed ELSE owed

(* The store after a change that succeeded, and what follows from it. *)
Changed(u, r) ==
    /\ s' = u
    /\ rows' = RowsAfter(rows, s, r)
    /\ past' = PastAfter(s, u, r)
    /\ issued' = IssuedAfter(s, u, r)
    /\ owed' = OwedAfter(s, r)

(* A refusal under the lock; kadmin/history may be there nonetheless. *)
Refused(u) == s' = u /\ issued' = issued \cup IssuedBy(u) /\ UNCHANGED <<rows, past, owed>>

Ends(p, res, r) ==
    /\ work' = [work EXCEPT ![p] = Idle]
    /\ IF res.code = "Ok" THEN Changed(res.s, r) ELSE Refused(res.s)

-----------------------------------------------------------------------------
Init ==
    /\ scene \in Scenes
    /\ now = 1
    /\ s = scene.store
    /\ rows = <<>>
    /\ work = [p \in Procs |-> Idle]
    /\ kdc = {}
    /\ rpc = NoSession
    /\ spent = [requests |-> 0, tokens |-> {}]
    /\ past = <<>>
    /\ issued = IssuedBy(scene.store)
    /\ owed = <<>>
    /\ ran = <<>>

(* What a request is at once it has passed its checks. *)
Started(p, r) ==
    LET locked == {i \in DOMAIN s.db : Lockdown(s, i)}
        w == [phase |-> "commit", r |-> r, keep |-> Keep(s, r), locked |-> locked,
              plan |-> {}, merged |-> IF r.op = "modpol" THEN MergePolicy(s.pol[r.policy], r.rec, r.mask) ELSE {}]
        word == CHOOSE x \in r.pw : TRUE
    IN  CASE r.op \in {"cpw", "kpasswd"} /\ Found(s, r.id) /\ ~ CanStage(s, r.id) -> [w EXCEPT !.phase = "unplanned"]
          [] r.op \in {"cpw", "kpasswd"} ->
                IF ChpassRefusal(s, r.id, word, r.ks) # "Ok" THEN Idle
                ELSE [w EXCEPT !.phase = "planned", !.plan = {ChpassPlan(s, r.id, word, r.ks)}]
          [] p = "kadmind" /\ r.op = "addprinc" /\ r.pw # {} ->
                IF CreateRefusal(s, r.id, r.pw, r.ks, r.ent) # "Ok" THEN Idle
                ELSE [w EXCEPT !.phase = "planned", !.plan = {CreatePlan(s, r.id, r.pw, r.ks, r.ent, now)}]
          [] OTHER -> w

(* A request arrives: the checks, and the plan of a password's keys. *)
Begin(p) ==
    /\ work[p] = Idle
    /\ spent.requests < scene.requests
    /\ \E asked \in scene[p] :
       \E r \in {IF p = "kadmind" /\ (asked.op # "modprinc" \/ Found(s, asked.id))
                 THEN Restricted(s, asked, now) ELSE asked} :
             work' = [work EXCEPT ![p] = IF Refusal(p, s, r, now) # "Ok" THEN Idle ELSE Started(p, r)]
    /\ spent' = [spent EXCEPT !.requests = @ + 1]
    /\ UNCHANGED <<scene, now, s, rows, kdc, rpc, ghosts, ran>>

(* The plan no longer fits, or there was none: kadmind checks again, on    *)
(* the store as it is then, before it takes the lock.                      *)
CheckAgain(p, w) ==
    work' = [work EXCEPT ![p] = IF p # "local" /\ Refusal(p, s, w.r, now) # "Ok" THEN Idle
                                ELSE [w EXCEPT !.phase = "commit", !.keep = Keep(s, w.r), !.plan = {},
                                               !.locked = {i \in DOMAIN s.db : Lockdown(s, i)}]]

(* Under the lock: the plan is committed where what it was made from is as *)
(* it was.                                                                 *)
Apply(p) ==
    /\ work[p].phase = "planned"
    /\ \E w \in {work[p]} : \E plan \in w.plan :
           CASE w.r.op # "addprinc" /\ StillSame(s, plan) ->
                    Ends(p, CommitPassword(s, plan, w.keep, now), w.r)
             [] w.r.op = "addprinc" /\ CreateStillSame(s, plan) ->
                    Ends(p, CreateFinish(s, plan, now), w.r)
             [] OTHER -> CheckAgain(p, w) /\ UNCHANGED <<s, rows, ghosts>>
    /\ UNCHANGED <<scene, now, kdc, rpc, spent, ran>>

Recheck(p) ==
    /\ work[p].phase = "unplanned"
    /\ CheckAgain(p, work[p])
    /\ UNCHANGED <<scene, now, s, rows, kdc, rpc, spent, ghosts, ran>>

(* Under the lock: the whole of the request. *)
Commit(p) ==
    /\ work[p].phase = "commit"
    /\ IF work[p].r.op \in {"extract", "getprinc", "getpol", "getstrs", "listprincs", "listpols"}
       THEN work' = [work EXCEPT ![p] = Idle] /\ UNCHANGED <<s, rows, ghosts>>
       ELSE Ends(p, Carry(s, work[p], now), work[p].r)
    /\ UNCHANGED <<scene, now, kdc, rpc, spent, ran>>

(* The process is killed once it has written the row, before it saves the  *)
(* database.                                                               *)
Kill(p) ==
    /\ work[p].phase = "commit" /\ scene.kills
    /\ work[p].r.op \in {"renprinc", "unlock"}
    /\ Carry(s, work[p], now).code = "Ok"
    /\ rows' = RowsAfter(rows, s, work[p].r)
    /\ owed' = (RidOf(s, work[p].r.id) :> 0) @@ owed
    /\ work' = [work EXCEPT ![p] = Idle]
    /\ UNCHANGED <<scene, now, s, kdc, rpc, spent, past, issued, ran>>

(* The KDC looks a client up, and later records that it failed, in the row *)
(* of the name it had (record of lockout/file.rs).                         *)
Login ==
    /\ kdc = {} /\ spent.requests < scene.requests
    /\ \E id \in scene.logins : Found(s, id) /\ kdc' = {[id |-> Canon(s, id), rid |-> RidOf(s, id), count |-> Count(s, rows, Canon(s, id))]}
    /\ spent' = [spent EXCEPT !.requests = @ + 1]
    /\ UNCHANGED <<scene, now, s, rows, work, rpc, ghosts, ran>>

Record ==
    /\ \E c \in kdc :
         /\ rows' = (c.id :> (IF c.id \in DOMAIN rows THEN rows[c.id] ELSE c.count) + 1) @@ rows
         /\ owed' = IF RidOf(s, c.id) # c.rid THEN owed
                    ELSE (c.rid :> (IF c.rid \in DOMAIN owed THEN owed[c.rid] ELSE 0) + 1) @@ owed
    /\ kdc' = {}
    /\ UNCHANGED <<scene, now, s, work, rpc, spent, past, issued, ran>>

(* A record arrives on the connection: any that was ever sent, in any      *)
(* order and as often as may be.                                           *)
Call ==
    /\ \E m \in scene.messages, isn \in scene.numbers :
       \E a \in {HandleRpc(rpc, m, spent.tokens, Realm, now, isn, now + 1)} :
             /\ rpc' = a.sess
             /\ ran' = IF a.ran THEN Append(ran, <<m.flavor, m.token, m.seq>>) ELSE ran
             /\ spent' = IF a.reply = "accepted" THEN [spent EXCEPT !.tokens = @ \cup {m.token}] ELSE spent
    /\ UNCHANGED <<scene, now, s, rows, work, kdc, ghosts>>

Connect ==
    /\ scene.messages # {} /\ rpc # NoSession
    /\ rpc' = NoSession
    /\ UNCHANGED <<scene, now, s, rows, work, kdc, spent, ghosts, ran>>

Tick ==
    /\ now < MaxTime
    /\ now' = now + 1
    /\ UNCHANGED <<scene, s, rows, work, kdc, rpc, spent, ghosts, ran>>

Next ==
    \/ \E p \in Procs : Begin(p) \/ Apply(p) \/ Recheck(p) \/ Commit(p) \/ Kill(p)
    \/ Login \/ Record
    \/ Call \/ Connect
    \/ Tick

Spec == Init /\ [][Next]_vars

-----------------------------------------------------------------------------
Ended(p, ops) == work[p].phase # "idle" /\ work'[p] = Idle /\ work[p].r.op \in ops

Rekeyed1(p) == LET id == work[p].r.id
               IN  Found(s, id) /\ Found(s', id) /\ Entry(s', id).keys # Entry(s, id).keys

Word(r) == CHOOSE x \in r.pw : TRUE

Sooner(t, id) == [t EXCEPT !.db[id].pwExpire = 0]

(* A password change or a creation whose keys were derived before the lock *)
(* was taken does, when it commits, what the same request would do on the  *)
(* store as it is at that moment: no change made in between is lost, and   *)
(* none of its checks has stopped holding (apply_password, same_record,    *)
(* create_prepared).                                                       *)
StagedIsCurrent ==
    [][\A p \in Procs :
        (Ended(p, {"cpw", "kpasswd", "addprinc"}) /\ work[p].phase = "planned" /\ s' # s) =>
            LET r == work[p].r
            IN  /\ Refusal(p, s, r, now) = "Ok"
                /\ IF r.op = "addprinc"
                   THEN Sooner(s', r.id) = Sooner(Create(s, r.id, r.pw, r.ks, r.ent, now).s, r.id)
                   ELSE s' = SetPassword(s, r.id, Word(r), r.ks, work[p].keep, now).s]_vars

(* A password set under a policy of depth N is none of the N that came     *)
(* before it, whichever process set them, and whatever old keys were kept  *)
(* or purged meanwhile (check_password_quality_in, record_history).        *)
HistoryHolds ==
    [][\A p \in Procs : (Ended(p, {"cpw", "kpasswd"}) /\ Rekeyed1(p)) =>
            LET id == work[p].r.id
                rid == RidOf(s, id)
            IN  rid \in DOMAIN past =>
                    Entry(s', id).keys[1].secret \notin Range(LastN(past[rid], Depth(s, id)))]_vars

Secrets(t, id) == {k.secret : k \in Range(t.db[id].keys)}

(* kadmind never changes the keys of a principal that was under            *)
(* LOCKDOWN_KEYS when it last checked, but by a random key or a purge,     *)
(* never removes or renames it and never takes the attribute away, by any  *)
(* name of it; a planned password is refused under the lock itself.        *)
LockdownHolds ==
    [][\A id \in DOMAIN s.db :
        LET w == work["kadmind"]
        IN  /\ work'["kadmind"] # w /\ w.phase \in {"planned", "commit"}
            /\ "LOCKDOWN" \in s.db[id].attrs
            /\ w.phase = "planned" \/ id \in w.locked
            => /\ id \in DOMAIN s'.db
               /\ "LOCKDOWN" \in s'.db[id].attrs
               /\ Secrets(s', id) = Secrets(s, id) \/ w.r.op \in {"chrand", "purgekeys"}]_vars

(* The same of every password change, at the moment of the change.         *)
LockdownUnderLock ==
    [][\A id \in DOMAIN s.db :
        ("LOCKDOWN" \in s.db[id].attrs /\ Ended("kadmind", {"kpasswd"})) =>
            id \in DOMAIN s'.db /\ Secrets(s', id) = Secrets(s, id)]_vars

Obeys(p, rs, at) ==
    /\ rs.attrs => rs.require \ rs.forbid \subseteq p.attrs /\ rs.forbid \cap p.attrs = {}
    /\ rs.clearPolicy => p.policy = {}
    /\ ~ rs.clearPolicy /\ rs.policy # {} => p.policy = rs.policy
    /\ \A l \in rs.maxLife : p.maxLife <= l
    /\ \A l \in rs.maxRlife : p.maxRlife <= l
    /\ \A d \in rs.expire : p.expire <= at + d

(* A principal that kadmind has just created or modified keeps to the      *)
(* restrictions of the ACL line its administrator is allowed by            *)
(* (Restrictions::impose, combine_restrict).                               *)
RestrictionsHold ==
    [][(Ended("kadmind", {"addprinc", "modprinc"}) /\ s' # s) =>
            LET r == work["kadmind"].r
            IN  \A rs \in CombineRestrict(r.op, r.actor, IF r.op = "addprinc" THEN r.id ELSE Canon(s, r.id)) :
                    Obeys(Entry(s', r.id), rs, now)]_vars

(* The salt the KDC names to a client for a key that was derived from a    *)
(* password is the salt it was derived with, renames included              *)
(* (key_salt, specialize_salts).                                           *)
KeysMatchSalts ==
    \A id \in DOMAIN s.db : \A k \in Range(s.db[id].keys) :
        k.secret[1] # "random" => k.secret[2] = KeySalt(k, id)

(* A version number of a principal names one key of an enctype ever, but   *)
(* where an administrator sets it or removes every key (next_kvno).        *)
VersionsNameKeys ==
    \A x, y \in issued : (x[1] = y[1] /\ x[2] = y[2] /\ x[3] = y[3]) => x[4] = y[4]

(* A failure the KDC counted against a principal stays counted until the   *)
(* count is reset or a process is killed between its row and its save,     *)
(* through renames and failures recorded late (rename_row, record).        *)
NoFailureForgotten ==
    \A id \in DOMAIN s.db : s.db[id].rid \in DOMAIN owed => Count(s, rows, id) >= owed[s.db[id].rid]

(* Whatever is repeated, lost or reordered on the connection, no call is   *)
(* carried out twice (seq_window_ok, agss_established).                    *)
CallsRunOnce == IsInjective(ran)


(* An administrator stays within what LOCKDOWN_KEYS and the line of the    *)
(* ACL leave it (LockdownHolds and RestrictionsHold).                      *)
RightsHold == LockdownHolds /\ RestrictionsHold
=============================================================================
