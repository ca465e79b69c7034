------------------------------- MODULE CredStore -------------------------------
(***************************************************************************)
(* Credential caches shared by the commands of one user: the collections   *)
(* of krb5-client/src/ccol.rs over a directory (krb5-protocol/src/         *)
(* ccache_dir.rs, ccache.rs) or the KCM daemon (kcm.rs), and kinit, kvno,  *)
(* kdestroy and kswitch, each a process that reads the collection in one   *)
(* step and changes it in a later one.  A cache is absent, fresh (made by  *)
(* new_unique and not yet initialised) or held by a principal; a           *)
(* credential is [client, svc].                                            *)
(***************************************************************************)
EXTENDS Integers, Sequences, FiniteSets

CONSTANTS
    Kinds,    \* which collection types are tried: "FILE", "DIR", "KCM"
    Princs,
    Names,    \* the cache names, as integers: their order is the sorted one
    Procs,
    Commands, \* what a process may run: [cmd, me]
    Services,
    Begins    \* the contents the collection may begin with

VARIABLES
    kind,
    caches,   \* name -> cache
    primary,  \* the name in the directory's `primary' file, or KCM's default
    procs,    \* the processes
    disturbed \* history: processes that saw a collection changed since

vars == <<kind, caches, primary, procs, disturbed>>

Absent == [state |-> "absent", owner |-> "none", creds |-> {}]

Fresh == [Absent EXCEPT !.state = "fresh"]

Held(owner, creds) == [state |-> "held", owner |-> owner, creds |-> creds]

Tgt(client) == [client |-> client, svc |-> "krbtgt"]

Idle == [pc |-> "idle", cmd |-> "none", me |-> "none", out |-> 0, late |-> FALSE,
         switch |-> FALSE, cc |-> Absent, svc |-> "none", got |-> {}, wrote |-> "none"]

(* Another process is disturbed by a change between its two steps. *)
Change(p) == disturbed' = disturbed \cup {q \in Procs : q # p /\ procs[q].pc # "idle"}

Quiet == UNCHANGED disturbed

SetProc(p, c) == procs' = [procs EXCEPT ![p] = c]

End(p) == SetProc(p, [procs[p] EXCEPT !.pc = "ended"])

(* collection: the primary first, then the others in the order of their    *)
(* names; cache_match takes the first that belongs to the principal.       *)
Collection ==
    IF kind = "FILE" THEN {n \in {primary} : caches[n].state # "absent"}
    ELSE {n \in Names : caches[n].state # "absent"}

Matching(me) == {n \in Collection : caches[n].state = "held" /\ caches[n].owner = me}

CacheMatch(me) ==
    IF primary \in Matching(me) THEN primary
    ELSE CHOOSE n \in Matching(me) : \A m \in Matching(me) : n <= m

SupportsSwitch == kind \in {"DIR", "KCM"}

(* Mutant of Choose: no new cache is made for a principal without one. *)
ChooseDefault(c, me) ==
    IF SupportsSwitch /\ Matching(me) # {}
    THEN [c EXCEPT !.me = me, !.out = CacheMatch(me), !.switch = TRUE]
    ELSE [c EXCEPT !.me = me, !.out = primary, !.late = (kind = "DIR")]

(* k5_begin without -c: the cache of the principal, a new one when the     *)
(* default cache has an owner, or the default cache.  The last is kept by  *)
(* its collection's name for a directory, which is resolved again when the *)
(* credentials are stored (store_spec).                                    *)
Choose(c, me) ==
    CASE SupportsSwitch /\ Matching(me) # {} ->
            [c EXCEPT !.me = me, !.out = CacheMatch(me), !.switch = TRUE]
      [] SupportsSwitch /\ Matching(me) = {} /\ caches[primary].state = "held" ->
            [c EXCEPT !.me = me, !.out = 0, !.switch = TRUE]
      [] OTHER -> [c EXCEPT !.me = me, !.out = primary, !.late = (kind = "DIR")]

(* Without a principal the default cache's owner is taken. *)
BeginDefault(c) ==
    [c EXCEPT !.me = caches[primary].owner, !.out = primary, !.late = (kind = "DIR")]

NewUnique == {n \in Names : caches[n].state = "absent"}

Begun(p, c) ==
    IF c.out # 0 THEN SetProc(p, c) /\ UNCHANGED caches /\ Quiet
    ELSE \E n \in NewUnique :
            /\ caches' = [caches EXCEPT ![n] = Fresh]
            /\ SetProc(p, [c EXCEPT !.out = n])
            /\ Change(p)

KinitBegin(p, me) ==
    /\ procs[p].pc = "idle"
    /\ IF me = "default"
       THEN /\ caches[primary].state = "held"
            /\ SetProc(p, BeginDefault([Idle EXCEPT !.pc = "asking", !.cmd = "kinit"]))
            /\ UNCHANGED caches /\ Quiet
       ELSE Begun(p, Choose([Idle EXCEPT !.pc = "asking", !.cmd = "kinit"], me))
    /\ UNCHANGED <<kind, primary>>

(* The exchange failed: nothing is stored. *)
KinitFails(p) == procs[p].pc \in {"asking", "filling"} /\ End(p) /\ UNCHANGED <<kind, caches, primary>> /\ Quiet

Target(c) == IF c.late THEN primary ELSE c.out

Wrote(c) ==
    [c EXCEPT !.wrote = caches[Target(c)].owner,
              !.pc = IF kind = "KCM" THEN "filling" ELSE IF c.switch THEN "switching" ELSE "ended"]

(* store_ccache_keep_default: a file is written beside and renamed; KCM    *)
(* initialises the cache and is then given one credential at a time.       *)
KinitStore(p) ==
    /\ procs[p].pc = "asking"
    /\ caches' = [caches EXCEPT ![Target(procs[p])] =
                     Held(procs[p].me, IF kind = "KCM" THEN {} ELSE {Tgt(procs[p].me)})]
    /\ SetProc(p, Wrote(procs[p]))
    /\ Change(p)
    /\ UNCHANGED <<kind, primary>>

AddCred(n, cred) == [caches EXCEPT ![n].creds = @ \cup {cred}]

KcmFill(p) ==
    /\ procs[p].pc = "filling"
    /\ IF caches[procs[p].out].state = "held"
       THEN /\ caches' = AddCred(procs[p].out, Tgt(procs[p].me))
            /\ SetProc(p, [procs[p] EXCEPT !.pc = IF procs[p].switch THEN "switching" ELSE "ended"])
       ELSE UNCHANGED caches /\ End(p)
    /\ Change(p)
    /\ UNCHANGED <<kind, primary>>

KinitSwitch(p) ==
    /\ procs[p].pc = "switching"
    /\ primary' = procs[p].out
    /\ End(p)
    /\ Change(p)
    /\ UNCHANGED <<kind, caches>>

-----------------------------------------------------------------------------
(* OpenCache::open: a snapshot, read under the shared lock. *)
KvnoOpen(p, svc) ==
    /\ procs[p].pc = "idle"
    /\ caches[primary].state = "held"
    /\ SetProc(p, [Idle EXCEPT !.pc = "opened", !.cmd = "kvno", !.me = caches[primary].owner,
                               !.out = primary, !.cc = caches[primary], !.svc = svc])
    /\ UNCHANGED <<kind, caches, primary>> /\ Quiet

(* Mutant of Matches: the client of a credential is not compared. *)
MatchesAny(cc, me, svc) == {c \in cc.creds : c.svc = svc}

(* MatchCreds::matches for a lookup with a client *)
Matches(cc, me, svc) == {c \in cc.creds : c.client = me /\ c.svc = svc}

(* get_credentials: what the snapshot has, or a request with its TGT; the  *)
(* answer is kept by appending it to the file by its name.                 *)
KvnoLookup(p) ==
    /\ procs[p].pc = "opened"
    /\ SetProc(p,
          CASE Matches(procs[p].cc, procs[p].me, procs[p].svc) # {} ->
                 [procs[p] EXCEPT !.pc = "ended", !.cc = Absent, !.got = Matches(procs[p].cc, procs[p].me, procs[p].svc)]
            [] Matches(procs[p].cc, procs[p].me, procs[p].svc) = {}
               /\ Matches(procs[p].cc, procs[p].me, "krbtgt") # {} ->
                 [procs[p] EXCEPT !.pc = "storing", !.cc = Absent,
                                  !.got = {[t EXCEPT !.svc = procs[p].svc] :
                                              t \in Matches(procs[p].cc, procs[p].me, "krbtgt")}]
            [] OTHER -> [procs[p] EXCEPT !.pc = "ended", !.cc = Absent])
    /\ UNCHANGED <<kind, caches, primary>> /\ Quiet

(* fcc_store under the exclusive lock; a file that is gone, or one that    *)
(* has no header yet, keeps nothing, and the command goes on.              *)
KvnoStore(p) ==
    /\ procs[p].pc = "storing"
    /\ \E cred \in procs[p].got :
          caches' = IF caches[procs[p].out].state = "held" THEN AddCred(procs[p].out, cred) ELSE caches
    /\ End(p)
    /\ Change(p)
    /\ UNCHANGED <<kind, primary>>

(* kdestroy, kdestroy -p and kdestroy -A, which destroys what it listed. *)
Kdestroy(p, me) ==
    /\ procs[p].pc = "idle"
    /\ caches' = CASE me = "all" -> [n \in Names |-> IF n \in Collection THEN Absent ELSE caches[n]]
                   [] me = "default" -> [caches EXCEPT ![primary] = Absent]
                   [] OTHER -> IF Matching(me) = {} THEN caches
                               ELSE [caches EXCEPT ![CacheMatch(me)] = Absent]
    /\ SetProc(p, [Idle EXCEPT !.pc = "ended", !.cmd = "kdestroy"])
    /\ Change(p)
    /\ UNCHANGED <<kind, primary>>

Kswitch(p, me) ==
    /\ procs[p].pc = "idle"
    /\ primary' = IF SupportsSwitch /\ Matching(me) # {} THEN CacheMatch(me) ELSE primary
    /\ SetProc(p, [Idle EXCEPT !.pc = "ended", !.cmd = "kswitch"])
    /\ Change(p)
    /\ UNCHANGED <<kind, caches>>

-----------------------------------------------------------------------------
Init ==
    /\ kind \in Kinds
    /\ caches \in Begins
    /\ primary = 1
    /\ procs = [p \in Procs |-> Idle]
    /\ disturbed = {}

Run(p, c) ==
    \/ c.cmd = "kinit" /\ KinitBegin(p, c.me)
    \/ c.cmd = "kvno" /\ \E svc \in Services : KvnoOpen(p, svc)
    \/ c.cmd = "kdestroy" /\ Kdestroy(p, c.me)
    \/ c.cmd = "kswitch" /\ Kswitch(p, c.me)

Next ==
    \E p \in Procs :
        \/ \E c \in Commands : Run(p, c)
        \/ KinitFails(p) \/ KinitStore(p) \/ KcmFill(p) \/ KinitSwitch(p)
        \/ KvnoLookup(p) \/ KvnoStore(p)

Spec == Init /\ [][Next]_vars

(* A credential that kvno is given is one of the principal that owned the  *)
(* cache when it was opened, although a kinit for another principal may    *)
(* replace the cache before an earlier command appends to it, so that the  *)
(* file holds credentials of two clients (OpenCache::store, matches).      *)
LookupIsForClient == \A p \in Procs : \A c \in procs[p].got : c.client = procs[p].me

(* A kinit without -c, in a collection, replaces no cache that belongs to  *)
(* another principal, unless another command changed the collection after  *)
(* it chose its cache (k5_begin, cache_match, new_unique).                 *)
KinitKeepsOthers ==
    \A p \in Procs :
        SupportsSwitch /\ p \notin disturbed => procs[p].wrote \in {"none", procs[p].me}
=============================================================================
