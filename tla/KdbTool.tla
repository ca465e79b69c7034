------------------------------- MODULE KdbTool -------------------------------
(***************************************************************************)
(* kdb5_util and open_or_create on the files of one realm: the principal   *)
(* database, the stash with its master key, and a dump                     *)
(* (krb5-kdc/src/bin/krb5-kdb.rs, create.rs, persist.rs, kdb_dump.rs and   *)
(* store/rid.rs).  A command is a sequence of writes and may be killed     *)
(* between two of them.                                                    *)
(*                                                                         *)
(* A database or a dump is [kind, key, km, rows, hwm, seen]: what kind of  *)
(* file it is (of a dump, its version), the master key its key data is     *)
(* under, whether it holds K/M, its rows, the next RID kept on K/M, and    *)
(* the largest RID of any of its records, those of rows deleted since in   *)
(* the journal included.  A row is the text of one record.  The   *)
(* rows that every realm has (K/M, krbtgt, kadmin) stand for themselves:   *)
(* their RIDs lie below FirstRid.  Locks are the subject of DbLock and     *)
(* PrincipalDb, the update log of Ulog; kdc.conf and the options that      *)
(* only choose a file are left out.                                        *)
(***************************************************************************)
EXTENDS Integers, Sequences, FiniteSets, SequencesExt

CONSTANTS
    Modes,      \* "tool": kdb5_util is run; "library": only open_or_create
    Order,      \* the principals beside the realm's own, as a dump sorts them
    Keys,       \* the master keys an operator's passwords give
    FirstRid,   \* RID_FIRST_USER, past the realm's own rows
    MaxRid,     \* bound: the largest RID given
    Foreign,    \* dumps that come from elsewhere
    Legacy,     \* databases of the older kinds KDB1 to KDB3
    MaxKills    \* bound: commands killed

VARIABLES
    mode,    \* who works on the files
    db,      \* the database file
    stash,   \* the stash file
    dump,    \* the dump file
    cmd,     \* the command that runs, or how the last one ended
    held,    \* the RIDs given since the database was created or loaded
    kills

vars == <<mode, db, stash, dump, cmd, held, kills>>

None == "none"
Names == ToSet(Order)

(* realm_rows: a new realm holds its own rows and no other. *)
NoRows == [n \in {} |-> n]

File(kind) == [kind |-> kind, key |-> None, km |-> FALSE, rows |-> NoRows, hwm |-> 0,
               seen |-> 0]
Idle == [op |-> None, pc |-> "idle", key |-> None, stash |-> FALSE, ok |-> TRUE]

-----------------------------------------------------------------------------
(* The record of a principal.  kadm is the policy of its TL_KADM_DATA      *)
(* ("bare" when that names none), policy an older TL_KERBER_POLICY, extra  *)
(* the other tagged data.                                                  *)
Row(rid) == [rid |-> rid, alias |-> FALSE, life |-> 1, kadm |-> None, policy |-> None, extra |-> {}]

(* DumpPrincipal::into_principal: what the store holds of the record. *)
BoundPolicy(r) == IF r.kadm \in {None, "bare"} THEN r.policy ELSE r.kadm

IntoPrincipal(r) ==
    [rid |-> r.rid, alias |-> r.alias, life |-> r.life, kadm |-> r.kadm, policy |-> r.policy,
     pw |-> BoundPolicy(r), names |-> r.extra \cap {"to", "from"},
     attrs |-> r.extra \cap {"string"}, hist |-> r.extra \cap {"hist"},
     tl |-> r.extra \ {"to", "from"}]

(* Mutant of MergeKadm: the older record goes, the new one is not made. *)
MergeKadmLost(p) == [kadm |-> p.kadm, policy |-> IF p.kadm = None THEN None ELSE p.policy]

(* merge_kadm_tl: a policy of the older record moves to TL_KADM_DATA. *)
MergeKadm(p) ==
    IF p.kadm # None \/ p.pw = None THEN [kadm |-> p.kadm, policy |-> p.policy]
    ELSE [kadm |-> p.pw, policy |-> None]

(* merge_s4u_tl, merge_string_attrs_tl and merge_hist_tl put back what     *)
(* into_principal took; database arguments and the replica's serial go.    *)
MergeS4u(tl, p) == (tl \ {"to", "from"}) \cup p.names
MergeStringAttrs(tl, p) == (tl \ {"string"}) \cup p.attrs
MergeHist(tl, p) == (tl \ {"hist"}) \cup p.hist

MergeTl(p) ==
    MergeHist(MergeStringAttrs(MergeS4u(p.tl \ {"dbargs", "serial"}, p), p), p)

Record(p, m) ==
    [rid |-> p.rid, alias |-> p.alias, life |-> IF p.alias THEN 0 ELSE p.life,
     kadm |-> m.kadm, policy |-> m.policy, extra |-> MergeTl(p)]

WritePrincRecord(p) == Record(p, MergeKadm(p))

-----------------------------------------------------------------------------
Rids(rows) == {rows[n].rid : n \in DOMAIN rows} \ {0}
MaxOf(S) == Max(S \cup {0})

(* bump_next_rid *)
Bump(next, rid) == IF rid >= next THEN rid + 1 ELSE next

(* settle_rid: a row without a RID, as MIT's have none, takes the next. *)
SettleRid(st, n) ==
    IF n \notin DOMAIN st.rows \/ (st.rows[n].rid = 0 /\ st.rows[n].alias) THEN st
    ELSE IF st.rows[n].rid = 0
    THEN [rows |-> [st.rows EXCEPT ![n].rid = st.next], next |-> st.next + 1]
    ELSE [st EXCEPT !.next = Bump(@, st.rows[n].rid)]

(* DumpFile::into_store: the rows one by one; only then does the next RID  *)
(* rise above the one kept on K/M and that of every record of the file.    *)
Raise(st, f) == [st EXCEPT !.next = Max({@, f.hwm, f.seen + 1})]

Settled(f) ==
    FoldLeft(SettleRid, [rows |-> [n \in DOMAIN f.rows |-> IntoPrincipal(f.rows[n])],
                         next |-> FirstRid], Order)

(* parse_plain of an older database: the next RID is the one it kept. *)
ParsePlain(st, f) == [st EXCEPT !.next = IF f.hwm >= FirstRid THEN f.hwm ELSE @]

IntoStore(f) ==
    IF f.kind = "legacy" THEN ParsePlain(Settled(f), f) ELSE Raise(Settled(f), f)

(* Mutant of Whole: the next RID is the one after the rows that are left. *)
WholeNow(key, rows, next) ==
    [kind |-> "db", key |-> key, km |-> TRUE,
     rows |-> [n \in DOMAIN rows |-> WritePrincRecord(rows[n])], 
     hwm |-> MaxOf(Rids(rows)) + 1, seen |-> MaxOf(Rids(rows))]

(* write_dump: the whole store, K/M with the next RID; K/M is made anew    *)
(* when the store has none.                                                *)
Whole(key, rows, next) ==
    [kind |-> "db", key |-> key, km |-> TRUE,
     rows |-> [n \in DOMAIN rows |-> WritePrincRecord(rows[n])],
     hwm |-> next, seen |-> MaxOf(Rids(rows))]

WholeStore(key, st) == Whole(key, st.rows, st.next)

(* check_openable and db_format: a file just created, or one that destroy  *)
(* has zeroed, is no database.                                             *)
IsDb(f) == f.kind \in {"db", "legacy"}

(* into_store's refusals: a RID on two rows, database arguments. *)
Duplicate(rows) ==
    \E m, n \in DOMAIN rows : m # n /\ rows[m].rid = rows[n].rid /\ rows[m].rid # 0

Refused(f) == Duplicate(f.rows) \/ \E n \in DOMAIN f.rows : "dbargs" \in f.rows[n].extra

(* Every key of the file is under `key`: K/M first, then each row. *)
Opens(f, key) == (f.km \/ DOMAIN f.rows # {}) => f.key = key

(* DumpFile::realm: the first row names the realm. *)
HasRealm(f) == f.km \/ DOMAIN f.rows # {}

(* read_store with the stash *)
Opened == IsDb(db) /\ stash # None /\ HasRealm(db) /\ Opens(db, stash) /\ ~ Refused(db)

-----------------------------------------------------------------------------
Init ==
    /\ mode \in Modes
    /\ db \in {File("none")} \cup Legacy
    /\ stash = db.key /\ cmd = Idle /\ held = Rids(db.rows) /\ kills = 0
    /\ dump \in Foreign /\ (mode = "library" => dump.kind = "none")

At(op, pc) == cmd.op = op /\ cmd.pc = pc
Goto(pc) == cmd' = [cmd EXCEPT !.pc = pc]
Ends(ok) == cmd' = [cmd EXCEPT !.pc = "idle", !.ok = ok, !.key = None]
Begin(op, pc, key, s) ==
    /\ cmd.pc = "idle"
    /\ cmd' = [op |-> op, pc |-> pc, key |-> key, stash |-> s, ok |-> FALSE]

(* run: the commands that need the database first fetch its master key,    *)
(* from the stash or as typed; one that does not open K/M is put aside     *)
(* with a warning and the command ends in failure.                         *)
ReadStashKey == IF stash = None THEN {} ELSE {stash}
FetchMkey(key) == IsDb(db) /\ db.km /\ db.key = key

-----------------------------------------------------------------------------
(* kdb5_util create [-s]: an existing file is refused, whatever it holds. *)
Create(key, s) ==
    /\ mode = "tool" /\ Begin("create", "made", key, s)
    /\ db.kind = "none" /\ db' = File("empty")
    /\ UNCHANGED <<mode, stash, dump, held, kills>>

(* create_store's write, which replaces the file just made *)
CreateStore ==
    /\ At("create", "made") /\ Goto("written")
    /\ db' = Whole(cmd.key, NoRows, FirstRid) /\ held' = {}
    /\ UNCHANGED <<mode, stash, dump, kills>>

(* Mutant of CreateStash: a stash that is there is kept. *)
CreateStashKept ==
    /\ At("create", "written") /\ Goto("stashed")
    /\ stash' = IF cmd.stash /\ stash = None THEN cmd.key ELSE stash
    /\ UNCHANGED <<mode, db, dump, held, kills>>

CreateStash ==
    /\ At("create", "written") /\ Goto("stashed")
    /\ stash' = IF cmd.stash THEN cmd.key ELSE stash
    /\ UNCHANGED <<mode, db, dump, held, kills>>

(* kadm5_create saves the kadmin rows; without -s the stash file goes. *)
Kadm5Create ==
    /\ At("create", "stashed") /\ Goto("filled")
    /\ db' = WholeStore(db.key, IntoStore(db))
    /\ UNCHANGED <<mode, stash, dump, held, kills>>

CreateEnds ==
    /\ At("create", "filled") /\ Ends(TRUE)
    /\ stash' = IF cmd.stash THEN stash ELSE None
    /\ UNCHANGED <<mode, db, dump, held, kills>>

-----------------------------------------------------------------------------
(* open_or_create with a database: it is opened with the stash and the     *)
(* rows it lacks are added.                                                *)
OpenExisting ==
    /\ cmd.pc = "idle" /\ db.kind # "none"
    /\ cmd' = [Idle EXCEPT !.op = "open", !.ok = Opened]
    /\ UNCHANGED <<mode, db, stash, dump, held, kills>>

(* Mutant of OpenOrCreate: always a new key. *)
OpenOrCreateFresh(key) ==
    /\ db.kind = "none" /\ Begin("open", "keyed", key, TRUE)
    /\ UNCHANGED <<mode, db, stash, dump, held, kills>>

(* Without one: the key of a stash left by an earlier try, or a new one. *)
OpenOrCreate(key) ==
    /\ db.kind = "none"
    /\ Begin("open", "keyed", IF stash = None THEN key ELSE stash, TRUE)
    /\ UNCHANGED <<mode, db, stash, dump, held, kills>>

(* create_database: a stash that is there must hold this key. *)
CreateDatabase ==
    /\ At("open", "keyed")
    /\ Goto(IF stash \in {None, cmd.key} THEN "stashed" ELSE "idle")
    /\ stash' = IF stash = None THEN cmd.key ELSE stash
    /\ UNCHANGED <<mode, db, dump, held, kills>>

(* commit_store: the database is written beside, then renamed.  The file   *)
(* beside is cleared by the next try.                                      *)
CommitStore ==
    /\ At("open", "stashed") /\ Ends(TRUE)
    /\ db' = Whole(cmd.key, NoRows, FirstRid) /\ held' = {}
    /\ UNCHANGED <<mode, stash, dump, kills>>

-----------------------------------------------------------------------------
(* kdb5_util destroy: zeroed, then removed; the stash stays. *)
DestroyFile ==
    /\ mode = "tool" /\ db.kind # "none" /\ Begin("destroy", "zeroed", None, FALSE)
    /\ db' = File("zeroed")
    /\ UNCHANGED <<mode, stash, dump, held, kills>>

Destroy ==
    /\ At("destroy", "zeroed") /\ Ends(TRUE)
    /\ db' = File("none")
    /\ UNCHANGED <<mode, stash, dump, held, kills>>

(* kdb5_util stash: the key of the stash, or the one typed when that does  *)
(* not open K/M.                                                           *)
Stash(key) ==
    /\ mode = "tool" /\ cmd.pc = "idle" /\ FetchMkey(key)
    /\ stash' = IF FetchMkey(stash) THEN stash ELSE key
    /\ cmd' = [Idle EXCEPT !.op = "stash"]
    /\ UNCHANGED <<mode, db, dump, held, kills>>

(* name_matches *)
NameMatches(rows, names) == [n \in DOMAIN rows \cap names |-> rows[n]]

(* read_db_text: the records as they stand in the file, the journal folded *)
(* in; those of an older database as they would be written.                *)
DbText == IF db.kind = "legacy" THEN WholeStore(db.key, IntoStore(db)) ELSE db

(* kdb5_util dump of all rows or of some names. *)
DumpSome(version, names) ==
    /\ mode = "tool" /\ cmd.pc = "idle" /\ IsDb(db) /\ cmd' = [Idle EXCEPT !.op = "dump"]
    /\ \E f \in {DbText} : \E rows \in {NameMatches(f.rows, names)} :
          dump' = [kind |-> version, key |-> f.key, km |-> f.km /\ names = Names,
                   rows |-> rows, hwm |-> IF names = Names THEN f.hwm ELSE 0,
                   seen |-> MaxOf(Rids(rows))]
    /\ UNCHANGED <<mode, db, stash, held, kills>>

(* dump_version: the header must be the one asked for. *)
DumpVersion(version) == dump.kind = version

(* parse_dump: a dump that is cut or garbled is refused as a whole. *)
ParseDump(f) == ~ Refused(f) /\ \A n \in DOMAIN f.rows : "garbled" \notin f.rows[n].extra

(* load_master_key: the key typed, or the stash's; it must open the dump. *)
LoadKeys(typed) == IF typed = None THEN ReadStashKey ELSE {typed}

LoadMasterKey(typed) == {k \in LoadKeys(typed) : Opens(dump, k)}

(* kdb5_util load: the store of the dump is written beside; promote puts   *)
(* it in place of whatever is there.                                       *)
Load(version, typed) ==
    /\ mode = "tool" /\ DumpVersion(version) /\ ParseDump(dump) /\ HasRealm(dump)
    /\ \E k \in LoadMasterKey(typed) : Begin("load", "written", k, typed = None)
    /\ UNCHANGED <<mode, db, stash, dump, held, kills>>

(* load_policies_only: a dump without principals replaces the database by  *)
(* one that has none.                                                      *)
LoadPoliciesOnly(version) ==
    /\ mode = "tool" /\ cmd.pc = "idle" /\ DumpVersion(version) /\ ~ HasRealm(dump)
    /\ cmd' = [Idle EXCEPT !.op = "load"]
    /\ db' = File("db") /\ held' = {}
    /\ UNCHANGED <<mode, stash, dump, kills>>

Promote ==
    /\ At("load", "written") /\ Ends(TRUE)
    /\ db' = WholeStore(cmd.key, IntoStore(dump))
    /\ held' = Rids(db'.rows)
    /\ UNCHANGED <<mode, stash, dump, kills>>

(* load -update: update_store puts each row of the dump, and one whose RID *)
(* another row holds refuses the whole update; the database must open with *)
(* the dump's key.                                                         *)
PutPrincipal(st, n, new) ==
    IF n \notin DOMAIN new THEN st
    ELSE [rows |-> [m \in DOMAIN st.rows \cup {n} |-> IF m = n THEN new[n] ELSE st.rows[m]],
          next |-> Bump(st.next, new[n].rid),
          ok |-> st.ok /\ \A m \in DOMAIN st.rows \ {n} :
                             new[n].rid # 0 => st.rows[m].rid # new[n].rid]

UpdateStore(st, new) ==
    FoldLeft(LAMBDA acc, n : PutPrincipal(acc, n, new),
             [rows |-> st.rows, next |-> st.next, ok |-> TRUE], Order)

(* DbUpdate::open and store: an empty file stands for a store without rows. *)
Updatable(key) ==
    \/ db.kind = "empty"
    \/ IsDb(db) /\ HasRealm(db) /\ Opens(db, key) /\ ~ Refused(db)

LoadUpdate(version, typed) ==
    /\ mode = "tool" /\ cmd.pc = "idle" /\ DumpVersion(version) /\ ParseDump(dump)
    /\ HasRealm(dump)
    /\ \E k \in LoadMasterKey(typed) :
          /\ Updatable(k) /\ cmd' = [Idle EXCEPT !.op = "update", !.stash = typed = None]
          /\ \E st \in {UpdateStore(IntoStore(db), IntoStore(dump).rows)} :
                st.ok /\ db' = WholeStore(k, st)
    /\ held' = (IF IsDb(db) THEN held ELSE {}) \cup Rids(db'.rows)
    /\ UNCHANGED <<mode, stash, dump, kills>>

-----------------------------------------------------------------------------
(* A change by kadmin.local or kadmind under the stash's key: appended to  *)
(* the journal, or the whole store when the plan of append_plan fails.     *)
Appended(st, n, seen) ==
    [db EXCEPT !.rows = [m \in (DOMAIN @ \cup {n}) \cap DOMAIN st.rows |->
                            IF m = n THEN WritePrincRecord(st.rows[n]) ELSE @[m]],
               !.seen = Max({@, seen})]

(* append_plan: an older database is never appended to. *)
Saved(st, n, seen) ==
    db' \in {WholeStore(db.key, st)} \cup
           (IF db.kind = "legacy" THEN {} ELSE {Appended(st, n, seen)})

(* create_principal: settle_rid and alloc_rid give the next RID. *)
Given(st, n) ==
    [rows |-> [m \in DOMAIN st.rows \cup {n} |->
                  IF m = n THEN IntoPrincipal(Row(st.next)) ELSE st.rows[m]],
     next |-> st.next + 1]

AddPrincipal(n) ==
    /\ cmd.pc = "idle" /\ Opened /\ n \notin DOMAIN db.rows
    /\ cmd' = [Idle EXCEPT !.op = "add"]
    /\ \E st \in {IntoStore(db)} :
          st.next <= MaxRid /\ Saved(Given(st, n), n, st.next) /\ held' = held \cup {st.next}
    /\ UNCHANGED <<mode, stash, dump, kills>>

DeletePrincipal(n) ==
    /\ cmd.pc = "idle" /\ Opened /\ n \in DOMAIN db.rows
    /\ cmd' = [Idle EXCEPT !.op = "delete"]
    /\ \E st \in {IntoStore(db)} :
          Saved([st EXCEPT !.rows = [m \in DOMAIN @ \ {n} |-> @[m]]], n, 0)
    /\ UNCHANGED <<mode, stash, dump, held, kills>>

(* A kill leaves the files as they are. *)
Kill ==
    /\ cmd.pc # "idle" /\ kills < MaxKills
    /\ kills' = kills + 1 /\ cmd' = [Idle EXCEPT !.ok = FALSE]
    /\ UNCHANGED <<mode, db, stash, dump, held>>

Versions == {"7", "iprop"}

Steps ==
    \/ CreateStore \/ CreateStash \/ Kadm5Create \/ CreateEnds
    \/ CreateDatabase \/ CommitStore \/ Destroy \/ Promote

Next ==
    \/ Steps \/ Kill \/ OpenExisting \/ DestroyFile
    \/ \E key \in Keys : \E s \in BOOLEAN : Create(key, s)
    \/ \E key \in Keys : OpenOrCreate(key) \/ Stash(key)
    \/ \E version \in Versions :
          \/ \E names \in {Names} \cup {{n} : n \in Names} : DumpSome(version, names)
          \/ LoadPoliciesOnly(version)
          \/ \E typed \in Keys \cup {None} : Load(version, typed) \/ LoadUpdate(version, typed)
    \/ \E n \in Names : AddPrincipal(n) \/ DeletePrincipal(n)

Spec == Init /\ [][Next]_vars

-----------------------------------------------------------------------------
(* The database and the stash stay together.  A command that ends well and *)
(* took or left its key in the stash leaves a database that the stash      *)
(* opens; and where only open_or_create makes the files it never fails,    *)
(* however often it was killed before.                                     *)
StashOpens ==
    /\ cmd.pc = "idle" /\ cmd.ok /\ cmd.stash => Opened
    /\ cmd.pc = "idle" /\ cmd.op = "open" /\ mode = "library" => cmd.ok

(* No two rows of the database carry one RID, whatever was loaded. *)
RidsStayApart == IsDb(db) => ~ Duplicate(db.rows)

(* A RID is given once: no two rows share one, and the RID of a new        *)
(* principal was on no row since the database was created or loaded, the   *)
(* deleted ones included, whichever of them the journal, a rewrite or an   *)
(* update brought.                                                         *)
NewRows == DOMAIN db'.rows \ DOMAIN db.rows

RidStep ==
    IsDb(db) /\ IsDb(db') /\ cmd'.op = "add" => \A n \in NewRows : db'.rows[n].rid \notin held

RidsAreFresh ==
    /\ []RidsStayApart
    /\ [][RidStep]_vars

(* A row means the same after the whole database was written again as      *)
(* before, and after a load as in the dump, whatever its tagged data; only *)
(* a row that came without a RID has one then.                             *)
Meaning(r) == [alias |-> r.alias, life |-> r.alias \/ r.life = 1, pw |-> BoundPolicy(r),
               extra |-> r.extra \ {"serial"}]

Kept(from, to) ==
    \A n \in DOMAIN from \cap DOMAIN to :
       Meaning(from[n]) = Meaning(to[n]) /\ to[n].rid \in {from[n].rid} \cup
          (IF from[n].rid = 0 THEN {to[n].rid} ELSE {})

RewriteStep ==
    /\ cmd'.op \in {"create", "add", "delete"} => Kept(db.rows, db'.rows)
    /\ cmd'.op \in {"load", "update"} /\ db' # db => Kept(dump.rows, db'.rows)

RewritesKeepRows == [][RewriteStep]_vars

(* A dump keeps the next RID above every RID its database held. *)
DumpKeepsNextRid ==
    [][cmd'.op = "dump" /\ dump'.km => \A rid \in held : rid < IntoStore(dump').next]_vars
=============================================================================
