---------------------------- MODULE MCReplayCache ----------------------------
(***************************************************************************)
(* What the servers remember, one scene each: the replay cache with three  *)
(* tags, two skews of which one is zero, and room for two; the lookaside   *)
(* cache with three requests and room for two short replies, where the     *)
(* long reply is larger than the whole cache; the update log; and the      *)
(* database with its stash and dumps under kdb5_util.  The caches of the   *)
(* other scenes stay empty.                                                *)
(***************************************************************************)
EXTENDS ReplayCache, TLC

CONSTANTS k1, k2, k3, empty

VARIABLES
    scene,
    la, inFlight, clock,                     \* Lookaside
    v1, v2, v3, v4, v5, v6, v7, v8, v9, v10, v11 \* what the other scenes share

caches == <<vars, la, inFlight, clock>>
vs == <<v1, v2, v3, v4, v5, v6, v7, v8, v9, v10, v11>>

MCKeys == {k1, k2, k3}
MCSkews == {0, 1}
MCTimes == {1}
Symmetry == Permutations(MCKeys)

La == INSTANCE Lookaside WITH
    Keys <- MCKeys, Replies <- {1, 4}, Empty <- empty, MaxSize <- 4, Stale <- 1,
    MaxTime <- 2, MaxSeq <- 6, now <- clock

(* A ring of three entries whose serial numbers end at four.  From 1 the   *)
(* ring's first entry is overwritten, from 2 the serials start over.       *)
Ul == INSTANCE Ulog WITH
    Begins <- {1, 2}, Entries <- 3, MaxSno <- 4, MaxClock <- 6, MaxVer <- 4,
    hdr <- v1, slot <- v2, ver <- v3, todo <- v4, holder <- v5, dbHeld <- v6, load <- v7,
    rep <- v8, behind <- v9, clock <- v10, missed <- v11

(* Two principals and two master keys; dumps of MIT, old and odd ones. *)
KdbR(rid, alias, kadm, policy, extra) ==
    [rid |-> rid, alias |-> alias, life |-> IF alias THEN 0 ELSE 1, kadm |-> kadm,
        policy |-> policy, extra |-> extra]
KdbD(kind, key, km, rows, hwm, top) ==
    [kind |-> kind, key |-> key, km |-> km, rows |-> rows, hwm |-> hwm, seen |-> top]
KdbNoFile == [kind |-> "none", key |-> "none", km |-> FALSE, rows |-> <<>>, hwm |-> 0, seen |-> 0]
KdbOrd == <<"a", "b">>
KdbMit == KdbD("7", "K1", TRUE, [n \in {"a", "b"} |-> IF n = "a" THEN KdbR(0, FALSE, "bare", "none",
    {"mod"}) ELSE KdbR(0, TRUE, "none", "none", {"mod", "string"})], 0, 0)
KdbOld == KdbD("iprop", "K2", TRUE, [n \in {"a", "b"} |-> IF n = "a" THEN KdbR(2, FALSE, "none",
    "p", {"to", "from", "hist"}) ELSE KdbR(1, FALSE, "p", "none", {"serial", "string"})], 3, 2)
KdbDup == KdbD("7", "K1", TRUE, [n \in {"a", "b"} |-> KdbR(1, FALSE, "none", "none", {})], 2, 1)
KdbGarbled == KdbD("7", "K1", TRUE, [n \in {"a"} |-> KdbR(1, FALSE, "none", "none", {"garbled"})],
    2, 1)
KdbKdb3 == KdbD("legacy", "K1", TRUE, [n \in {"b"} |-> KdbR(1, FALSE, "none", "none", {})], 2, 1)
KdbKdb1 == KdbD("legacy", "K2", FALSE, [n \in {"a"} |-> KdbR(0, FALSE, "none", "none", {})], 0, 0)
KdbLeg == {KdbKdb1, KdbKdb3}
KdbArgs == KdbD("7", "K1", TRUE, [n \in {"a"} |-> KdbR(1, FALSE, "none", "none", {"dbargs"})], 2, 1)
KdbSome == KdbD("7", "K1", FALSE, [n \in {"b"} |-> KdbR(1, FALSE, "none", "p", {})], 0, 1)
KdbFor == {KdbNoFile, KdbMit, KdbOld, KdbDup, KdbArgs, KdbGarbled, KdbSome}
Kd == INSTANCE KdbTool WITH
    Order <- KdbOrd, Foreign <- KdbFor, Legacy <- KdbLeg,
    Modes <- {"tool", "library"}, Keys <- {"K1", "K2"}, FirstRid <- 1, MaxRid <- 2, MaxKills <- 1,
    mode <- v1, db <- v2, stash <- v3, dump <- v4, cmd <- v5, held <- v6, kills <- v7

Off(v) == v = "off"

MCInit ==
    /\ scene \in {"replay", "lookaside", "ulog", "kdb"}
    /\ Init /\ La!Init
    /\ scene # "replay" => skewOf = [k \in MCKeys |-> 0]
    /\ CASE scene = "ulog" -> Ul!Init
         [] scene = "kdb" -> Kd!Init /\ Off(v8) /\ Off(v9) /\ Off(v10) /\ Off(v11)
         [] OTHER -> /\ Off(v1) /\ Off(v2) /\ Off(v3) /\ Off(v4) /\ Off(v5)
                     /\ Off(v6) /\ Off(v7) /\ Off(v8) /\ Off(v9) /\ Off(v10) /\ Off(v11)

ReplayScene == scene = "replay" /\ Next /\ UNCHANGED <<scene, la, inFlight, clock, vs>>

LookasideScene == scene = "lookaside" /\ La!Next /\ UNCHANGED <<scene, vars, vs>>

UlogScene == scene = "ulog" /\ Ul!Next /\ UNCHANGED <<scene, caches>>

KdbScene == scene = "kdb" /\ Kd!Next /\ UNCHANGED <<scene, caches, v8, v9, v10, v11>>

MCNext == ReplayScene \/ LookasideScene \/ UlogScene \/ KdbScene

allVars == <<scene, caches, vs>>

MCSpec == MCInit /\ [][MCNext]_allVars

-----------------------------------------------------------------------------
(* Lookaside!Refines: the map, the slots and their numbers are a queue     *)
(* that drops its oldest entries first, and only stale ones or for room    *)
(* (lookaside.rs).                                                         *)
Refines == La!Refines

(* Whenever a stable log answers a replica, its answer is what brings the  *)
(* replica to the database's version, and a replica fewer updates behind   *)
(* than the ring holds is served from it (Ulog's AnswersMatchDatabase and  *)
(* ServedIncrementally, over ulog.rs get_entries and sno_status).  A load  *)
(* that put its database in place and did not get to start the log over is *)
(* the exception, until the log starts over or the replica takes a dump.   *)
LogAnswersHold == scene = "ulog" => Ul!AnswersMatchDatabase /\ Ul!ServedIncrementally

(* A command that ends well leaves a database its stash opens, no two rows *)
(* share a RID, a new principal's RID was on no row before, and a row      *)
(* means the same after a rewrite or a load (KdbTool's StashOpens,         *)
(* RidsAreFresh and RewritesKeepRows, over krb5-kdb.rs, persist.rs and     *)
(* kdb_dump.rs).                                                           *)
DatabaseHolds ==
    /\ [](scene = "kdb" => Kd!StashOpens /\ Kd!RidsStayApart)
    /\ [][scene = "kdb" => Kd!RidStep /\ Kd!RewriteStep]_allVars
=============================================================================
