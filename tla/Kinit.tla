--------------------------------- MODULE Kinit ---------------------------------
(***************************************************************************)
(* kinit (krb5-client/src/bin/krb5-kinit.rs and kinit_inner of lib.rs):    *)
(* the FAST upgrade, the client referrals, the change of an expired        *)
(* password, a service ticket besides, and at last the cache.  An AS       *)
(* exchange (ClientAs), a TGS exchange (ClientTgs) and a password change   *)
(* (ClientNet) are each one step with any of their outcomes.               *)
(***************************************************************************)
EXTENDS Integers, Sequences, FiniteSets

CONSTANTS
    Jobs,    \* the command lines: see Init
    MaxLegs, \* MAX_IN_TKT_LOOPS
    MaxAsks  \* the prompts of prompt_and_change

VARIABLES job, k

vars == <<job, k>>

Stop(c, r) == [c EXCEPT !.pc = "ended", !.out = r]

(* initial_armor: the armor cache is used at once when it says that FAST   *)
(* is available, else only after an upgrade.                               *)
Armored(c) == [c EXCEPT !.armor = job.armor = "avail"]

(* A run of follow_referrals: the first leg, in the client's realm. *)
Run(c, stage) == Armored([c EXCEPT !.pc = "as", !.stage = stage, !.legs = 0, !.realm = "home"])

(* What an exchange may come to: an upgrade only when it was deferred, a   *)
(* referral only with canonicalization.                                    *)
Outcomes(c) ==
    {"ok", "expired", "unknown", "io", "other"}
        \cup (IF job.armor # "none" /\ ~ c.armor THEN {"upgrade"} ELSE {})
        \cup (IF job.canon THEN {"referral"} ELSE {})

(* load_armor_for_upgrade, then the exchange again with no more upgrade. *)
Upgrade(c) == {[c EXCEPT !.armor = TRUE], Stop(c, "no armor")}

(* Leg::referred: the KDCs, armor, PKINIT files and keytab keys of the     *)
(* realm may be missing.                                                   *)
Refer(c) ==
    IF c.legs + 1 = MaxLegs THEN {Stop(c, "looping")}
    ELSE {Armored([c EXCEPT !.realm = "other", !.legs = @ + 1]), Stop(c, "no KDC")}

(* The key expired: a ticket for kadmin/changepw is asked for when there   *)
(* is a new password or someone to ask, and no keytab.                     *)
Expired(c) ==
    IF c.stage = "first" /\ (job.newpw \/ job.prompter) /\ ~ job.keytab
    THEN Run(c, "changepw") ELSE Stop(c, "expired")

Got(c) ==
    CASE c.stage = "changepw" -> [c EXCEPT !.pc = "change"]
      [] c.stage # "changepw" /\ job.service -> [c EXCEPT !.pc = "tgs", !.creds = {"tgt"}]
      [] OTHER -> [c EXCEPT !.pc = "store", !.creds = {"tgt"}]

Exchanged(c, r) ==
    CASE r = "ok" -> {Got(c)}
      [] r = "upgrade" -> Upgrade(c)
      [] r = "referral" -> Refer(c)
      [] r = "expired" -> {Expired(c)}
      [] OTHER -> {Stop(c, r)}

AsStep == k.pc = "as" /\ (\E r \in Outcomes(k) : k' \in Exchanged(k, r)) /\ UNCHANGED job

(* The exchange with the new password starts over in the client's realm. *)
Changed(c) == Run([c EXCEPT !.db = "new"], "again")

(* change_password with the password given beforehand is tried once; the   *)
(* reply may be lost after the change was made.                            *)
ChangeGiven(c) == {Changed(c), Stop(c, "refused"), Stop([c EXCEPT !.db = "new"], "Io")}

Asked(c) ==
    IF c.asks + 1 = MaxAsks THEN {Stop(c, "Password change failed")} ELSE {[c EXCEPT !.asks = @ + 1]}

(* prompt_and_change: a mismatch, an empty password and a soft error are   *)
(* asked about again, three times in all.                                  *)
ChangePrompted(c) == {Changed(c), Stop(c, "prompt"), Stop(c, "refused"), Stop([c EXCEPT !.db = "new"], "Io")} \cup Asked(c)

ChangePassword ==
    /\ k.pc = "change"
    /\ k' \in IF job.newpw THEN ChangeGiven(k) ELSE ChangePrompted(k)
    /\ UNCHANGED job

(* Mutant of TgsDone: the service ticket is optional. *)
TgsDoneAnyway(c, ok) == [c EXCEPT !.pc = "store"]

(* tgs_exchange_path for the service besides; its failure is kinit's. *)
TgsDone(c, ok) ==
    IF ok THEN [c EXCEPT !.pc = "store", !.creds = @ \cup {"service"}] ELSE Stop(c, "tgs")

TgsStep == k.pc = "tgs" /\ (\E ok \in BOOLEAN : k' = TgsDone(k, ok)) /\ UNCHANGED job

(* get_valrenewed_creds of -R and -v, with the TGT of the cache. *)
Valrenew ==
    /\ k.pc = "valrenew"
    /\ k' \in {Stop(k, "tgs"), [k EXCEPT !.pc = "store", !.creds = {"tgt"}]}
    /\ UNCHANGED job

(* store_then_warn: the cache is replaced whole or not at all. *)
Store ==
    /\ k.pc = "store"
    /\ k' \in {Stop(k, "Failed to store credentials"),
               IF job.switch THEN [k EXCEPT !.cache = k.creds, !.pc = "switch"]
               ELSE Stop([k EXCEPT !.cache = k.creds], "ok")}
    /\ UNCHANGED job

Switch ==
    /\ k.pc = "switch"
    /\ k' \in {Stop(k, "ok"), Stop(k, "switching")}
    /\ UNCHANGED job

(* kinit_inner to its first exchange: the enctypes, the armor, the PKINIT  *)
(* anchors and a keytab without the client's key may end it.               *)
Begin ==
    /\ k.pc = "begin"
    /\ k' \in {IF job.valrenew THEN [k EXCEPT !.pc = "valrenew"] ELSE Run(k, "first"),
               Stop(k, "not started")}
    /\ UNCHANGED job

Init ==
    /\ job \in Jobs
    /\ k = [pc |-> "begin", stage |-> "first", legs |-> 0, realm |-> "home", armor |-> FALSE,
            asks |-> 0, creds |-> {}, cache |-> {"old"}, db |-> "old", out |-> "none"]

Next == Begin \/ AsStep \/ ChangePassword \/ TgsStep \/ Valrenew \/ Store \/ Switch

Spec == Init /\ [][Next]_vars /\ WF_vars(Next)

-----------------------------------------------------------------------------
(* kinit ends, through upgrades, referrals between realms and an expired   *)
(* password that is refused again and again.                               *)
KinitEnds == <>(k.pc = "ended")

(* The cache is only ever replaced by all that was asked for: a kinit that *)
(* fails half way, after a password change or before the service ticket,   *)
(* leaves the credentials that were there.                                 *)
CacheIsWhole ==
    k.cache # {"old"} => k.cache = {"tgt"} \cup (IF job.service /\ ~ job.valrenew THEN {"service"} ELSE {})
=============================================================================
