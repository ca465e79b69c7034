------------------------------- MODULE Lockout -------------------------------
(***************************************************************************)
(* Account lockout (krb5-kdc/src/lockout.rs) for one client: the KDC looks *)
(* the client up, checks the lock, tries its password and records the      *)
(* outcome, all from the copy it looked up; in between an administrator    *)
(* may unlock the client, and a new password or key may reset its count.   *)
(* The record itself is read and updated whole, as LockoutFile shows.      *)
(***************************************************************************)
EXTENDS Integers, Sequences

CONSTANTS
    MaxFails,            \* the values of a policy's max_fail,
    Intervals,           \* its pw_failcnt_interval
    Durations,           \* and its pw_lockout_duration
    DisableLockout,      \* disable_lockout
    DisableLastSuccess,  \* disable_last_success
    RequiresPreauth,     \* KDB_REQUIRES_PRE_AUTH of the client
    Width,               \* times and counts are kept modulo Width
    MaxTime              \* bound on the clock

ASSUME LockoutAssumption ==
    /\ MaxFails \cup Intervals \cup Durations \subseteq Nat
    /\ {DisableLockout, DisableLastSuccess, RequiresPreauth} \subseteq BOOLEAN
    /\ Width \in Nat \ {0} /\ MaxTime \in 1 .. Width - 1

VARIABLES
    policy,  \* [maxFail, interval, duration] of the client
    now,
    record,  \* [success, failed, count]: the client's lockout record
    unlock,  \* KRB5_TL_LAST_ADMIN_UNLOCK of the client
    tried,   \* the request under way: the copy it works from, or NoTry
    fails    \* when the latest passwords failed since the last success,
             \* unlock or reset

vars == <<policy, now, record, unlock, tried, fails>>

MaxFail == policy.maxFail

Interval == policy.interval

Duration == policy.duration

-----------------------------------------------------------------------------
TsIncr(ts, delta) == (ts + delta) % Width

(* locked_check_p *)
Locked(stamp, p) ==
    /\ p.failed > p.unlock
    /\ MaxFail # 0
    /\ p.count >= MaxFail
    /\ Duration # 0 => TsIncr(p.failed, Duration) > stamp

(* What get_principal returns: the client with its record merged in. *)
Client == [failed |-> record.failed, count |-> record.count, unlock |-> unlock]

NoTry == [stamp |-> -1]

(* LockoutUpdate::apply, to the record as it now is. *)
Apply(zero, success, failure, stamp) ==
    [success |-> IF success THEN stamp ELSE record.success,
     failed |-> IF failure THEN stamp ELSE record.failed,
     count |-> ((IF zero THEN 0 ELSE record.count) + (IF failure THEN 1 ELSE 0)) % Width]

(* A count starts over after an unlock, and after the interval. *)
StartsOver(stamp, p) ==
    \/ p.failed <= p.unlock
    \/ Interval # 0 /\ stamp > TsIncr(p.failed, Interval)

(* lockout_audit of a failed preauthentication. *)
AuditFailure(stamp, p) ==
    record' = IF DisableLockout \/ Locked(stamp, p) THEN record
              ELSE Apply(StartsOver(stamp, p), FALSE, TRUE, stamp)

(* lockout_audit of a reply. *)
AuditSuccess(stamp, p) ==
    record' = IF (~DisableLockout /\ Locked(stamp, p)) \/ ~RequiresPreauth THEN record
              ELSE Apply(~DisableLockout /\ p.count # 0, ~DisableLastSuccess, FALSE, stamp)

-----------------------------------------------------------------------------
Init ==
    /\ policy \in [maxFail : MaxFails, interval : Intervals, duration : Durations]
    /\ now = 1
    /\ record = [success |-> 0, failed |-> 0, count |-> 0]
    /\ unlock = 0
    /\ tried = NoTry
    /\ fails = <<>>

Tick ==
    /\ now < MaxTime
    /\ now' = now + 1
    /\ UNCHANGED <<record, unlock, tried, fails>>

RequestUnchecked ==
    /\ tried = NoTry
    /\ tried' = [stamp |-> now, client |-> Client]
    /\ UNCHANGED <<now, record, unlock, fails>>

(* An AS request: kdc_time is read, the client is looked up and the lock   *)
(* is checked.  A locked client is refused, and its outcome is not         *)
(* recorded.                                                               *)
Request ==
    /\ tried = NoTry
    /\ DisableLockout \/ ~Locked(now, Client)
    /\ tried' = [stamp |-> now, client |-> Client]
    /\ UNCHANGED <<now, record, unlock, fails>>

Answered == tried # NoTry /\ tried' = NoTry /\ UNCHANGED <<now, unlock>>

(* No property looks further back than MaxFail failures. *)
Latest(s) == SubSeq(s, IF Len(s) > MaxFail THEN Len(s) - MaxFail ELSE 1, Len(s))

(* The password is wrong. *)
Fail ==
    /\ Answered
    /\ AuditFailure(tried.stamp, tried.client)
    /\ fails' = IF tried.stamp > unlock THEN Latest(Append(fails, tried.stamp)) ELSE fails

(* The password is right.  It forgets failures only where one is asked for. *)
Succeed ==
    /\ Answered
    /\ AuditSuccess(tried.stamp, tried.client)
    /\ fails' = IF RequiresPreauth THEN <<>> ELSE fails

(* Any other outcome is not recorded. *)
Refuse == Answered /\ UNCHANGED <<record, fails>>

(* An administrator unlocks the client. *)
AdminUnlock ==
    /\ unlock' = now
    /\ record' = Apply(TRUE, FALSE, FALSE, now)
    /\ fails' = <<>>
    /\ UNCHANGED <<now, tried>>

ResetOnlyTheStore ==
    /\ fails' = <<>>
    /\ UNCHANGED <<now, record, unlock, tried>>

(* A new password, random or set keys, or an administrator who clears the  *)
(* count (zero_fail_count_in_file): no unlock is stamped.                  *)
Reset ==
    /\ record' = Apply(TRUE, FALSE, FALSE, now)
    /\ fails' = <<>>
    /\ UNCHANGED <<now, unlock, tried>>

Next ==
    /\ Tick \/ Request \/ Fail \/ Succeed \/ Refuse \/ AdminUnlock \/ Reset
    /\ UNCHANGED policy

Spec == Init /\ [][Next]_vars

-----------------------------------------------------------------------------
IsLocked ==
    Locked(now, [failed |-> record.failed, count |-> record.count, unlock |-> unlock])

(* The client is locked exactly when its last MaxFail passwords were wrong  *)
(* since the last success, unlock or reset, none later after the one       *)
(* before it than the interval, and the lock has not run out: an outcome   *)
(* recorded from a copy that an unlock or a reset has overtaken neither    *)
(* brings a lock back nor forgets a failure (lockout.rs, lockout_audit).   *)
LocksAreEarned ==
    (MaxFail # 0 /\ ~DisableLockout) =>
        (IsLocked <=>
            /\ Len(fails) >= MaxFail
            /\ Interval # 0 => \A i \in Len(fails) + 1 - MaxFail .. Len(fails) - 1 :
                                  fails[i + 1] <= fails[i] + Interval
            /\ Duration # 0 => fails[Len(fails)] + Duration > now)

Smaller(a, b) == IF a < b THEN a ELSE b

(* How long the lock, or the start of a new count, keeps one try from the  *)
(* MaxFail tries before it.                                                *)
Wait ==
    IF Duration = 0 THEN Interval + 1
    ELSE IF Interval = 0 THEN Duration
    ELSE Smaller(Duration, Interval + 1)

(* One more failure than the policy allows is never nearer to the first of *)
(* them than the lock lasts or the interval takes to run out; a lock       *)
(* without an end admits none at all (lockout.rs, locked_check_p).         *)
TriesAreLimited ==
    (MaxFail # 0 /\ ~DisableLockout) =>
        \A i \in 1 .. Len(fails) - MaxFail :
            /\ Duration # 0 \/ Interval # 0
            /\ fails[i + MaxFail] - fails[i] >= Wait

(* The record is what the failures since the last success, unlock or start *)
(* over add up to, and no time in it is ahead of the clock (lockout.rs,    *)
(* LockoutUpdate::apply).                                                  *)
TypeOK ==
    /\ record.success \in 0 .. now
    /\ record.failed \in 0 .. now
    /\ record.count \in 0 .. Width - 1
    /\ unlock \in 0 .. now
    /\ tried = NoTry \/ tried.stamp \in 0 .. now
    /\ fails # <<>> => record.failed = fails[Len(fails)] \/ DisableLockout
=============================================================================
