---------------------------- MODULE LockoutProofs ----------------------------
(***************************************************************************)
(* The client is locked exactly when its failures earn it, and is allowed  *)
(* no more tries than the policy says, for every policy, as long as no     *)
(* time or count wraps.  The reason is that a request that passed the      *)
(* check is recorded over the record it saw, or over one that an unlock or *)
(* a reset has cleared since: so the count is that of the failures kept.   *)
(***************************************************************************)
EXTENDS Lockout, TLAPS

(* Zenon first, Z3 for what needs arithmetic. *)
USE ZenonT(5), SMTT(20)

(* No time in the record or the client is ahead of the clock.              *)
IInv ==
    /\ now \in Nat
    /\ policy \in [maxFail : Nat, interval : Nat, duration : Nat]
    /\ unlock \in Nat /\ unlock <= now
    /\ record.failed \in Nat /\ record.failed <= now
    /\ record.count \in 0 .. Width - 1
    /\ tried # NoTry => tried.stamp \in Nat /\ tried.stamp <= now

(* No time or count that the clock can reach wraps, as with 32 bits until  *)
(* the clock nears their end.                                              *)
NoWrap ==
    /\ \A d \in Durations \cup Intervals : MaxTime + d < Width
    /\ \A m \in MaxFails : MaxTime + m < Width

Limits == MaxFail # 0 /\ ~DisableLockout

(* The failures kept are in order; the last one is the record's, which the *)
(* count includes; and before the ones that it counts the interval ran out *)
(* or nothing is kept.                                                     *)
FailsInv ==
    /\ fails \in Seq(Nat)
    /\ \A i, j \in 1 .. Len(fails) : i <= j => fails[i] <= fails[j]
    /\ fails # <<>> =>
          /\ fails[Len(fails)] = record.failed
          /\ record.failed > unlock
          /\ record.count >= 1
          /\ Len(fails) > record.count =>
                /\ Interval # 0
                /\ fails[Len(fails) + 1 - record.count]
                      > fails[Len(fails) - record.count] + Interval

(* The failures that the record counts are kept, and none of them is later *)
(* after the one before it than the interval.                              *)
EarnedInv ==
    record.failed > unlock =>
        /\ Len(fails) >= record.count \/ Len(fails) > MaxFail
        /\ Interval # 0 => \A i \in 1 .. Len(fails) - 1 :
              i > Len(fails) - record.count => fails[i + 1] <= fails[i] + Interval

(* The request under way passed the check, and works from the record as it *)
(* is, or an unlock or a reset has cleared the record since.               *)
TriedInv ==
    tried # NoTry =>
        /\ record.failed <= tried.stamp
        /\ ~Locked(tried.stamp, tried.client)
        /\ tried.client = Client \/ (fails = <<>> /\ record.count = 0)

(* Only a lock that ended lets a count go on past max_fail, which takes a  *)
(* second at least.                                                        *)
CountInv == record.count <= MaxFail + record.failed

(* The constants' bounds on what the steps compute with. *)
Bounds ==
    /\ now <= MaxTime
    /\ policy \in [maxFail : MaxFails, interval : Intervals, duration : Durations]

LInv == FailsInv /\ EarnedInv /\ TriedInv /\ CountInv /\ TriesAreLimited

(* The initial states satisfy the invariant. *)
LEMMA InitInv == Init => IInv
  BY LockoutAssumption DEF Init, IInv, NoTry

(* An applied update leaves the time of failure as it was, or takes the    *)
(* request's; a count stays below the width.                               *)
LEMMA Applied ==
  ASSUME IInv,
         NEW zero \in BOOLEAN, NEW success \in BOOLEAN, NEW failure \in BOOLEAN,
         NEW stamp \in Nat, stamp <= now,
         record' = Apply(zero, success, failure, stamp)
  PROVE  /\ record'.failed \in Nat /\ record'.failed <= now
         /\ record'.count \in 0 .. Width - 1
         /\ ~failure => record'.failed = record.failed
         /\ ~failure /\ ~zero => record'.count = record.count
  <1> DEFINE n == (IF zero THEN 0 ELSE record.count) + (IF failure THEN 1 ELSE 0)
  <1>1. n \in Nat
    BY DEF IInv
  <1>2. record'.failed = IF failure THEN stamp ELSE record.failed
    BY DEF Apply
  <1>3. record'.count = n % Width
    BY DEF Apply
  <1>4. n % Width \in 0 .. Width - 1
    BY <1>1, LockoutAssumption
  <1>5. ~failure /\ ~zero => n % Width = record.count
    BY LockoutAssumption DEF IInv
  <1>6. QED
    BY <1>2, <1>3, <1>4, <1>5 DEF IInv

(* Every step preserves the invariant. *)
LEMMA NextInv == IInv /\ [Next]_vars => IInv'
  <1> SUFFICES ASSUME IInv, [Next]_vars PROVE IInv'
    OBVIOUS
  <1>1. CASE Tick /\ UNCHANGED policy
    BY <1>1 DEF Tick, IInv
  <1>2. CASE Request /\ UNCHANGED policy
    BY <1>2 DEF Request, IInv, NoTry
  <1>3. CASE Fail /\ UNCHANGED policy
    <2>1. tried.stamp \in Nat /\ tried.stamp <= now /\ now' = now /\ unlock' = unlock
      BY <1>3 DEF Fail, Answered, IInv
    <2>2. PICK zero \in BOOLEAN :
            record' = record \/ record' = Apply(zero, FALSE, TRUE, tried.stamp)
      BY <1>3 DEF Fail, AuditFailure, StartsOver
    <2>3. /\ record'.failed \in Nat /\ record'.failed <= now
          /\ record'.count \in 0 .. Width - 1
      BY <2>1, <2>2, Applied DEF IInv
    <2>4. QED
      BY <1>3, <2>1, <2>3 DEF Fail, Answered, IInv
  <1>4. CASE Succeed /\ UNCHANGED policy
    <2>1. tried.stamp \in Nat /\ tried.stamp <= now /\ now' = now /\ unlock' = unlock
      BY <1>4 DEF Succeed, Answered, IInv
    <2>2. PICK zero \in BOOLEAN, success \in BOOLEAN :
            record' = record \/ record' = Apply(zero, success, FALSE, tried.stamp)
      BY <1>4 DEF Succeed, AuditSuccess
    <2>3. /\ record'.failed \in Nat /\ record'.failed <= now
          /\ record'.count \in 0 .. Width - 1
      BY <2>1, <2>2, Applied DEF IInv
    <2>4. QED
      BY <1>4, <2>1, <2>3 DEF Succeed, Answered, IInv
  <1>5. CASE Refuse /\ UNCHANGED policy
    BY <1>5 DEF Refuse, Answered, IInv
  <1>6. CASE AdminUnlock /\ UNCHANGED policy
    <2>1. /\ record' = Apply(TRUE, FALSE, FALSE, now)
          /\ unlock' = now /\ now' = now /\ tried' = tried /\ policy' = policy
      BY <1>6 DEF AdminUnlock
    <2>2. now \in Nat /\ now <= now
      BY DEF IInv
    <2>3. /\ record'.failed = record.failed
          /\ record'.count \in 0 .. Width - 1
      BY <2>1, <2>2, Applied
    <2>4. QED
      BY <2>1, <2>2, <2>3 DEF IInv
  <1>7. CASE Reset /\ UNCHANGED policy
    <2>1. /\ record' = Apply(TRUE, FALSE, FALSE, now)
          /\ unlock' = unlock /\ now' = now /\ tried' = tried /\ policy' = policy
      BY <1>7 DEF Reset
    <2>2. now \in Nat /\ now <= now
      BY DEF IInv
    <2>3. /\ record'.failed = record.failed
          /\ record'.count \in 0 .. Width - 1
      BY <2>1, <2>2, Applied
    <2>4. QED
      BY <2>1, <2>2, <2>3 DEF IInv
  <1>8. CASE UNCHANGED vars
    BY <1>8 DEF vars, IInv
  <1>9. QED
    BY <1>1, <1>2, <1>3, <1>4, <1>5, <1>6, <1>7, <1>8 DEF Next

(* The invariant holds always. *)
THEOREM Invariance == Spec => []IInv
  BY InitInv, NextInv, PTL DEF Spec

-----------------------------------------------------------------------------
(* What Latest keeps of a history. *)
LEMMA LatestIs ==
  ASSUME IInv, NEW t \in Seq(Nat)
  PROVE  /\ Latest(t) \in Seq(Nat)
         /\ Len(t) <= MaxFail => Latest(t) = t
         /\ Len(t) > MaxFail => Len(Latest(t)) = MaxFail + 1
         /\ \A i \in 1 .. Len(Latest(t)) : Latest(t)[i] = t[i + (Len(t) - Len(Latest(t)))]
         /\ Len(Latest(t)) <= Len(t)
  <1>1. MaxFail \in Nat /\ Len(t) \in Nat
    BY DEF IInv, MaxFail
  <1>2. CASE Len(t) <= MaxFail
    <2>1. ~(Len(t) > MaxFail)
      BY <1>1, <1>2
    <2>2. Latest(t) = SubSeq(t, 1, Len(t))
      BY <2>1 DEF Latest
    <2>3. Latest(t) = t
      BY <2>2
    <2>4. QED
      BY <1>1, <1>2, <2>3
  <1>3. CASE Len(t) > MaxFail
    <2>1. Latest(t) = SubSeq(t, Len(t) - MaxFail, Len(t))
      BY <1>1, <1>3 DEF Latest
    <2>2. /\ Len(t) - MaxFail \in 1 .. Len(t)
          /\ Latest(t) \in Seq(Nat)
          /\ Len(Latest(t)) = MaxFail + 1
      BY <1>1, <1>3, <2>1
    <2>3. \A i \in 1 .. MaxFail + 1 : Latest(t)[i] = t[i + (Len(t) - MaxFail) - 1]
      BY <1>1, <1>3, <2>1
    <2>4. QED
      BY <1>1, <1>3, <2>2, <2>3
  <1>4. QED
    BY <1>1, <1>2, <1>3

(* A number below the width does not wrap. *)
LEMMA ModSmall ==
  ASSUME NEW w \in Nat \ {0}, NEW n \in Nat, n < w
  PROVE  n % w = n
  OBVIOUS

(* Without wrapping, the end of a lock or an interval is the sum. *)
LEMMA NoWrapEnds ==
  ASSUME NoWrap, IInv, Bounds
  PROVE  /\ TsIncr(record.failed, Duration) = record.failed + Duration
         /\ TsIncr(record.failed, Interval) = record.failed + Interval
         /\ MaxFail + now < Width
         /\ MaxFail \in Nat /\ Interval \in Nat /\ Duration \in Nat
         /\ Width \in Nat \ {0}
  <1>1. /\ MaxFail \in MaxFails /\ Interval \in Intervals /\ Duration \in Durations
        /\ MaxFail \in Nat /\ Interval \in Nat /\ Duration \in Nat
    BY LockoutAssumption DEF Bounds, MaxFail, Interval, Duration
  <1>2. record.failed \in Nat /\ record.failed <= MaxTime /\ Width \in Nat \ {0}
    BY LockoutAssumption DEF IInv, Bounds
  <1>3. /\ MaxTime + Duration < Width /\ MaxTime + Interval < Width /\ MaxTime + MaxFail < Width
    BY <1>1 DEF NoWrap
  <1>4. MaxTime \in Nat /\ now \in Nat /\ now <= MaxTime
    BY LockoutAssumption DEF IInv, Bounds
  <1>5. TsIncr(record.failed, Duration) = record.failed + Duration
    <2>1. record.failed + Duration \in Nat /\ record.failed + Duration < Width
      BY <1>1, <1>2, <1>3, <1>4
    <2>2. QED
      BY <2>1, <1>2, ModSmall DEF TsIncr
  <1>6. TsIncr(record.failed, Interval) = record.failed + Interval
    <2>1. record.failed + Interval \in Nat /\ record.failed + Interval < Width
      BY <1>1, <1>2, <1>3, <1>4
    <2>2. QED
      BY <2>1, <1>2, ModSmall DEF TsIncr
  <1>7. QED
    BY <1>1, <1>2, <1>3, <1>4, <1>5, <1>6

(* What a failure leaves: no lock holds, and the count starts over at one  *)
(* or goes on.                                                             *)
LEMMA FailCounts ==
  ASSUME NoWrap, IInv, Bounds, LInv, Limits, Fail
  PROVE  /\ record'.failed = tried.stamp
         /\ StartsOver(tried.stamp, Client) => record'.count = 1
         /\ ~StartsOver(tried.stamp, Client) => record'.count = record.count + 1
         /\ record'.count <= MaxFail + tried.stamp
  <1> DEFINE s == tried.stamp
             zero == StartsOver(s, tried.client)
             n == (IF zero THEN 0 ELSE record.count) + 1
  <1>1. /\ s \in Nat /\ s <= now /\ now \in Nat /\ record.failed <= s
        /\ record.count \in Nat /\ record.failed \in Nat /\ unlock \in Nat
        /\ ~Locked(s, tried.client)
        /\ tried.client = Client \/ record.count = 0
    BY LockoutAssumption DEF IInv, LInv, TriedInv, Fail, Answered
  <1>2. record' = Apply(zero, FALSE, TRUE, s)
    BY <1>1 DEF Fail, AuditFailure, Limits
  <1>3. record'.failed = s /\ record'.count = n % Width
    BY <1>2 DEF Apply
  <1>4. n <= MaxFail + s
    <2>1. CASE zero
      BY <2>1, <1>1, NoWrapEnds DEF Limits
    <2>2. CASE ~zero /\ record.count < MaxFail
      BY <2>2, <1>1, NoWrapEnds DEF Limits
    <2>3. CASE ~zero /\ record.count >= MaxFail
      <3>0. tried.client = Client
        BY <2>3, <1>1, NoWrapEnds DEF Limits
      <3>1. record.failed > unlock
        BY <2>3, <3>0, <1>1 DEF StartsOver, Client
      <3>2. Duration # 0 /\ ~(TsIncr(record.failed, Duration) > s)
        BY <3>0, <3>1, <2>3, <1>1 DEF Locked, Client, Limits
      <3>3. record.failed + 1 <= s
        BY <3>2, <1>1, NoWrapEnds
      <3>4. record.count <= MaxFail + record.failed
        BY DEF LInv, CountInv
      <3>5. QED
        BY <3>3, <3>4, <2>3, <1>1, NoWrapEnds
    <2>4. QED
      BY <2>1, <2>2, <2>3, <1>1, NoWrapEnds
  <1>5. n % Width = n
    <2>1. n \in Nat /\ n < Width
      BY <1>4, <1>1, NoWrapEnds
    <2>2. QED
      BY <2>1, NoWrapEnds, ModSmall
  <1>6. QED
    BY <1>3, <1>4, <1>5, <1>1

(* A try that is counted comes no sooner after the first of the MaxFail    *)
(* tries before it than the policy says.                                   *)
LEMMA TryIsLate ==
  ASSUME NoWrap, IInv, Bounds, LInv, Limits, Fail,
         Len(fails) >= MaxFail
  PROVE  /\ Duration # 0 \/ Interval # 0
         /\ tried.stamp - fails[Len(fails) + 1 - MaxFail] >= Wait
  <1> DEFINE s == tried.stamp
             n == Len(fails)
             c == record.count
             m == MaxFail
  <1>1. /\ s \in Nat /\ record.failed <= s /\ record.failed \in Nat
        /\ c \in Nat /\ n \in Nat /\ m \in Nat \ {0} /\ Interval \in Nat /\ Duration \in Nat
    BY LockoutAssumption, NoWrapEnds DEF IInv, LInv, TriedInv, Fail, Answered, FailsInv, Limits
  <1>2. /\ fails[n] = record.failed /\ record.failed > unlock /\ c >= 1
        /\ \A i \in 1 .. n : fails[i] \in Nat
        /\ \A i, j \in 1 .. n : i <= j => fails[i] <= fails[j]
        /\ n > c => Interval # 0 /\ fails[n + 1 - c] > fails[n - c] + Interval
    <2>1. n >= 1
      BY <1>1
    <2>2. fails # <<>>
      BY <2>1
    <2>3. QED
      BY <2>2 DEF LInv, FailsInv
  <1>3. CASE c >= m
    <2>0. ~Locked(s, Client)
      BY <1>1, <1>2 DEF LInv, TriedInv, Fail, Answered
    <2>1. Duration # 0 /\ ~(TsIncr(record.failed, Duration) > s)
      BY <2>0, <1>2, <1>3 DEF Locked, Client, Limits
    <2>2. s >= record.failed + Duration
      BY <2>1, <1>1, NoWrapEnds
    <2>3. fails[n + 1 - m] \in Nat /\ fails[n + 1 - m] <= record.failed
      BY <1>1, <1>2
    <2>4. Wait \in Nat /\ Wait <= Duration
      BY <2>1, <1>1 DEF Wait, Smaller
    <2>5. QED
      BY <2>1, <2>2, <2>3, <2>4, <1>1
  <1>4. CASE c < m
    <2>1. /\ n + 1 - m \in 1 .. n /\ n - c \in 1 .. n /\ n + 1 - c \in 1 .. n /\ n \in 1 .. n
          /\ n + 1 - m <= n - c /\ n + 1 - c <= n
      <3>1. c >= 1 /\ n >= m
        BY <1>2
      <3>2. QED
        BY <3>1, <1>1, <1>4
    <2>2. Interval # 0 /\ fails[n + 1 - c] > fails[n - c] + Interval
      BY <1>1, <1>2, <1>4
    <2>3. /\ fails[n + 1 - m] <= fails[n - c] /\ fails[n + 1 - c] <= fails[n]
          /\ fails[n + 1 - m] \in Nat /\ fails[n - c] \in Nat /\ fails[n + 1 - c] \in Nat
      <3>1. \A i, j \in 1 .. n : i <= j => fails[i] <= fails[j]
        BY <1>2
      <3>2. \A i \in 1 .. n : fails[i] \in Nat
        BY <1>2
      <3>3. QED
        BY <2>1, <3>1, <3>2
    <2>4. Wait \in Nat /\ Wait <= Interval + 1
      BY <2>2, <1>1 DEF Wait, Smaller
    <2>5. fails[n + 1 - c] <= s
      <3>1. fails[n] = record.failed
        BY <1>2
      <3>2. QED
        BY <3>1, <2>3, <1>1
    <2>6. tried.stamp - fails[n + 1 - m] >= Wait
      <3>1. \A a, b, d, w, e \in Nat : d > b + e /\ a <= b /\ d <= s /\ w <= e + 1 => s - a >= w
        BY <1>1
      <3>2. QED
        BY <3>1, <2>2, <2>3, <2>4, <2>5, <1>1
    <2>7. QED
      BY <2>2, <2>6
  <1>5. QED
    BY <1>1, <1>3, <1>4

(* A failure keeps the history's invariant. *)
LEMMA FailKeeps ==
  ASSUME NoWrap, IInv, Bounds, LInv, Limits, Fail, policy' = policy
  PROVE  LInv'
  <1> DEFINE s == tried.stamp
             n == Len(fails)
             t == Append(fails, s)
  <1>0. n \in Nat /\ record.count \in Nat
    BY LockoutAssumption DEF IInv, LInv, FailsInv
  <1>1. /\ s \in Nat /\ record.failed <= s /\ record.failed \in Nat /\ unlock \in Nat
        /\ record.count \in Nat /\ tried' = NoTry /\ unlock' = unlock
        /\ MaxFail' = MaxFail /\ Interval' = Interval /\ Wait' = Wait /\ Duration' = Duration
        /\ fails \in Seq(Nat) /\ n \in Nat
    BY LockoutAssumption DEF IInv, LInv, TriedInv, Fail, Answered, FailsInv,
         MaxFail, Interval, Duration, Wait
  <1>2. TriedInv'
    BY <1>1 DEF TriedInv
  <1>3. CASE s <= unlock
    <2>1. fails = <<>> /\ fails' = fails
      BY <1>1, <1>3 DEF LInv, FailsInv, Fail
    <2>2. FailsInv' /\ TriesAreLimited'
      <3>1. fails' = <<>> /\ Len(fails') = 0 /\ MaxFail \in Nat
        BY <2>1, NoWrapEnds
      <3>2. QED
        BY <3>1, <1>1 DEF FailsInv, TriesAreLimited
    <2>3. record'.failed = s /\ record'.count <= MaxFail + s
      BY FailCounts
    <2>4. EarnedInv'
      BY <2>3, <1>1, <1>3 DEF EarnedInv
    <2>5. QED
      BY <2>2, <2>3, <2>4, <1>1, <1>2 DEF LInv, CountInv
  <1>4. CASE s > unlock
    <2>1. fails' = Latest(t)
      BY <1>4 DEF Fail
    <2>2. /\ record'.failed = s
          /\ StartsOver(s, Client) => record'.count = 1
          /\ ~StartsOver(s, Client) => record'.count = record.count + 1
          /\ record'.count <= MaxFail + s
      BY FailCounts
    <2> DEFINE k == Len(Latest(t))
    <2>3. /\ t \in Seq(Nat) /\ Len(t) = n + 1 /\ t[n + 1] = s
          /\ \A i \in 1 .. n : t[i] = fails[i]
      BY <1>1
    <2>4. /\ Latest(t) \in Seq(Nat) /\ k \in Nat
          /\ n + 1 <= MaxFail => k = n + 1
          /\ n + 1 > MaxFail => k = MaxFail + 1
          /\ k <= n + 1
          /\ \A i \in 1 .. k : Latest(t)[i] = t[i + (n + 1 - k)]
      <3>1. /\ Latest(t) \in Seq(Nat)
            /\ Len(t) <= MaxFail => Latest(t) = t
            /\ Len(t) > MaxFail => Len(Latest(t)) = MaxFail + 1
            /\ \A i \in 1 .. k : Latest(t)[i] = t[i + (Len(t) - k)]
            /\ k <= Len(t)
        BY <2>3, LatestIs
      <3>2. k \in Nat /\ Len(t) = n + 1
        BY <3>1, <2>3
      <3>3. Len(t) <= MaxFail => k = Len(t)
        BY <3>1
      <3>4. k = Len(Latest(t))
        OBVIOUS
      <3>5. QED
        <4> HIDE DEF t, k, n
        <4>1. QED
          BY <1>0, <3>1, <3>2, <3>3, <3>4
    <2>5. k \in 1 .. n + 1 /\ MaxFail \in Nat \ {0}
      BY <2>4, <1>1, NoWrapEnds DEF Limits
    <2>6. \A i, j \in 1 .. n + 1 : i <= j => t[i] <= t[j]
      <3>1. \A i, j \in 1 .. n : i <= j => fails[i] <= fails[j]
        BY DEF LInv, FailsInv
      <3>2. \A i \in 1 .. n : fails[i] <= s
        <4> SUFFICES ASSUME NEW i \in 1 .. n PROVE fails[i] <= s
          OBVIOUS
        <4>1. fails # <<>> /\ fails[n] = record.failed
          BY <1>1 DEF LInv, FailsInv
        <4>2. fails[i] \in Nat /\ fails[i] <= fails[n]
          BY <3>1, <1>1
        <4>3. QED
          BY <4>1, <4>2, <1>1
      <3>3. QED
        BY <3>1, <3>2, <2>3, <1>1
    <2>7. \A i, j \in 1 .. k : i <= j => Latest(t)[i] <= Latest(t)[j]
      <3> SUFFICES ASSUME NEW i \in 1 .. k, NEW j \in 1 .. k, i <= j
                   PROVE  Latest(t)[i] <= Latest(t)[j]
        OBVIOUS
      <3>1. i + (n + 1 - k) \in 1 .. n + 1 /\ j + (n + 1 - k) \in 1 .. n + 1
        BY <2>5, <1>1
      <3>2. i + (n + 1 - k) <= j + (n + 1 - k)
        BY <2>5, <1>1
      <3>3. QED
        BY <3>1, <3>2, <2>4, <2>6
    <2>8. Latest(t)[k] = s
      BY <2>3, <2>4, <2>5, <1>1
    <2>9. record'.count >= 1
      BY <2>2, <1>1
    <2>10. k > record'.count =>
             /\ Interval # 0
             /\ Latest(t)[k + 1 - record'.count] > Latest(t)[k - record'.count] + Interval
      <3> SUFFICES ASSUME k > record'.count
                   PROVE  /\ Interval # 0
                          /\ Latest(t)[k + 1 - record'.count]
                               > Latest(t)[k - record'.count] + Interval
        OBVIOUS
      <3>1. record'.count \in Nat
        BY <2>2, <1>1
      <3>2. k + 1 - record'.count \in 1 .. k /\ k - record'.count \in 1 .. k
        BY <3>1, <2>9, <2>5
      <3>3. /\ Latest(t)[k + 1 - record'.count] = t[n + 2 - record'.count]
            /\ Latest(t)[k - record'.count] = t[n + 1 - record'.count]
            /\ n + 1 - record'.count \in 1 .. n
        <4>1. /\ (k + 1 - record'.count) + (n + 1 - k) = n + 2 - record'.count
              /\ (k - record'.count) + (n + 1 - k) = n + 1 - record'.count
              /\ n + 1 - record'.count \in 1 .. n
          BY <3>1, <2>9, <2>5, <1>0
        <4>2. QED
          BY <4>1, <3>2, <2>4
      <3>4. fails # <<>> /\ fails[n] = record.failed /\ record.failed > unlock
        BY <3>3, <1>1 DEF LInv, FailsInv
      <3>5. CASE StartsOver(s, Client)
        <4>1. record'.count = 1
          BY <3>5, <2>2
        <4>2. Interval # 0 /\ s > TsIncr(record.failed, Interval)
          BY <3>5, <3>4, <1>1 DEF StartsOver, Client
        <4>3. t[n + 2 - record'.count] = s /\ t[n + 1 - record'.count] = record.failed
          <5>1. n + 2 - record'.count = n + 1 /\ n + 1 - record'.count = n
            BY <4>1, <1>1
          <5>2. QED
            BY <5>1, <3>3, <3>4, <2>3
        <4>4. QED
          BY <4>2, <4>3, <3>3, <1>1, NoWrapEnds
      <3>6. CASE ~StartsOver(s, Client)
        <4>1. record'.count = record.count + 1
          BY <3>6, <2>2
        <4>2. /\ n > record.count
              /\ n + 1 - record.count \in 1 .. n /\ n - record.count \in 1 .. n
          <5>1. record.count >= 1
            BY <3>4 DEF LInv, FailsInv
          <5>2. QED
            <6>1. n + 1 - record'.count \in 1 .. n
              BY <3>3
            <6>2. QED
              BY <6>1, <5>1, <4>1, <1>0
        <4>3. Interval # 0 /\ fails[n + 1 - record.count] > fails[n - record.count] + Interval
          BY <4>2, <3>4 DEF LInv, FailsInv
        <4>4. n + 2 - record'.count = n + 1 - record.count /\ n + 1 - record'.count = n - record.count
          BY <4>1, <1>0
        <4>5. QED
          BY <4>2, <4>3, <4>4, <3>3, <2>3
      <3>7. QED
        BY <3>5, <3>6
    <2>11. FailsInv'
      <3>1. /\ fails' = Latest(t) /\ Len(fails') = k
            /\ record'.failed = s /\ s > unlock'
        BY <2>1, <2>2, <1>1, <1>4
      <3>2. QED
        BY <3>1, <2>4, <2>7, <2>8, <2>9, <2>10, <1>1 DEF FailsInv
    <2>12. TriesAreLimited'
      <3> SUFFICES ASSUME NEW i \in 1 .. k - MaxFail
                   PROVE  /\ Duration # 0 \/ Interval # 0
                          /\ Latest(t)[i + MaxFail] - Latest(t)[i] >= Wait
        BY <2>1, <1>1 DEF TriesAreLimited
      <3>1. i = 1 /\ k = MaxFail + 1 /\ n >= MaxFail
        BY <2>4, <2>5, <1>1
      <3>2. Latest(t)[i + MaxFail] = s
        <4>1. i + MaxFail = k
          BY <3>1, <2>5
        <4>2. QED
          BY <4>1, <2>8
      <3>3. Latest(t)[i] = fails[n + 1 - MaxFail]
        <4>1. i \in 1 .. k /\ i + (n + 1 - k) = n + 1 - MaxFail /\ n + 1 - MaxFail \in 1 .. n
          BY <3>1, <2>5, <1>1
        <4>2. QED
          BY <4>1, <2>3, <2>4
      <3>4. QED
        BY <3>1, <3>2, <3>3, TryIsLate
    <2>13. EarnedInv'
      <3> DEFINE c == record'.count
      <3>0. c \in Nat
        BY <2>2, <1>1
      <3>1. k >= c \/ k > MaxFail
        <4>1. CASE n + 1 > MaxFail
          BY <4>1, <2>4, <2>5
        <4>2. CASE n + 1 <= MaxFail /\ StartsOver(s, Client)
          BY <4>2, <2>2, <2>4, <1>1
        <4>3. CASE n + 1 <= MaxFail /\ ~StartsOver(s, Client)
          <5>1. record.failed > unlock
            BY <4>3, <1>1 DEF StartsOver, Client
          <5>2. n >= record.count
            BY <5>1, <4>3, <2>5, <1>1 DEF LInv, EarnedInv
          <5>3. QED
            BY <5>2, <4>3, <2>2, <2>4, <1>1
        <4>4. QED
          BY <4>1, <4>2, <4>3, <2>5, <1>1
      <3>2. ASSUME Interval # 0, NEW i \in 1 .. k - 1, i > k - c
            PROVE  Latest(t)[i + 1] <= Latest(t)[i] + Interval
        <4> DEFINE j == i + (n + 1 - k)
        <4>1. i \in 1 .. k /\ i + 1 \in 1 .. k /\ j \in 1 .. n /\ j > n + 1 - c /\ i \in Nat
          <5>1. n \in Nat /\ c \in Nat /\ k \in 1 .. n + 1
            BY <3>0, <2>5, <1>1
          <5> HIDE DEF n, c, k
          <5>2. QED
            BY <5>1, <3>2 DEF j
        <4>2. Latest(t)[i + 1] = t[j + 1] /\ Latest(t)[i] = fails[j]
          <5>1. (i + 1) + (n + 1 - k) = j + 1
            BY <4>1, <2>4, <1>1
          <5>2. Latest(t)[i + 1] = t[(i + 1) + (n + 1 - k)] /\ Latest(t)[i] = t[i + (n + 1 - k)]
            BY <4>1, <2>4
          <5>3. QED
            BY <4>1, <5>1, <5>2, <2>3
        <4>3. c # 1
          BY <4>1, <1>1
        <4>4. ~StartsOver(s, Client) /\ c = record.count + 1
          BY <4>3, <2>2
        <4>5. record.failed > unlock /\ s <= record.failed + Interval
          BY <4>4, <3>2, <1>1, NoWrapEnds DEF StartsOver, Client
        <4>6. CASE j = n
          <5>1. fails # <<>> /\ fails[n] = record.failed
            BY <4>1, <4>6, <1>1 DEF LInv, FailsInv
          <5>2. QED
            BY <4>2, <4>5, <4>6, <5>1, <2>3
        <4>7. CASE j # n
          <5>1. j \in 1 .. n - 1 /\ j > n - record.count /\ j + 1 \in 1 .. n
            <6>1. n \in Nat /\ c \in Nat /\ record.count \in Nat
              BY <3>0, <1>1
            <6> HIDE DEF n, c, k, j
            <6>2. QED
              BY <6>1, <4>1, <4>4, <4>7
          <5>2. fails[j + 1] <= fails[j] + Interval
            BY <5>1, <4>5, <3>2 DEF LInv, EarnedInv
          <5>3. QED
            BY <5>1, <5>2, <4>2, <2>3
        <4>8. QED
          BY <4>6, <4>7
      <3>3. QED
        <4>1. fails' = Latest(t) /\ Len(fails') = k
          BY <2>1
        <4> HIDE DEF t, k, n, c
        <4>2. QED
          BY <4>1, <3>1, <3>2, <1>1 DEF EarnedInv, c
    <2>14. QED
      BY <2>2, <2>11, <2>12, <2>13, <1>1, <1>2 DEF LInv, CountInv
  <1>5. QED
    BY <1>1, <1>3, <1>4

(* A step that clears the count and forgets the failures keeps it. *)
LEMMA ClearedKeeps ==
  ASSUME NoWrap, IInv, Bounds, policy' = policy, TriedInv',
         fails' = <<>>, record'.failed = record.failed, record'.count = 0
  PROVE  LInv'
  <1>1. Len(fails') = 0 /\ MaxFail' = MaxFail /\ MaxFail \in Nat /\ record'.failed \in Nat
    BY NoWrapEnds DEF MaxFail, IInv
  <1>2. FailsInv' /\ EarnedInv' /\ CountInv' /\ TriesAreLimited'
    BY <1>1 DEF FailsInv, EarnedInv, CountInv, TriesAreLimited
  <1>3. QED
    BY <1>2 DEF LInv

(* The other steps keep it as well. *)
LEMMA StepKeeps ==
  ASSUME NoWrap, IInv, Bounds, LInv, Limits, [Next]_vars
  PROVE  LInv'
  <1>1. CASE Tick /\ UNCHANGED policy
    BY <1>1 DEF Tick, LInv, FailsInv, EarnedInv, TriedInv, CountInv, TriesAreLimited, Client, Locked,
         MaxFail, Interval, Duration, Wait
  <1>2. CASE Request /\ UNCHANGED policy
    <2>1. TriedInv'
      <3>1. /\ tried' = [stamp |-> now, client |-> Client] /\ ~Locked(now, Client)
            /\ record' = record /\ unlock' = unlock /\ policy' = policy
        BY <1>2 DEF Request, Limits
      <3>2. tried'.stamp = now /\ tried'.client = Client /\ Client' = Client
        BY <3>1 DEF Client
      <3>3. (~Locked(tried.stamp, tried.client))'
        <4>1. MaxFail' = MaxFail /\ Duration' = Duration
          BY <3>1 DEF MaxFail, Duration
        <4>2. QED
          BY <4>1, <3>1, <3>2 DEF Locked
      <3>4. record'.failed <= tried'.stamp
        BY <3>1, <3>2 DEF IInv
      <3>5. QED
        BY <3>2, <3>3, <3>4 DEF TriedInv
    <2>2. QED
      BY <1>2, <2>1 DEF Request, LInv, FailsInv, EarnedInv, CountInv, TriesAreLimited,
           MaxFail, Interval, Duration, Wait
  <1>3. CASE Fail /\ UNCHANGED policy
    BY <1>3, FailKeeps
  <1>4. CASE Succeed /\ UNCHANGED policy
    <2>1. /\ tried # NoTry /\ tried' = NoTry /\ unlock' = unlock /\ policy' = policy
          /\ ~Locked(tried.stamp, tried.client)
          /\ tried.client = Client \/ (fails = <<>> /\ record.count = 0)
      BY <1>4 DEF Succeed, Answered, LInv, TriedInv
    <2>2. TriedInv'
      BY <2>1 DEF TriedInv
    <2>3. CASE ~RequiresPreauth
      <3>1. record' = record /\ fails' = fails
        BY <1>4, <2>3 DEF Succeed, AuditSuccess
      <3>2. FailsInv' /\ EarnedInv' /\ CountInv' /\ TriesAreLimited'
        BY <2>1, <3>1 DEF LInv, FailsInv, EarnedInv, CountInv, TriesAreLimited,
             MaxFail, Interval, Duration, Wait
      <3>3. QED
        BY <2>2, <3>2 DEF LInv
    <2>4. CASE RequiresPreauth
      <3>1. /\ record' = Apply(tried.client.count # 0, ~DisableLastSuccess, FALSE, tried.stamp)
            /\ fails' = <<>>
        BY <1>4, <2>1, <2>4 DEF Succeed, AuditSuccess, Limits
      <3>2. /\ record'.failed = record.failed
            /\ record'.count = ((IF tried.client.count # 0 THEN 0 ELSE record.count) + 0) % Width
        BY <3>1 DEF Apply
      <3>3. tried.client.count # 0 \/ record.count = 0
        BY <2>1 DEF Client
      <3>4. record'.count = 0
        <4>1. (0 + 0) % Width = 0
          BY LockoutAssumption
        <4>2. QED
          BY <3>2, <3>3, <4>1
      <3>5. QED
        BY <2>1, <2>2, <3>1, <3>2, <3>4, ClearedKeeps
    <2>5. QED
      BY <2>3, <2>4, LockoutAssumption
  <1>5. CASE Refuse /\ UNCHANGED policy
    BY <1>5 DEF Refuse, Answered, LInv, FailsInv, EarnedInv, TriedInv, CountInv, TriesAreLimited,
         MaxFail, Interval, Duration, Wait
  <1>6. CASE AdminUnlock /\ UNCHANGED policy
    <2>1. /\ record' = Apply(TRUE, FALSE, FALSE, now) /\ fails' = <<>> /\ tried' = tried
          /\ policy' = policy
      BY <1>6 DEF AdminUnlock
    <2>2. record'.failed = record.failed /\ record'.count = 0
      <3>1. record'.failed = record.failed /\ record'.count = (0 + 0) % Width
        BY <2>1 DEF Apply
      <3>2. QED
        BY <3>1, LockoutAssumption
    <2>3. TriedInv'
      BY <2>1, <2>2 DEF TriedInv, LInv, Locked, MaxFail, Duration
    <2>4. QED
      BY <2>1, <2>2, <2>3, ClearedKeeps
  <1>7. CASE Reset /\ UNCHANGED policy
    <2>1. /\ record' = Apply(TRUE, FALSE, FALSE, now) /\ fails' = <<>> /\ tried' = tried
          /\ policy' = policy
      BY <1>7 DEF Reset
    <2>2. record'.failed = record.failed /\ record'.count = 0
      <3>1. record'.failed = record.failed /\ record'.count = (0 + 0) % Width
        BY <2>1 DEF Apply
      <3>2. QED
        BY <3>1, LockoutAssumption
    <2>3. TriedInv'
      BY <2>1, <2>2 DEF TriedInv, LInv, Locked, MaxFail, Duration
    <2>4. QED
      BY <2>1, <2>2, <2>3, ClearedKeeps
  <1>8. CASE UNCHANGED vars
    BY <1>8 DEF vars, LInv, FailsInv, EarnedInv, TriedInv, CountInv, TriesAreLimited, Client,
         Locked, MaxFail, Interval, Duration, Wait
  <1>9. QED
    BY <1>1, <1>2, <1>3, <1>4, <1>5, <1>6, <1>7, <1>8 DEF Next

(* The invariant of the failures holds wherever lockout is in force.       *)
LEMMA FailuresAreKept == NoWrap => (Spec => [](IInv /\ Bounds /\ (Limits => LInv)))
  <1> SUFFICES ASSUME NoWrap PROVE Spec => [](IInv /\ Bounds /\ (Limits => LInv))
    OBVIOUS
  <1>1. Init => Bounds /\ (Limits => LInv)
    <2> SUFFICES ASSUME Init PROVE Bounds /\ (Limits => LInv)
      OBVIOUS
    <2>1. Bounds
      BY LockoutAssumption DEF Init, Bounds
    <2>2. Len(fails) = 0 /\ MaxFail \in Nat
      BY <2>1, LockoutAssumption DEF Init, Bounds, MaxFail
    <2>3. FailsInv /\ EarnedInv /\ TriedInv /\ CountInv /\ TriesAreLimited
      BY <2>2 DEF Init, FailsInv, EarnedInv, TriedInv, CountInv, TriesAreLimited
    <2>4. QED
      BY <2>1, <2>3 DEF LInv
  <1>2. IInv /\ Bounds /\ (Limits => LInv) /\ [Next]_vars => (Bounds /\ (Limits => LInv))'
    <2> SUFFICES ASSUME IInv, Bounds, Limits => LInv, [Next]_vars
                 PROVE  Bounds' /\ (Limits' => LInv')
      OBVIOUS
    <2>1. policy' = policy /\ (now' = now \/ (now < MaxTime /\ now' = now + 1))
      BY DEF Next, Tick, Request, Fail, Succeed, Refuse, Answered, AdminUnlock, Reset, vars
    <2>2. Bounds'
      BY <2>1, LockoutAssumption DEF Bounds, IInv
    <2>3. Limits' => Limits
      BY <2>1 DEF Limits, MaxFail
    <2>4. QED
      BY <2>2, <2>3, StepKeeps
  <1>3. QED
    BY <1>1, <1>2, Invariance, PTL DEF Spec

(* No more failures than the policy allows, in any of the time it takes a  *)
(* lock or an interval to end (lockout.rs, lockout_check_policy and        *)
(* lockout_audit), for every policy, as long as no time or count wraps.    *)
THEOREM TriesHold == NoWrap => (Spec => []TriesAreLimited)
  <1> SUFFICES ASSUME NoWrap PROVE Spec => []TriesAreLimited
    OBVIOUS
  <1>1. Bounds /\ (Limits => LInv) => TriesAreLimited
    BY DEF Limits, LInv, TriesAreLimited
  <1>2. QED
    BY <1>1, FailuresAreKept, PTL

(* A count that reaches max_fail is one of failures near each other.       *)
LEMMA LockIsEarned ==
  ASSUME NoWrap, IInv, Bounds, LInv, Limits
  PROVE  LocksAreEarned
  <1> DEFINE n == Len(fails)
             c == record.count
             m == MaxFail
             near == Interval # 0 => \A i \in n + 1 - m .. n - 1 : fails[i + 1] <= fails[i] + Interval
             lasts == Duration # 0 => fails[n] + Duration > now
  <1>1. /\ n \in Nat /\ c \in Nat /\ m \in Nat \ {0} /\ Interval \in Nat /\ Duration \in Nat
        /\ record.failed \in Nat /\ unlock \in Nat
        /\ TsIncr(record.failed, Duration) = record.failed + Duration
    BY LockoutAssumption, NoWrapEnds DEF IInv, LInv, FailsInv, Limits
  <1>2. fails # <<>> =>
          /\ fails[n] = record.failed /\ record.failed > unlock /\ c >= 1
          /\ n > c => Interval # 0 /\ fails[n + 1 - c] > fails[n - c] + Interval
    BY DEF LInv, FailsInv
  <1>3. IsLocked <=> /\ record.failed > unlock /\ c >= m
                     /\ Duration # 0 => record.failed + Duration > now
    BY <1>1 DEF IsLocked, Locked
  <1>4. ASSUME IsLocked PROVE n >= m /\ near /\ lasts
    <2>1. n >= c \/ n > m
      BY <1>3, <1>4 DEF LInv, EarnedInv
    <2>2. n >= m /\ fails # <<>>
      BY <2>1, <1>1, <1>3, <1>4
    <2>3. near
      <3> SUFFICES ASSUME Interval # 0, NEW i \in n + 1 - m .. n - 1
                   PROVE  fails[i + 1] <= fails[i] + Interval
        OBVIOUS
      <3>1. i \in 1 .. n - 1 /\ i > n - c
        BY <2>2, <1>1, <1>3, <1>4
      <3>2. QED
        BY <3>1, <1>3, <1>4 DEF LInv, EarnedInv
    <2>4. QED
      BY <2>2, <2>3, <1>2, <1>3, <1>4
  <1>5. ASSUME n >= m, near, lasts PROVE IsLocked
    <2>1. fails # <<>> /\ fails[n] = record.failed /\ record.failed > unlock /\ c >= 1
      BY <1>1, <1>2, <1>5
    <2>2. c >= m
      <3> SUFFICES ASSUME c < m PROVE FALSE
        BY <1>1
      <3>1. Interval # 0 /\ fails[n + 1 - c] > fails[n - c] + Interval
        BY <2>1, <1>1, <1>2, <1>5
      <3>2. n - c \in n + 1 - m .. n - 1 /\ (n - c) + 1 = n + 1 - c
        BY <2>1, <1>1, <1>5
      <3>3. fails[n + 1 - c] <= fails[n - c] + Interval
        BY <3>1, <3>2, <1>5
      <3>4. fails[n + 1 - c] \in Nat /\ fails[n - c] \in Nat
        <4>1. n + 1 - c \in 1 .. n /\ n - c \in 1 .. n
          BY <2>1, <1>1, <1>5
        <4>2. QED
          BY <4>1 DEF LInv, FailsInv
      <3>5. QED
        BY <3>1, <3>3, <3>4, <1>1
    <2>3. QED
      BY <2>1, <2>2, <1>3, <1>5
  <1>6. QED
    BY <1>4, <1>5 DEF LocksAreEarned

(* The client is locked exactly when its failures earn it (lockout.rs,     *)
(* locked_check_p and lockout_audit), for every policy and whatever        *)
(* unlocks, new passwords and new keys come between a request's look and   *)
(* its outcome, as long as no time or count wraps.                         *)
THEOREM LocksHold == NoWrap => (Spec => []LocksAreEarned)
  <1> SUFFICES ASSUME NoWrap PROVE Spec => []LocksAreEarned
    OBVIOUS
  <1>1. IInv /\ Bounds /\ (Limits => LInv) => LocksAreEarned
    BY LockIsEarned DEF Limits, LocksAreEarned
  <1>2. QED
    BY <1>1, FailuresAreKept, PTL
=============================================================================
