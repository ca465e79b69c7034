-------------------------- MODULE ReplayCacheProofs --------------------------
(***************************************************************************)
(* The replay cache's safety properties, for every set of tags, every mix  *)
(* of skews and every limit.                                               *)
(***************************************************************************)
EXTENDS ReplayCache, FiniteSetTheorems, TLAPS

(* Zenon first, Z3 for what needs arithmetic. *)
USE ZenonT(5), SMTT(20)

(* Every bucket's tags are held, were stored with that bucket's expiry,    *)
(* and are in no other bucket.                                             *)
BucketInv ==
    /\ \A i \in 1 .. Len(buckets) : \A k \in buckets[i].keys :
           k \in seen /\ until[k] = buckets[i].expiry
    /\ \A i, j \in 1 .. Len(buckets) :
           i # j => buckets[i].keys \cap buckets[j].keys = {}

(* The call under the mutex looked its tag up before anything expired. *)
CallInv ==
    call # NoCall => /\ call.key \notin seen
                     /\ call.at <= now
                     /\ until[call.key] < call.at

(* Two threads past the cache with the same tag stored it a window apart. *)
CheckingInv ==
    /\ \A p \in checking : /\ p.at <= now
                           /\ first[p.key] # -1
                           /\ first[p.key] <= p.at
                           /\ p.at + skewOf[p.key] <= until[p.key]
    /\ \A p, q \in checking :
           (p.key = q.key /\ p.at < q.at) => p.at + skewOf[p.key] < q.at

(* Once a message was accepted, a later store of its tag is past the time  *)
(* at which its authenticator is still in the skew.                        *)
TakenInv ==
    \A k \in Keys :
        /\ first[k] <= until[k]
        /\ first[k] = -1 => taken[k] = 0
        /\ (ctime[k] <= first[k] /\ taken[k] > 0) =>
               /\ taken[k] = 1
               /\ ctime[k] + skewOf[k] <= until[k]
               /\ \A p \in checking : p.key = k => ctime[k] + skewOf[k] < p.at

(* The clocks turn by turns. *)
ClockInv == wall = now \/ wall = now + 1

IInv ==
    /\ ClockInv
    /\ IsFiniteSet(seen)
    /\ TypeOK
    /\ BucketInv
    /\ CallInv
    /\ CheckingInv
    /\ TakenInv
    /\ HeldForItsWindow

-----------------------------------------------------------------------------
(* What the push at the end of check_and_store leaves of the buckets: all  *)
(* of them but the last are what they were, and the last has the new tag.  *)
LEMMA PushedBuckets ==
    ASSUME buckets \in Seq(Bucket), NEW k \in Keys, NEW e \in Nat
    PROVE  /\ Pushed(k, e) \in Seq(Bucket)
           /\ Len(Pushed(k, e)) \in {Len(buckets), Len(buckets) + 1}
           /\ \A i \in 1 .. Len(Pushed(k, e)) :
                 \/ i <= Len(buckets) /\ Pushed(k, e)[i] = buckets[i]
                 \/ /\ i = Len(Pushed(k, e))
                    /\ Pushed(k, e)[i].expiry = e
                    /\ \/ Pushed(k, e)[i].keys = {k}
                       \/ /\ i <= Len(buckets)
                          /\ buckets[i].expiry = e
                          /\ Pushed(k, e)[i].keys = buckets[i].keys \cup {k}
  <1>1. CASE buckets # <<>> /\ buckets[Len(buckets)].expiry = e
    <2>1. Len(buckets) \in 1 .. Len(buckets)
      BY <1>1
    <2>2. buckets[Len(buckets)] \in Bucket
      BY <2>1
    <2> DEFINE b == [buckets[Len(buckets)] EXCEPT !.keys = @ \cup {k}]
    <2>3. b \in Bucket /\ b.expiry = e /\ b.keys = buckets[Len(buckets)].keys \cup {k}
      BY <1>1, <2>2 DEF Bucket
    <2>4. Pushed(k, e) = [buckets EXCEPT ![Len(buckets)] = b]
      BY <1>1 DEF Pushed
    <2> HIDE DEF b
    <2>5. /\ [buckets EXCEPT ![Len(buckets)] = b] \in Seq(Bucket)
          /\ Len([buckets EXCEPT ![Len(buckets)] = b]) = Len(buckets)
      BY <2>1, <2>3
    <2>6. \A i \in 1 .. Len(buckets) :
              [buckets EXCEPT ![Len(buckets)] = b][i]
                = IF i = Len(buckets) THEN b ELSE buckets[i]
      BY <2>1
    <2> DEFINE q == Pushed(k, e)
    <2>7. /\ q \in Seq(Bucket) /\ Len(q) = Len(buckets)
          /\ \A i \in 1 .. Len(buckets) : q[i] = IF i = Len(buckets) THEN b ELSE buckets[i]
      BY <2>4, <2>5, <2>6
    <2> HIDE DEF q
    <2>8. \A i \in 1 .. Len(q) : i <= Len(buckets) /\ (i = Len(q) => q[i] = b) /\ (i # Len(q) => q[i] = buckets[i])
      BY <2>1, <2>7
    <2> QED BY <1>1, <2>1, <2>3, <2>7, <2>8 DEF q
  <1>2. CASE ~(buckets # <<>> /\ buckets[Len(buckets)].expiry = e)
    <2> DEFINE b == [expiry |-> e, keys |-> {k}]
    <2>1. b \in Bucket /\ b.expiry = e /\ b.keys = {k}
      BY DEF Bucket
    <2>2. Pushed(k, e) = Append(buckets, b)
      BY <1>2 DEF Pushed
    <2> HIDE DEF b
    <2> QED BY <2>1, <2>2
  <1> QED BY <1>1, <1>2

(* The empty cache satisfies the invariant. *)
LEMMA InitInv == Init => IInv
  <1> SUFFICES ASSUME Init PROVE IInv
    OBVIOUS
  <1> USE DEF Init
  <1>1. IsFiniteSet(seen) /\ TypeOK
    <2>1. IsFiniteSet(seen) /\ Cardinality(seen) <= MaxEntries
      BY FS_EmptySet, LimitsAssumption
    <2> QED BY <2>1 DEF TypeOK, Bucket
  <1>2. BucketInv /\ CallInv /\ CheckingInv
    BY DEF BucketInv, CallInv, CheckingInv
  <1>3. TakenInv
    BY DEF TakenInv
  <1>4. HeldForItsWindow
    BY DEF HeldForItsWindow
  <1> QED BY <1>1, <1>2, <1>3, <1>4 DEF IInv, ClockInv

(* The clock's steps: windows only ever close. *)
LEMMA TickInv == IInv /\ Tick => IInv'
  <1> SUFFICES ASSUME IInv, Tick PROVE IInv'
    OBVIOUS
  <1> USE DEF IInv, Tick
  <1>0. /\ now \in Nat /\ wall \in Nat /\ now' \in Nat /\ wall' \in Nat
        /\ now <= now' /\ ClockInv'
    BY DEF TypeOK, ClockInv
  <1>1. IsFiniteSet(seen)' /\ TypeOK'
    BY <1>0 DEF TypeOK
  <1>2. BucketInv'
    BY DEF BucketInv
  <1>3. CallInv'
    BY <1>0 DEF CallInv, TypeOK, Pending
  <1>4. CheckingInv'
    BY <1>0 DEF CheckingInv, TypeOK, Pending
  <1>5. TakenInv'
    BY DEF TakenInv
  <1>6. HeldForItsWindow'
    BY <1>0 DEF HeldForItsWindow, TypeOK
  <1> QED BY <1>0, <1>1, <1>2, <1>3, <1>4, <1>5, <1>6

(* A call that finds its tag held changes nothing; one that does not goes  *)
(* on with the time it read.                                               *)
LEMMA LookupInv == ASSUME IInv, NEW k \in Keys, Lookup(k) PROVE IInv'
  <1> USE DEF IInv, Lookup
  <1>0. ClockInv'
    BY DEF ClockInv
  <1>1. IsFiniteSet(seen)' /\ TypeOK'
    BY DEF TypeOK, Pending
  <1>2. BucketInv'
    BY DEF BucketInv
  <1>3. CallInv'
    <2>1. until[k] < now
      <3>1. ~(until[k] >= now)
        BY DEF HeldForItsWindow
      <3>2. until[k] \in Int /\ now \in Int
        BY DEF TypeOK
      <3> QED BY <3>1, <3>2
    <2> QED BY <2>1 DEF CallInv, TypeOK
  <1>4. CheckingInv'
    BY DEF CheckingInv
  <1>5. TakenInv'
    BY DEF TakenInv
  <1>6. HeldForItsWindow'
    BY DEF HeldForItsWindow
  <1> QED BY <1>0, <1>1, <1>2, <1>3, <1>4, <1>5, <1>6

(* An expired bucket goes with its own tags and no others. *)
LEMMA DropExpiredInv == IInv /\ DropExpired => IInv'
  <1> SUFFICES ASSUME IInv, DropExpired PROVE IInv'
    OBVIOUS
  <1> USE DEF IInv, DropExpired
  <1>0. /\ buckets \in Seq(Bucket) /\ Len(buckets) \in Nat /\ 1 \in 1 .. Len(buckets)
        /\ Head(buckets) = buckets[1]
        /\ buckets' \in Seq(Bucket)
        /\ Len(buckets') = Len(buckets) - 1
        /\ \A i \in 1 .. Len(buckets') :
               buckets'[i] = buckets[i + 1] /\ i + 1 \in 1 .. Len(buckets)
    BY DEF TypeOK
  <1>1. IsFiniteSet(seen)' /\ TypeOK'
    <2>1. IsFiniteSet(seen') /\ Cardinality(seen') <= Cardinality(seen)
      BY FS_Subset
    <2>2. Cardinality(seen) \in Nat /\ Cardinality(seen') \in Nat
      BY <2>1, FS_CardinalityType
    <2>3. Cardinality(seen') <= MaxEntries
      BY <2>1, <2>2, LimitsAssumption DEF TypeOK
    <2> QED BY <1>0, <2>1, <2>3 DEF TypeOK
  <1>2. BucketInv'
    <2>1. ASSUME NEW i \in 1 .. Len(buckets'), NEW k \in buckets'[i].keys
          PROVE  k \in seen' /\ until'[k] = buckets'[i].expiry
      <3>1. k \in buckets[i + 1].keys /\ i + 1 \in 1 .. Len(buckets) /\ i + 1 # 1
        BY <1>0, <2>1
      <3>2. k \notin buckets[1].keys
        BY <1>0, <3>1 DEF BucketInv
      <3>3. k \in seen /\ until[k] = buckets[i + 1].expiry
        BY <3>1 DEF BucketInv
      <3> QED BY <1>0, <3>2, <3>3
    <2>2. ASSUME NEW i \in 1 .. Len(buckets'), NEW j \in 1 .. Len(buckets'), i # j
          PROVE  buckets'[i].keys \cap buckets'[j].keys = {}
      <3>1. i + 1 # j + 1
        BY <2>2, <1>0
      <3> QED BY <3>1, <1>0 DEF BucketInv
    <2> QED BY <2>1, <2>2 DEF BucketInv
  <1>3. CallInv'
    BY DEF CallInv
  <1>4. CheckingInv'
    BY DEF CheckingInv
  <1>5. TakenInv'
    BY DEF TakenInv
  <1>6. HeldForItsWindow'
    <2> SUFFICES ASSUME NEW k \in Keys, until[k] >= now PROVE k \in seen'
      BY DEF HeldForItsWindow
    <2>1. k \in seen
      BY DEF HeldForItsWindow
    <2>2. k \notin buckets[1].keys
      <3> SUFFICES ASSUME k \in buckets[1].keys PROVE FALSE
        OBVIOUS
      <3>1. until[k] = buckets[1].expiry
        BY <1>0 DEF BucketInv
      <3>2. buckets[1].expiry < call.at /\ call.at <= now
        BY <1>0 DEF CallInv
      <3>3. buckets[1].expiry \in Nat /\ call.at \in Nat /\ now \in Nat
        <4>1. buckets[1] \in Bucket
          BY <1>0
        <4>2. call \in Pending /\ now \in Nat
          BY DEF TypeOK
        <4> QED BY <4>1, <4>2 DEF Bucket, Pending
      <3> QED BY <3>1, <3>2, <3>3
    <2> QED BY <1>0, <2>1, <2>2
  <1>7. ClockInv'
    BY DEF ClockInv
  <1> QED BY <1>1, <1>2, <1>3, <1>4, <1>5, <1>6, <1>7

(* A call refused by a full cache leaves it as it was. *)
LEMMA RefuseInv == IInv /\ Refuse => IInv'
  <1> SUFFICES ASSUME IInv, Refuse PROVE IInv'
    OBVIOUS
  <1> QED BY DEF IInv, Refuse, ClockInv, TypeOK, BucketInv, CallInv, CheckingInv, TakenInv, HeldForItsWindow

(* The stored tag's bucket is the only one with it, and any thread still   *)
(* checking an earlier store of it stored it a whole window before.        *)
LEMMA StoreInv == IInv /\ Store => IInv'
  <1> SUFFICES ASSUME IInv, Store PROVE IInv'
    OBVIOUS
  <1> DEFINE k == call.key
             e == call.at + skewOf[call.key]
  <1>0. /\ call \in Pending /\ k \in Keys /\ call.at \in Nat /\ now \in Nat
        /\ skewOf[k] \in Nat /\ e \in Nat /\ ctime[k] \in Int
        /\ first[k] \in Int /\ until[k] \in Int /\ buckets \in Seq(Bucket)
    <2>1. call \in Pending
      BY DEF IInv, TypeOK, Store
    <2>2. k \in Keys /\ call.at \in Nat
      BY <2>1 DEF Pending
    <2>3. skewOf \in [Keys -> Skews] /\ ctime \in [Keys -> Times] /\ now \in Nat
      BY DEF IInv, TypeOK
    <2>4. skewOf[k] \in Nat /\ ctime[k] \in Int
      BY <2>2, <2>3, SkewsAssumption
    <2> QED BY <2>1, <2>2, <2>3, <2>4 DEF IInv, TypeOK
  <1>1. /\ k \notin seen /\ call.at <= now /\ until[k] < call.at
    BY DEF IInv, CallInv, Store
  <1>2. /\ buckets' = Pushed(k, e)
        /\ seen' = seen \cup {k}
        /\ until' = [until EXCEPT ![k] = e]
        /\ first' = IF first[k] = -1 THEN [first EXCEPT ![k] = call.at] ELSE first
        /\ checking' = checking \cup {call}
        /\ call' = NoCall
        /\ UNCHANGED <<now, wall, skewOf, ctime, taken>>
        /\ Cardinality(seen) < MaxEntries
    BY DEF Store
  <1> DEFINE B == Pushed(k, e)
  <1>3. /\ B \in Seq(Bucket)
        /\ Len(B) \in {Len(buckets), Len(buckets) + 1}
        /\ \A i \in 1 .. Len(B) :
              \/ i <= Len(buckets) /\ B[i] = buckets[i]
              \/ /\ i = Len(B)
                 /\ B[i].expiry = e
                 /\ \/ B[i].keys = {k}
                    \/ /\ i <= Len(buckets)
                       /\ buckets[i].expiry = e
                       /\ B[i].keys = buckets[i].keys \cup {k}
    BY <1>0, PushedBuckets
  <1> HIDE DEF k, e, B
  <1>4. IsFiniteSet(seen)' /\ TypeOK'
    <2>1. /\ IsFiniteSet(seen \cup {k})
          /\ Cardinality(seen \cup {k}) = Cardinality(seen) + 1
      BY <1>1, FS_AddElement DEF IInv
    <2>2. Cardinality(seen) \in Nat
      BY FS_CardinalityType DEF IInv
    <2>3. Cardinality(seen') <= MaxEntries
      BY <1>2, <2>1, <2>2, LimitsAssumption
    <2>4. first' \in [Keys -> Nat \cup {-1}] /\ until' \in [Keys -> Nat \cup {-1}]
      BY <1>0, <1>2 DEF IInv, TypeOK
    <2>5. buckets' \in Seq(Bucket)
      BY <1>2, <1>3 DEF B
    <2> QED BY <1>0, <1>2, <2>1, <2>3, <2>4, <2>5 DEF IInv, TypeOK
  <1>5. BucketInv'
    <2>0. \A i \in 1 .. Len(buckets) : k \notin buckets[i].keys
      BY <1>1 DEF IInv, BucketInv
    <2>1. ASSUME NEW i \in 1 .. Len(B), NEW j \in B[i].keys
          PROVE  j \in seen' /\ until'[j] = B[i].expiry
      <3>1. CASE j = k
        <4>1. B[i].expiry = e
          BY <1>3, <2>0, <2>1, <3>1
        <4> QED BY <1>0, <1>2, <3>1, <4>1 DEF IInv, TypeOK
      <3>2. CASE j # k
        <4>1. i \in 1 .. Len(buckets) /\ j \in buckets[i].keys /\ B[i].expiry = buckets[i].expiry
          BY <1>3, <2>1, <3>2
        <4>2. j \in seen /\ until[j] = buckets[i].expiry
          BY <4>1 DEF IInv, BucketInv
        <4> QED BY <1>2, <3>2, <4>1, <4>2 DEF IInv, TypeOK
      <3> QED BY <3>1, <3>2
    <2>2. ASSUME NEW i \in 1 .. Len(B), NEW j \in 1 .. Len(B), i # j
          PROVE  B[i].keys \cap B[j].keys = {}
      <3> SUFFICES ASSUME NEW x, x \in B[i].keys, x \in B[j].keys PROVE FALSE
        OBVIOUS
      <3>1. CASE x = k
        <4>1. i = Len(B) /\ j = Len(B)
          BY <1>3, <2>0, <3>1
        <4> QED BY <2>2, <4>1
      <3>2. CASE x # k
        <4>1. /\ i \in 1 .. Len(buckets) /\ x \in buckets[i].keys
              /\ j \in 1 .. Len(buckets) /\ x \in buckets[j].keys
          BY <1>3, <3>2
        <4> QED BY <2>2, <4>1 DEF IInv, BucketInv
      <3> QED BY <3>1, <3>2
    <2> QED BY <1>2, <2>1, <2>2 DEF BucketInv, B
  <1>6. CallInv'
    BY <1>2 DEF CallInv
  <1>7. CheckingInv'
    <2>1. ASSUME NEW p \in checking'
          PROVE  /\ p.at <= now
                 /\ first'[p.key] # -1
                 /\ first'[p.key] <= p.at
                 /\ p.at + skewOf[p.key] <= until'[p.key]
      <3>1. CASE p = call
        <4>1. first[k] <= until[k]
          BY <1>0 DEF IInv, TakenInv
        <4>2. first'[k] # -1 /\ first'[k] <= call.at
          BY <1>0, <1>1, <1>2, <4>1 DEF IInv, TypeOK
        <4>3. until'[k] = call.at + skewOf[k]
          BY <1>0, <1>2 DEF IInv, TypeOK, k, e
        <4> QED BY <1>0, <1>1, <3>1, <4>2, <4>3 DEF k
      <3>2. CASE p \in checking
        <4>1. /\ p \in Pending /\ p.at <= now /\ first[p.key] # -1 /\ first[p.key] <= p.at
              /\ p.at + skewOf[p.key] <= until[p.key]
          BY <3>2 DEF IInv, CheckingInv, TypeOK
        <4>2. p.key \in Keys /\ p.at \in Nat /\ skewOf[p.key] \in Nat
          BY <4>1, SkewsAssumption DEF Pending, IInv, TypeOK
        <4>3. first'[p.key] = first[p.key]
          BY <1>2, <4>1, <4>2 DEF IInv, TypeOK
        <4>4. CASE p.key = k
          <5>1. until'[k] = e /\ until[k] <= e
            BY <1>0, <1>1, <1>2 DEF IInv, TypeOK, e, k
          <5> QED BY <1>0, <4>1, <4>2, <4>3, <4>4, <5>1
        <4>5. CASE p.key # k
          <5>1. until'[p.key] = until[p.key]
            BY <1>0, <1>2, <4>2, <4>5 DEF IInv, TypeOK
          <5> QED BY <4>1, <4>3, <5>1
        <4> QED BY <4>4, <4>5
      <3> QED BY <1>2, <2>1, <3>1, <3>2
    <2>2. ASSUME NEW p \in checking', NEW q \in checking', p.key = q.key, p.at < q.at
          PROVE  p.at + skewOf[p.key] < q.at
      <3>0. p \in Pending /\ q \in Pending
        BY <1>0, <1>2 DEF IInv, TypeOK
      <3>1. CASE p \in checking /\ q \in checking
        BY <2>2, <3>1 DEF IInv, CheckingInv
      <3>2. CASE p \in checking /\ q = call
        <4>1. p.at + skewOf[p.key] <= until[p.key]
          BY <3>2 DEF IInv, CheckingInv
        <4>2. p.key = k /\ p.at \in Nat
          BY <2>2, <3>0, <3>2 DEF k, Pending
        <4> QED BY <1>0, <1>1, <3>2, <4>1, <4>2
      <3>3. CASE p = call /\ q \in checking
        <4>1. /\ q.at + skewOf[q.key] <= until[q.key]
              /\ q.key = k /\ q.at \in Nat
          BY <2>2, <3>0, <3>3 DEF IInv, CheckingInv, k, Pending
        <4> QED BY <1>0, <1>1, <2>2, <3>3, <4>1
      <3>4. CASE p = call /\ q = call
        BY <1>0, <2>2, <3>4
      <3> QED BY <1>2, <3>1, <3>2, <3>3, <3>4
    <2>3. now' = now /\ skewOf' = skewOf
      BY <1>2
    <2> QED BY <2>1, <2>2, <2>3 DEF CheckingInv
  <1>8. TakenInv'
    <2> SUFFICES ASSUME NEW j \in Keys
                 PROVE  /\ first'[j] <= until'[j]
                        /\ first'[j] = -1 => taken[j] = 0
                        /\ (ctime[j] <= first'[j] /\ taken[j] > 0) =>
                               /\ taken[j] = 1
                               /\ ctime[j] + skewOf[j] <= until'[j]
                               /\ \A p \in checking' :
                                      p.key = j => ctime[j] + skewOf[j] < p.at
      BY <1>2 DEF TakenInv
    <2>0. /\ first[j] <= until[j]
          /\ first[j] = -1 => taken[j] = 0
          /\ (ctime[j] <= first[j] /\ taken[j] > 0) =>
                 /\ taken[j] = 1
                 /\ ctime[j] + skewOf[j] <= until[j]
                 /\ \A p \in checking : p.key = j => ctime[j] + skewOf[j] < p.at
      BY DEF IInv, TakenInv
    <2>1. CASE j # k
      <3>1. first'[j] = first[j] /\ until'[j] = until[j]
        BY <1>0, <1>2, <2>1 DEF IInv, TypeOK
      <3>2. \A p \in checking' : p.key = j => p \in checking
        BY <1>2, <2>1 DEF k
      <3> QED BY <2>0, <3>1, <3>2
    <2>2. CASE j = k
      <3>1. until'[k] = e /\ e = call.at + skewOf[k]
        BY <1>0, <1>2 DEF IInv, TypeOK, k, e
      <3>2. CASE first[k] = -1
        <4>1. first'[k] = call.at /\ taken[k] = 0
          BY <1>0, <1>2, <2>0, <2>2, <3>2 DEF IInv, TypeOK
        <4> QED BY <1>0, <2>2, <3>1, <4>1
      <3>3. CASE first[k] # -1
        <4>1. first' = first
          BY <1>2, <3>3
        <4>2. first[k] <= e /\ until[k] <= e
          BY <1>0, <1>1, <2>0, <2>2, <3>1
        <4>3. ASSUME ctime[k] <= first[k], taken[k] > 0
              PROVE  /\ taken[k] = 1
                     /\ ctime[k] + skewOf[k] <= e
                     /\ \A p \in checking' : p.key = k => ctime[k] + skewOf[k] < p.at
          <5>1. /\ taken[k] = 1 /\ ctime[k] + skewOf[k] <= until[k]
                /\ \A p \in checking : p.key = k => ctime[k] + skewOf[k] < p.at
            BY <2>0, <2>2, <4>3
          <5>2. ctime[k] + skewOf[k] < call.at
            BY <1>0, <1>1, <5>1
          <5> QED BY <1>0, <1>2, <4>2, <5>1, <5>2
        <4> QED BY <2>2, <3>1, <3>3, <4>1, <4>2, <4>3
      <3> QED BY <3>2, <3>3
    <2> QED BY <2>1, <2>2
  <1>9. HeldForItsWindow'
    <2> SUFFICES ASSUME NEW j \in Keys, until'[j] >= now PROVE j \in seen'
      BY <1>2 DEF HeldForItsWindow
    <2>1. CASE j = k
      BY <1>2, <2>1
    <2>2. CASE j # k
      <3>1. until'[j] = until[j]
        BY <1>0, <1>2, <2>2 DEF IInv, TypeOK
      <3> QED BY <1>2, <3>1 DEF IInv, HeldForItsWindow
    <2> QED BY <2>1, <2>2
  <1>10. ClockInv'
    BY <1>2 DEF IInv, ClockInv
  <1> QED BY <1>4, <1>5, <1>6, <1>7, <1>8, <1>9, <1>10 DEF IInv

(* A message is accepted only while its authenticator is in the skew, and  *)
(* then no other thread's store of its tag is old enough to be accepted.   *)
LEMMA CheckTimesInv == ASSUME IInv, NEW p \in checking, CheckTimes(p) PROVE IInv'
  <1> USE DEF CheckTimes
  <1>0. /\ p \in Pending /\ p.key \in Keys /\ p.at \in Nat /\ now \in Nat
        /\ skewOf[p.key] \in Nat /\ ctime[p.key] \in Int /\ taken[p.key] \in Nat
        /\ first[p.key] \in Int /\ until[p.key] \in Int
    <2>1. p \in Pending
      BY DEF IInv, TypeOK
    <2>2. p.key \in Keys /\ p.at \in Nat
      BY <2>1 DEF Pending
    <2>3. skewOf \in [Keys -> Skews] /\ ctime \in [Keys -> Times] /\ now \in Nat
      BY DEF IInv, TypeOK
    <2>4. skewOf[p.key] \in Nat /\ ctime[p.key] \in Int
      BY <2>2, <2>3, SkewsAssumption
    <2> QED BY <2>1, <2>2, <2>3, <2>4 DEF IInv, TypeOK
  <1>1. IsFiniteSet(seen)' /\ TypeOK'
    BY <1>0 DEF IInv, TypeOK
  <1>2. BucketInv'
    BY DEF IInv, BucketInv
  <1>3. CallInv'
    BY DEF IInv, CallInv
  <1>4. CheckingInv'
    BY DEF IInv, CheckingInv
  <1>5. TakenInv'
    <2>1. CASE ~InSkew(p.key)
      BY <2>1 DEF IInv, TakenInv
    <2>2. CASE InSkew(p.key)
      <3> DEFINE k == p.key
      <3>1. taken' = [taken EXCEPT ![k] = @ + 1] /\ now <= ctime[k] + skewOf[k]
        <4>1. wall \in Nat /\ now <= wall
          BY <1>0 DEF IInv, TypeOK, ClockInv
        <4> QED BY <1>0, <2>2, <4>1 DEF InSkew
      <3>2. /\ p.at <= now /\ first[k] # -1 /\ first[k] <= p.at
            /\ p.at + skewOf[k] <= until[k]
        BY DEF IInv, CheckingInv
      <3>3. ASSUME ctime[k] <= first[k]
            PROVE  taken[k] = 0 /\ \A q \in checking' : q.key # k
        <4>1. taken[k] = 0
          <5>1. ~(ctime[k] + skewOf[k] < p.at)
            BY <1>0, <3>1, <3>2
          <5>2. ~(taken[k] > 0)
            BY <1>0, <3>3, <5>1 DEF IInv, TakenInv
          <5> QED BY <1>0, <5>2
        <4>2. ASSUME NEW q \in checking', q.key = k PROVE FALSE
          <5>1. q \in checking /\ q # p /\ q \in Pending
            BY <4>2 DEF IInv, TypeOK
          <5>2. q.at \in Nat /\ q.at # p.at
            BY <1>0, <4>2, <5>1 DEF Pending
          <5>3. /\ q.at <= now /\ first[k] <= q.at
                /\ p.at < q.at => p.at + skewOf[k] < q.at
                /\ q.at < p.at => q.at + skewOf[k] < p.at
            BY <4>2, <5>1 DEF IInv, CheckingInv
          <5> QED BY <1>0, <3>1, <3>2, <3>3, <5>2, <5>3
        <4> QED BY <4>1, <4>2
      <3>4. ASSUME NEW j \in Keys, j # k
            PROVE  taken'[j] = taken[j]
        BY <1>0, <3>1, <3>4 DEF IInv, TypeOK
      <3>5. taken'[k] = taken[k] + 1
        BY <1>0, <3>1 DEF IInv, TypeOK
      <3>6. ASSUME NEW j \in Keys
            PROVE  /\ first[j] <= until[j]
                   /\ first[j] = -1 => taken'[j] = 0
                   /\ (ctime[j] <= first[j] /\ taken'[j] > 0) =>
                          /\ taken'[j] = 1
                          /\ ctime[j] + skewOf[j] <= until[j]
                          /\ \A q \in checking' : q.key = j => ctime[j] + skewOf[j] < q.at
        <4>1. CASE j = k
          <5>1. first[k] <= until[k] /\ first[k] # -1
            BY <1>0, <3>2 DEF IInv, TakenInv
          <5>2. ctime[k] <= first[k] => ctime[k] + skewOf[k] <= until[k]
            BY <1>0, <3>2
          <5> QED BY <1>0, <3>3, <3>5, <4>1, <5>1, <5>2
        <4>2. CASE j # k
          BY <3>4, <4>2 DEF IInv, TakenInv
        <4> QED BY <4>1, <4>2
      <3> QED BY <3>6 DEF TakenInv
    <2> QED BY <2>1, <2>2
  <1>6. HeldForItsWindow'
    BY DEF IInv, HeldForItsWindow
  <1>7. ClockInv'
    BY DEF IInv, ClockInv
  <1> QED BY <1>1, <1>2, <1>3, <1>4, <1>5, <1>6, <1>7 DEF IInv

(* The inductive invariant holds in every reachable state. *)
THEOREM CacheInvariant == Spec => []IInv
  <1>1. Init => IInv
    BY InitInv
  <1>2. IInv /\ [Next]_vars => IInv'
    <2> SUFFICES ASSUME IInv, [Next]_vars PROVE IInv'
      OBVIOUS
    <2>1. CASE Tick
      BY <2>1, TickInv
    <2>2. ASSUME NEW k \in Keys, Lookup(k) PROVE IInv'
      BY <2>2, LookupInv
    <2>3. CASE DropExpired
      BY <2>3, DropExpiredInv
    <2>4. CASE Refuse
      BY <2>4, RefuseInv
    <2>5. CASE Store
      BY <2>5, StoreInv
    <2>6. ASSUME NEW p \in checking, CheckTimes(p) PROVE IInv'
      BY <2>6, CheckTimesInv
    <2>7. CASE UNCHANGED vars
      BY <2>7 DEF vars, IInv, ClockInv, TypeOK, BucketInv, CallInv, CheckingInv, TakenInv, HeldForItsWindow
    <2> QED BY <2>1, <2>2, <2>3, <2>4, <2>5, <2>6, <2>7 DEF Next
  <1> QED BY <1>1, <1>2, PTL DEF Spec

(* A tag is held for the whole window it was stored for, whatever skews    *)
(* the other callers of check_and_store pass.                              *)
THEOREM Held == Spec => []HeldForItsWindow
  <1>1. IInv => HeldForItsWindow
    BY DEF IInv
  <1> QED BY <1>1, CacheInvariant, PTL

(* The cache stays within its limit. *)
THEOREM Bounded == Spec => []TypeOK
  <1>1. IInv => TypeOK
    BY DEF IInv
  <1> QED BY <1>1, CacheInvariant, PTL

(* verify_ap_req_ex accepts an authenticator at most once, if its time is  *)
(* not after the second of the cache's clock its tag was first stored in,  *)
(* wherever in that second the calendar's clock turns.                     *)
THEOREM Once == Spec => []AcceptedOnce
  <1>1. IInv => AcceptedOnce
    <2> SUFFICES ASSUME IInv, NEW k \in Keys, ctime[k] <= first[k] PROVE taken[k] <= 1
      BY DEF AcceptedOnce
    <2>1. taken[k] \in Nat
      BY DEF IInv, TypeOK
    <2>2. taken[k] > 0 => taken[k] = 1
      BY DEF IInv, TakenInv
    <2> QED BY <2>1, <2>2
  <1> QED BY <1>1, CacheInvariant, PTL

-----------------------------------------------------------------------------
SameSkew == \A j, k \in Keys : skewOf[j] = skewOf[k]

(* The time that the next tag is stored with, if the clock stands still. *)
StoreTime == IF call = NoCall THEN now ELSE call.at

(* Every tag held is in a bucket; and while every caller passes the same   *)
(* skew the buckets are in the order in which they expire, none of them    *)
(* later than the next one.                                                *)
OrderInv ==
    /\ \A k \in seen : \E i \in 1 .. Len(buckets) : k \in buckets[i].keys
    /\ SameSkew =>
          /\ \A i, j \in 1 .. Len(buckets) :
                 i <= j => buckets[i].expiry <= buckets[j].expiry
          /\ \A i \in 1 .. Len(buckets) : \A k \in Keys :
                 buckets[i].expiry <= StoreTime + skewOf[k]

(* What the proofs below need of the types. *)
LEMMA OrderTypes ==
  ASSUME IInv
  PROVE  /\ buckets \in Seq(Bucket) /\ Len(buckets) \in Nat
         /\ \A i \in 1 .. Len(buckets) : buckets[i].expiry \in Nat
         /\ now \in Nat /\ StoreTime \in Nat /\ StoreTime <= now
         /\ \A k \in Keys : skewOf[k] \in Nat
  <1>1. buckets \in Seq(Bucket) /\ now \in Nat /\ skewOf \in [Keys -> Skews]
    BY DEF IInv, TypeOK
  <1>2. \A i \in 1 .. Len(buckets) : buckets[i] \in Bucket
    BY <1>1
  <1>3. StoreTime \in Nat /\ StoreTime <= now
    <2>1. CASE call = NoCall
      BY <2>1, <1>1 DEF StoreTime
    <2>2. CASE call # NoCall
      <3>1. call \in Pending /\ call.at <= now
        BY <2>2 DEF IInv, TypeOK, CallInv
      <3>2. QED
        BY <3>1, <2>2 DEF Pending, StoreTime
    <2>3. QED
      BY <2>1, <2>2
  <1>4. \A i \in 1 .. Len(buckets) : buckets[i].expiry \in Nat
    BY <1>2 DEF Bucket
  <1>5. \A k \in Keys : skewOf[k] \in Nat
    BY <1>1, SkewsAssumption
  <1>6. Len(buckets) \in Nat
    BY <1>1
  <1>7. QED
    BY <1>1, <1>3, <1>4, <1>5, <1>6

(* A push keeps what the buckets held and when they expire. *)
LEMMA PushedKeeps ==
  ASSUME buckets \in Seq(Bucket), NEW k \in Keys, NEW e \in Nat
  PROVE  /\ Len(Pushed(k, e)) \in Nat \ {0}
         /\ k \in Pushed(k, e)[Len(Pushed(k, e))].keys
         /\ Len(buckets) <= Len(Pushed(k, e))
         /\ \A i \in 1 .. Len(buckets) :
               /\ buckets[i].keys \subseteq Pushed(k, e)[i].keys
               /\ Pushed(k, e)[i].expiry = buckets[i].expiry
  <1>1. CASE buckets # <<>> /\ buckets[Len(buckets)].expiry = e
    <2>1. Len(buckets) \in 1 .. Len(buckets)
      BY <1>1
    <2>2. buckets[Len(buckets)] \in Bucket
      BY <2>1
    <2> DEFINE b == [buckets[Len(buckets)] EXCEPT !.keys = @ \cup {k}]
    <2>3. b.expiry = e /\ b.keys = buckets[Len(buckets)].keys \cup {k} /\ b \in Bucket
      BY <1>1, <2>2 DEF Bucket
    <2>4. Pushed(k, e) = [buckets EXCEPT ![Len(buckets)] = b]
      BY <1>1 DEF Pushed
    <2> HIDE DEF b
    <2>5. Len([buckets EXCEPT ![Len(buckets)] = b]) = Len(buckets)
      BY <2>1, <2>3
    <2>6. \A i \in 1 .. Len(buckets) :
              [buckets EXCEPT ![Len(buckets)] = b][i]
                = IF i = Len(buckets) THEN b ELSE buckets[i]
      BY <2>1
    <2>7. Len(Pushed(k, e)) = Len(buckets) /\ Len(buckets) \in Nat \ {0}
      BY <2>1, <2>4, <2>5
    <2>8. \A i \in 1 .. Len(buckets) :
              Pushed(k, e)[i] = IF i = Len(buckets) THEN b ELSE buckets[i]
      BY <2>4, <2>6
    <2>9. k \in Pushed(k, e)[Len(buckets)].keys
      BY <2>1, <2>3, <2>8
    <2>10. QED
      BY <1>1, <2>3, <2>7, <2>8, <2>9
  <1>2. CASE ~(buckets # <<>> /\ buckets[Len(buckets)].expiry = e)
    <2> DEFINE b == [expiry |-> e, keys |-> {k}]
    <2>1. b.keys = {k} /\ b \in Bucket
      BY DEF Bucket
    <2>2. Pushed(k, e) = Append(buckets, b)
      BY <1>2 DEF Pushed
    <2> HIDE DEF b
    <2>3. QED
      BY <2>1, <2>2
  <1>3. QED
    BY <1>1, <1>2

(* A store appends the bucket that expires last. *)
LEMMA StoreOrder == ASSUME IInv, OrderInv, Store PROVE OrderInv'
  <1> DEFINE k == call.key
             e == call.at + skewOf[k]
             B == Pushed(k, e)
  <1>1. /\ call \in Pending /\ k \in Keys /\ call.at \in Nat /\ e \in Nat
        /\ StoreTime = call.at
    <2>1. call \in Pending
      BY DEF IInv, TypeOK, Store
    <2>2. k \in Keys /\ call.at \in Nat
      BY <2>1 DEF Pending
    <2>3. QED
      BY <2>1, <2>2, OrderTypes DEF StoreTime, Store
  <1>2. /\ buckets' = B /\ seen' = seen \cup {k} /\ skewOf' = skewOf
        /\ call' = NoCall /\ now' = now /\ call.at <= now
    BY DEF Store, IInv, CallInv
  <1>3. /\ B \in Seq(Bucket)
        /\ Len(B) \in {Len(buckets), Len(buckets) + 1}
        /\ \A i \in 1 .. Len(B) :
              \/ i <= Len(buckets) /\ B[i] = buckets[i]
              \/ /\ i = Len(B)
                 /\ B[i].expiry = e
                 /\ \/ B[i].keys = {k}
                    \/ /\ i <= Len(buckets)
                       /\ buckets[i].expiry = e
                       /\ B[i].keys = buckets[i].keys \cup {k}
    BY <1>1, OrderTypes, PushedBuckets
  <1>4. /\ k \in B[Len(B)].keys /\ Len(B) \in 1 .. Len(B) /\ Len(buckets) <= Len(B)
        /\ \A i \in 1 .. Len(buckets) :
              buckets[i].keys \subseteq B[i].keys /\ B[i].expiry = buckets[i].expiry
    BY <1>1, OrderTypes, PushedKeeps
  <1> HIDE DEF B
  <1>5. \A j \in seen' : \E i \in 1 .. Len(B) : j \in B[i].keys
    <2> SUFFICES ASSUME NEW j \in seen' PROVE \E i \in 1 .. Len(B) : j \in B[i].keys
      OBVIOUS
    <2>1. CASE j = k
      BY <2>1, <1>4
    <2>2. CASE j \in seen
      <3>1. PICK i \in 1 .. Len(buckets) : j \in buckets[i].keys
        BY <2>2 DEF OrderInv
      <3>2. i \in 1 .. Len(B) /\ j \in B[i].keys
        BY <3>1, <1>4, OrderTypes
      <3>3. QED
        BY <3>2
    <2>3. QED
      BY <2>1, <2>2, <1>2
  <1>6. ASSUME SameSkew
        PROVE  /\ \A i, j \in 1 .. Len(B) : i <= j => B[i].expiry <= B[j].expiry
               /\ \A i \in 1 .. Len(B) : \A j \in Keys : B[i].expiry <= now + skewOf[j]
    <2>1. /\ \A i, j \in 1 .. Len(buckets) : i <= j => buckets[i].expiry <= buckets[j].expiry
          /\ \A i \in 1 .. Len(buckets) : buckets[i].expiry <= e
      BY <1>6, <1>1 DEF OrderInv
    <2>2. \A i \in 1 .. Len(B) : B[i].expiry \in Nat /\ B[i].expiry <= e
      BY <1>1, <1>3, <2>1, OrderTypes
    <2>3. \A j \in Keys : skewOf[j] = skewOf[k]
      BY <1>1, <1>6 DEF SameSkew
    <2>4. ASSUME NEW i \in 1 .. Len(B), NEW j \in 1 .. Len(B), i <= j
          PROVE  B[i].expiry <= B[j].expiry
      <3>1. CASE B[j].expiry = e
        BY <3>1, <2>2
      <3>2. CASE B[j].expiry # e
        <4>1. j <= Len(buckets) /\ B[j] = buckets[j]
          BY <3>2, <1>3
        <4>2. i \in 1 .. Len(buckets) /\ j \in 1 .. Len(buckets)
          BY <4>1, <2>4, OrderTypes
        <4>3. B[i].expiry = buckets[i].expiry
          BY <4>2, <1>4
        <4>4. QED
          BY <4>1, <4>2, <4>3, <2>1, <2>4
      <3>3. QED
        BY <3>1, <3>2
    <2>5. \A i \in 1 .. Len(B) : \A j \in Keys : B[i].expiry <= now + skewOf[j]
      <3>1. \A j \in Keys : now + skewOf[j] \in Nat /\ e <= now + skewOf[j]
        BY <2>3, <1>1, <1>2, OrderTypes
      <3>2. QED
        BY <3>1, <2>2, <1>1
    <2>6. QED
      BY <2>4, <2>5
  <1>7. StoreTime' = now
    BY <1>2 DEF StoreTime
  <1>8. SameSkew' = SameSkew
    BY <1>2 DEF SameSkew
  <1>9. QED
    BY <1>2, <1>5, <1>6, <1>7, <1>8 DEF OrderInv

(* Every other step leaves the order as it is. *)
LEMMA StepOrder == ASSUME IInv, OrderInv, [Next]_vars PROVE OrderInv'
  <1>1. CASE Tick
    <2>1. /\ seen' = seen /\ buckets' = buckets /\ skewOf' = skewOf
          /\ now' \in Nat /\ now <= now' /\ call' = call
      BY <1>1, OrderTypes DEF Tick
    <2>2. StoreTime' \in Nat /\ StoreTime <= StoreTime'
      BY <2>1, OrderTypes DEF StoreTime
    <2>3. SameSkew => \A i \in 1 .. Len(buckets) : \A k \in Keys :
              buckets[i].expiry <= StoreTime' + skewOf[k]
      <3> SUFFICES ASSUME SameSkew, NEW i \in 1 .. Len(buckets), NEW k \in Keys
                   PROVE  buckets[i].expiry <= StoreTime' + skewOf[k]
        OBVIOUS
      <3>1. buckets[i].expiry <= StoreTime + skewOf[k]
        BY DEF OrderInv
      <3>2. QED
        BY <3>1, <2>2, OrderTypes
    <2>4. QED
      BY <2>1, <2>3 DEF OrderInv, SameSkew
  <1>2. ASSUME NEW k \in Keys, Lookup(k) PROVE OrderInv'
    <2>1. /\ seen' = seen /\ buckets' = buckets /\ skewOf' = skewOf
          /\ call = NoCall /\ call' = [key |-> k, at |-> now] /\ now' = now
      BY <1>2 DEF Lookup
    <2>2. call'.at = now
      BY <2>1
    <2>3. StoreTime' = StoreTime
      BY <2>1, <2>2 DEF StoreTime
    <2>4. QED
      BY <2>1, <2>3 DEF OrderInv, SameSkew
  <1>3. CASE DropExpired
    <2>1. /\ seen' = seen \ buckets[1].keys
          /\ Len(buckets') = Len(buckets) - 1
          /\ \A i \in 1 .. Len(buckets') : buckets'[i] = buckets[i + 1]
          /\ skewOf' = skewOf /\ call' = call /\ now' = now /\ Len(buckets) \in Nat \ {0}
      BY <1>3, OrderTypes DEF DropExpired
    <2>2. \A i \in 1 .. Len(buckets') : i + 1 \in 1 .. Len(buckets)
      BY <2>1
    <2>3. \A k \in seen' : \E i \in 1 .. Len(buckets') : k \in buckets'[i].keys
      <3> SUFFICES ASSUME NEW k \in seen'
                   PROVE  \E i \in 1 .. Len(buckets') : k \in buckets'[i].keys
        OBVIOUS
      <3>1. PICK j \in 1 .. Len(buckets) : k \in buckets[j].keys
        BY <2>1 DEF OrderInv
      <3>2. j # 1
        BY <3>1, <2>1
      <3>3. j - 1 \in 1 .. Len(buckets') /\ (j - 1) + 1 = j
        BY <3>2, <2>1
      <3>4. buckets'[j - 1] = buckets[j]
        BY <3>3, <2>1
      <3>5. QED
        BY <3>1, <3>3, <3>4
    <2>4. StoreTime' = StoreTime /\ SameSkew' = SameSkew
      BY <2>1 DEF StoreTime, SameSkew
    <2>5. ASSUME SameSkew, NEW i \in 1 .. Len(buckets'), NEW j \in 1 .. Len(buckets'), i <= j
          PROVE  buckets'[i].expiry <= buckets'[j].expiry
      <3>1. i + 1 <= j + 1 /\ i + 1 \in 1 .. Len(buckets) /\ j + 1 \in 1 .. Len(buckets)
        BY <2>5, <2>2
      <3>2. buckets[i + 1].expiry <= buckets[j + 1].expiry
        BY <3>1, <2>5 DEF OrderInv
      <3>3. QED
        BY <3>2, <2>1
    <2>6. ASSUME SameSkew, NEW i \in 1 .. Len(buckets'), NEW k \in Keys
          PROVE  buckets'[i].expiry <= StoreTime + skewOf[k]
      BY <2>1, <2>2, <2>6 DEF OrderInv
    <2>7. QED
      BY <2>1, <2>3, <2>4, <2>5, <2>6 DEF OrderInv
  <1>4. CASE Refuse
    <2>1. /\ seen' = seen /\ buckets' = buckets /\ skewOf' = skewOf
          /\ call' = NoCall /\ now' = now
      BY <1>4 DEF Refuse
    <2>2. StoreTime' \in Nat /\ StoreTime <= StoreTime'
      BY <2>1, OrderTypes DEF StoreTime
    <2>3. SameSkew => \A i \in 1 .. Len(buckets) : \A k \in Keys :
              buckets[i].expiry <= StoreTime' + skewOf[k]
      <3> SUFFICES ASSUME SameSkew, NEW i \in 1 .. Len(buckets), NEW k \in Keys
                   PROVE  buckets[i].expiry <= StoreTime' + skewOf[k]
        OBVIOUS
      <3>1. buckets[i].expiry <= StoreTime + skewOf[k]
        BY DEF OrderInv
      <3>2. QED
        BY <3>1, <2>2, OrderTypes
    <2>4. QED
      BY <2>1, <2>3 DEF OrderInv, SameSkew
  <1>5. CASE Store
    BY <1>5, StoreOrder
  <1>6. ASSUME NEW p \in checking, CheckTimes(p) PROVE OrderInv'
    BY <1>6 DEF CheckTimes, OrderInv, SameSkew, StoreTime
  <1>7. CASE UNCHANGED vars
    BY <1>7 DEF vars, OrderInv, SameSkew, StoreTime
  <1>8. QED
    BY <1>1, <1>2, <1>3, <1>4, <1>5, <1>6, <1>7 DEF Next

(* While every caller passes the same skew, check_and_store refuses a new  *)
(* tag only when as many tags as its limit are still in their window: what *)
(* has expired is dropped first, for the buckets are in order.             *)
THEOREM RoomComesBack == Spec => RefusedForLiveTags
  <1>1. Init => OrderInv
    BY DEF Init, OrderInv
  <1>2. IInv /\ OrderInv /\ [Next]_vars => OrderInv'
    BY StepOrder
  <1>3. IInv /\ OrderInv /\ [Next]_vars =>
          [(Refuse /\ \A j, k \in Keys : skewOf[j] = skewOf[k])
             => \A k \in seen : until[k] >= call.at]_vars
    <2> SUFFICES ASSUME IInv, OrderInv, Refuse, SameSkew, NEW k \in seen
                 PROVE  until[k] >= call.at
      BY DEF SameSkew
    <2>1. PICK i \in 1 .. Len(buckets) : k \in buckets[i].keys
      BY DEF OrderInv
    <2>2. until[k] = buckets[i].expiry
      BY <2>1 DEF IInv, BucketInv
    <2>3. 1 \in 1 .. Len(buckets) /\ 1 <= i /\ buckets # <<>> /\ Head(buckets) = buckets[1]
      BY OrderTypes
    <2>4. buckets[1].expiry <= buckets[i].expiry
      BY <2>3 DEF OrderInv
    <2>5. buckets[1].expiry >= call.at
      BY <2>3 DEF Refuse, FrontIsLive
    <2>6. call.at \in Nat /\ buckets[1].expiry \in Nat /\ buckets[i].expiry \in Nat
      <3>1. call \in Pending
        BY DEF IInv, TypeOK, Refuse
      <3>2. QED
        BY <3>1, <2>3, OrderTypes DEF Pending
    <2>7. QED
      BY <2>2, <2>4, <2>5, <2>6
  <1>4. QED
    BY <1>1, <1>2, <1>3, CacheInvariant, PTL DEF Spec, RefusedForLiveTags
=============================================================================
