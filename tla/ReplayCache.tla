----------------------------- MODULE ReplayCache -----------------------------
(***************************************************************************)
(* The replay cache that the acceptors of one process share                *)
(* (krb5-protocol/src/replay.rs), together with the acceptor that uses it  *)
(* (verify_ap_req_ex of krb5-protocol/src/ap_req.rs).                      *)
(*                                                                         *)
(* check_and_store runs under the cache's mutex, so one call at a time is  *)
(* between Lookup and its return; the clock goes on meanwhile.  The tag is *)
(* stored before the ticket's and the authenticator's times are looked at, *)
(* with a clock that is read again, so any number of threads may be        *)
(* between the two.                                                        *)
(*                                                                         *)
(* There are two clocks of whole seconds.  The cache counts the seconds    *)
(* since it was made (Instant, start.elapsed().as_secs()); the times are   *)
(* checked against the calendar's (KerberosTime::now).  They run at one    *)
(* rate and turn their seconds at different instants, so they turn by      *)
(* turns: counted from the second the cache was made in, the calendar's    *)
(* clock is level with the cache's or one ahead.                           *)
(***************************************************************************)
EXTENDS Integers, Sequences, FiniteSets

CONSTANTS
    Keys,        \* the tags (ReplayKey) of the messages that arrive
    Skews,       \* the clock skews callers pass
    Times,       \* the times in the messages' authenticators
    MaxEntries,  \* max_entries of with_limits
    MaxTime      \* bound on the cache's clock, in seconds

ASSUME SkewsAssumption == Skews \subseteq Nat /\ Times \subseteq Int
ASSUME LimitsAssumption == MaxEntries \in Nat \ {0} /\ MaxTime \in Nat

VARIABLES
    seen,     \* Inner::seen
    buckets,  \* Inner::buckets: [expiry, keys], oldest first
    call,     \* the call that holds the mutex, or NoCall
    now,      \* the cache's clock
    wall,     \* the calendar's clock
    skewOf,   \* the skew the receiver of each message passes
    ctime,    \* the time in each message's authenticator
    checking, \* the threads past check_and_store, before the time checks
    first,    \* when each tag was first stored, or -1
    until,    \* the last expiry each tag was stored with, or -1
    taken     \* how many times each message was accepted

vars == <<seen, buckets, call, now, wall, skewOf, ctime, checking, first, until, taken>>

-----------------------------------------------------------------------------
Bucket == [expiry : Nat, keys : SUBSET Keys]
Pending == [key : Keys, at : Nat]
NoCall == [key |-> "none", at |-> 0]

Init ==
    /\ seen = {}
    /\ buckets = <<>>
    /\ call = NoCall
    /\ now = 0
    /\ wall = 0
    /\ skewOf \in [Keys -> Skews]
    /\ ctime \in [Keys -> Times]
    /\ checking = {}
    /\ first = [k \in Keys |-> -1]
    /\ until = [k \in Keys |-> -1]
    /\ taken = [k \in Keys |-> 0]

Tick ==
    /\ now < MaxTime
    /\ wall' = IF wall = now THEN wall + 1 ELSE wall
    /\ now' = IF wall = now THEN now ELSE now + 1
    /\ UNCHANGED <<seen, buckets, call, skewOf, ctime, checking, first, until, taken>>

(* The mutex is taken and a held tag is a replay, before anything expires. *)
Lookup(k) ==
    /\ call = NoCall
    /\ k \notin seen
    /\ call' = [key |-> k, at |-> now]
    /\ UNCHANGED <<seen, buckets, now, wall, skewOf, ctime, checking, first, until, taken>>

(* One turn of the loop that drops expired buckets from the front. *)
DropExpired ==
    /\ call # NoCall
    /\ buckets # <<>>
    /\ Head(buckets).expiry < call.at
    /\ seen' = seen \ Head(buckets).keys
    /\ buckets' = Tail(buckets)
    /\ UNCHANGED <<call, now, wall, skewOf, ctime, checking, first, until, taken>>

NotPruned == TRUE

FrontIsLive == buckets # <<>> => Head(buckets).expiry >= call.at

Refuse ==
    /\ call # NoCall
    /\ FrontIsLive
    /\ Cardinality(seen) >= MaxEntries
    /\ call' = NoCall
    /\ UNCHANGED <<seen, buckets, now, wall, skewOf, ctime, checking, first, until, taken>>

PushedToFront(k, expiry) ==
    IF buckets # <<>>
    THEN [buckets EXCEPT ![1].keys = @ \cup {k}]
    ELSE Append(buckets, [expiry |-> expiry, keys |-> {k}])

(* The newest bucket takes the key when it expires at the same second. *)
Pushed(k, expiry) ==
    IF buckets # <<>> /\ buckets[Len(buckets)].expiry = expiry
    THEN [buckets EXCEPT ![Len(buckets)].keys = @ \cup {k}]
    ELSE Append(buckets, [expiry |-> expiry, keys |-> {k}])

Store ==
    /\ call # NoCall
    /\ FrontIsLive
    /\ Cardinality(seen) < MaxEntries
    /\ LET k == call.key
           expiry == call.at + skewOf[k]
       IN /\ buckets' = Pushed(k, expiry)
          /\ seen' = seen \cup {k}
          /\ first' = IF first[k] = -1 THEN [first EXCEPT ![k] = call.at] ELSE first
          /\ until' = [until EXCEPT ![k] = expiry]
    /\ checking' = checking \cup {call}
    /\ call' = NoCall
    /\ UNCHANGED <<now, wall, skewOf, ctime, taken>>

InSkewTwice(k) == ctime[k] - wall <= 2 * skewOf[k] /\ wall - ctime[k] <= 2 * skewOf[k]

(* krb5_check_clockskew: the authenticator's time against the calendar's clock. *)
InSkew(k) == ctime[k] - wall <= skewOf[k] /\ wall - ctime[k] <= skewOf[k]

CheckTimes(p) ==
    /\ checking' = checking \ {p}
    /\ taken' = IF InSkew(p.key) THEN [taken EXCEPT ![p.key] = @ + 1] ELSE taken
    /\ UNCHANGED <<seen, buckets, call, now, wall, skewOf, ctime, first, until>>

Next ==
    \/ Tick
    \/ \E k \in Keys : Lookup(k)
    \/ DropExpired
    \/ Refuse
    \/ Store
    \/ \E p \in checking : CheckTimes(p)

Spec == Init /\ [][Next]_vars

-----------------------------------------------------------------------------
(* The cache never holds more tags than its limit, and the bucket list is  *)
(* made of whole buckets (replay.rs, check_and_store refuses while full).  *)
TypeOK ==
    /\ seen \subseteq Keys
    /\ Cardinality(seen) <= MaxEntries
    /\ buckets \in Seq(Bucket)
    /\ call \in Pending \cup {NoCall}
    /\ now \in Nat
    /\ wall \in Nat
    /\ skewOf \in [Keys -> Skews]
    /\ ctime \in [Keys -> Times]
    /\ checking \subseteq Pending
    /\ first \in [Keys -> Nat \cup {-1}]
    /\ until \in [Keys -> Nat \cup {-1}]
    /\ taken \in [Keys -> Nat]

(* A tag is held to the end of the window it was stored for: whichever     *)
(* buckets other callers' skews put in front of or behind its own, no      *)
(* expiry of theirs removes it (replay.rs, the drop of expired buckets).   *)
HeldForItsWindow == \A k \in Keys : until[k] >= now => k \in seen

(* An authenticator is accepted at most once, however the clocks and the   *)
(* threads that stored its tag interleave (ap_req.rs: the tag is stored    *)
(* first, the times are checked later, against a clock read again), when   *)
(* its time is not after the second of the cache's clock its tag was first *)
(* stored in.  A sender whose clock is ahead is outside this, and so is a  *)
(* tag stored after the calendar's second turned and before the cache's:   *)
(* an authenticator of that very second can be accepted again in the last  *)
(* second of its skew, when the cache's clock has dropped the tag.         *)
AcceptedOnce == \A k \in Keys : ctime[k] <= first[k] => taken[k] <= 1

(* While every caller passes the same skew a new tag is only refused for   *)
(* tags that are still in their window: "room comes back as tags expire"   *)
(* (replay.rs, the test cap_evicts_oldest_not_grow).                       *)
RefusedForLiveTags ==
    [][ (Refuse /\ \A j, k \in Keys : skewOf[j] = skewOf[k])
          => \A k \in seen : until[k] >= call.at ]_vars
=============================================================================
