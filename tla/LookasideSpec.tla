---------------------------- MODULE LookasideSpec ----------------------------
(***************************************************************************)
(* What the KDC's lookaside cache promises (krb5-kdc/src/lookaside.rs): a  *)
(* queue of requests, each with a mark or a reply, that an insert shortens *)
(* from the front to the first entry that is fresh and leaves room.        *)
(***************************************************************************)
EXTENDS Integers, SequencesExt

CONSTANTS
    Keys,     \* the requests
    Replies,  \* the replies, each known by its length
    MaxSize,  \* max_size
    Stale,    \* STALE_TIME
    MaxTime   \* bound on the clock

VARIABLES
    entries,  \* [key, reply, timein], oldest first
    now

(* A request in progress has no reply. *)
Mark == 0

(* ENTRY_OVERHEAD and the request's own length count for one. *)
Size(reply) == 1 + reply

Total(es) == FoldSeq(LAMBDA e, n : n + Size(e.reply), 0, es)

Kept(es, incoming) ==
    LET from == {i \in 1 .. Len(es) :
                    /\ now - es[i].timein <= Stale
                    /\ Total(SubSeq(es, i, Len(es))) + incoming <= MaxSize}
    IN IF from = {} THEN <<>> ELSE SubSeq(es, Min(from), Len(es))

With(es, k, reply) ==
    Append(Kept(es, Size(reply)), [key |-> k, reply |-> reply, timein |-> now])

Without(es, k) == SelectSeq(es, LAMBDA e : e.key # k)

Init == entries = <<>> /\ now = 0

Tick == now < MaxTime /\ now' = now + 1 /\ UNCHANGED entries

(* A request that is not held is marked. *)
MarkKey(k) ==
    /\ \A e \in Range(entries) : e.key # k
    /\ entries' = With(entries, k, Mark)
    /\ UNCHANGED now

(* A reply takes the place of whatever is held for its request. *)
Keep(k, reply) ==
    /\ entries' = With(Without(entries, k), k, reply)
    /\ UNCHANGED now

Forget(k) ==
    /\ entries' = Without(entries, k)
    /\ UNCHANGED now

Next ==
    \/ Tick
    \/ \E k \in Keys : MarkKey(k) \/ Forget(k) \/ \E r \in Replies : Keep(k, r)

Spec == Init /\ [][Next]_<<entries, now>>
=============================================================================
