------------------------------ MODULE Lookaside ------------------------------
(***************************************************************************)
(* The lookaside cache as krb5-kdc/src/lookaside.rs keeps it: a map from   *)
(* requests to entries, and a queue of slots whose first slot has number   *)
(* head.  Removing an entry only empties its slot; the slot leaves the     *)
(* queue when it reaches the front.                                        *)
(***************************************************************************)
EXTENDS Integers, SequencesExt

CONSTANTS
    Keys,     \* the requests
    Replies,  \* the replies, each known by its length
    Empty,    \* an emptied slot, no request
    MaxSize,  \* max_size
    Stale,    \* STALE_TIME
    MaxTime,  \* bound on the clock
    MaxSeq    \* bound on the slots ever used

VARIABLES
    la,        \* [map, order, head, total]
    inFlight,  \* how many times a request is between check_or_mark and finish
    now

vars == <<la, inFlight, now>>

-----------------------------------------------------------------------------
Mark == 0

(* ENTRY_OVERHEAD and the request's own length count for one. *)
Size(reply) == 1 + reply

Init ==
    /\ la = [map |-> <<>>, order |-> <<>>, head |-> 0, total |-> 0]
    /\ inFlight = [k \in Keys |-> 0]
    /\ now = 0

(* The front slot holds an entry: it is not empty, and its request was not *)
(* removed and put back under another number.                              *)
FrontIsLive(l) ==
    /\ Head(l.order) \in DOMAIN l.map
    /\ l.map[Head(l.order)].seq = l.head

RECURSIVE EvictKeepsHead(_, _)
EvictKeepsHead(l, incoming) ==
    IF l.order = <<>> THEN l
    ELSE LET k == Head(l.order)
         IN IF FrontIsLive(l)
            THEN IF now - l.map[k].timein <= Stale /\ l.total + incoming <= MaxSize
                 THEN l
                 ELSE EvictKeepsHead([map |-> Restrict(l.map, DOMAIN l.map \ {k}),
                                      order |-> Tail(l.order),
                                      head |-> l.head,
                                      total |-> l.total - l.map[k].size], incoming)
            ELSE EvictKeepsHead([l EXCEPT !.order = Tail(@), !.head = @ + 1], incoming)

RECURSIVE Evict(_, _)
Evict(l, incoming) ==
    IF l.order = <<>> THEN l
    ELSE LET k == Head(l.order)
         IN IF FrontIsLive(l)
            THEN IF now - l.map[k].timein <= Stale /\ l.total + incoming <= MaxSize
                 THEN l
                 ELSE Evict([map |-> Restrict(l.map, DOMAIN l.map \ {k}),
                             order |-> Tail(l.order),
                             head |-> l.head + 1,
                             total |-> l.total - l.map[k].size], incoming)
            ELSE Evict([l EXCEPT !.order = Tail(@), !.head = @ + 1], incoming)

InsertUncounted(l, k, reply) ==
    LET e == Evict(l, 0)
        entry == [timein |-> now, reply |-> reply, seq |-> e.head + Len(e.order),
                  size |-> Size(reply)]
    IN [map |-> [x \in DOMAIN e.map \cup {k} |-> IF x = k THEN entry ELSE e.map[x]],
        order |-> Append(e.order, k),
        head |-> e.head,
        total |-> e.total + Size(reply)]

Insert(l, k, reply) ==
    LET e == Evict(l, Size(reply))
        entry == [timein |-> now, reply |-> reply, seq |-> e.head + Len(e.order),
                  size |-> Size(reply)]
    IN [map |-> [x \in DOMAIN e.map \cup {k} |-> IF x = k THEN entry ELSE e.map[x]],
        order |-> Append(e.order, k),
        head |-> e.head,
        total |-> e.total + Size(reply)]

DiscardKeepsTotal(l, k) ==
    IF k \notin DOMAIN l.map THEN l
    ELSE [map |-> Restrict(l.map, DOMAIN l.map \ {k}),
          order |-> [i \in DOMAIN l.order |->
                        IF i = l.map[k].seq - l.head + 1 THEN Empty ELSE l.order[i]],
          head |-> l.head,
          total |-> l.total]

Discard(l, k) ==
    IF k \notin DOMAIN l.map THEN l
    ELSE [map |-> Restrict(l.map, DOMAIN l.map \ {k}),
          order |-> [i \in DOMAIN l.order |->
                        IF i = l.map[k].seq - l.head + 1 THEN Empty ELSE l.order[i]],
          head |-> l.head,
          total |-> l.total - l.map[k].size]

-----------------------------------------------------------------------------
SlotLeft == la.head + Len(la.order) < MaxSeq

Tick ==
    /\ now < MaxTime
    /\ now' = now + 1
    /\ UNCHANGED <<la, inFlight>>

(* check_or_mark of a request that is not held: it is marked and goes on   *)
(* to be processed.  Its mark may be evicted before it is finished, and    *)
(* then a retransmit is processed too.                                     *)
CheckOrMark(k) ==
    /\ SlotLeft
    /\ k \notin DOMAIN la.map
    /\ la' = Insert(la, k, Mark)
    /\ inFlight' = [inFlight EXCEPT ![k] = @ + 1]
    /\ UNCHANGED now

Finish(k, reply) ==
    /\ inFlight[k] > 0
    /\ SlotLeft
    /\ la' = Insert(Discard(la, k), k, reply)
    /\ inFlight' = [inFlight EXCEPT ![k] = @ - 1]
    /\ UNCHANGED now

(* finish with no reply, or an empty one. *)
FinishEmpty(k) ==
    /\ inFlight[k] > 0
    /\ la' = Discard(la, k)
    /\ inFlight' = [inFlight EXCEPT ![k] = @ - 1]
    /\ UNCHANGED now

(* A discarded request is not finished: its mark stays. *)
LeaveMark(k) ==
    /\ inFlight[k] > 0
    /\ inFlight' = [inFlight EXCEPT ![k] = @ - 1]
    /\ UNCHANGED <<la, now>>

Next ==
    \/ Tick
    \/ \E k \in Keys : CheckOrMark(k)
    \/ \E k \in Keys, r \in Replies : Finish(k, r)
    \/ \E k \in Keys : FinishEmpty(k)
    \/ \E k \in Keys : LeaveMark(k)

Spec == Init /\ [][Next]_vars

-----------------------------------------------------------------------------
(* The running total is the size of the entries, and is over the limit     *)
(* only for one entry that is larger than the limit by itself              *)
(* (lookaside.rs, insert, discard and evict).                              *)
TypeOK ==
    /\ DOMAIN la.map \subseteq Keys
    /\ la.order \in Seq(Keys \cup {Empty})
    /\ la.total = MapThenSumSet(LAMBDA k : la.map[k].size, DOMAIN la.map)
    /\ la.total <= MaxSize \/ Cardinality(DOMAIN la.map) = 1

(* Every entry is in the slot its number says, so that no entry outlives   *)
(* its turn at the front (lookaside.rs, seq and head).                     *)
EveryEntryHasItsSlot ==
    \A k \in DOMAIN la.map :
        /\ la.map[k].seq - la.head + 1 \in 1 .. Len(la.order)
        /\ la.order[la.map[k].seq - la.head + 1] = k

Live == {i \in 1 .. Len(la.order) :
            la.order[i] \in DOMAIN la.map /\ la.map[la.order[i]].seq = la.head + i - 1}

(* The entries in the order of their slots. *)
Entries ==
    LET at == SetToSortSeq(Live, <)
    IN [j \in 1 .. Len(at) |-> LET k == la.order[at[j]]
                                IN [key |-> k, reply |-> la.map[k].reply,
                                    timein |-> la.map[k].timein]]

Abstract == INSTANCE LookasideSpec WITH entries <- Entries

(* The map, the slots and their numbers are a queue that drops its oldest  *)
(* entries first, and only stale ones or for room (lookaside.rs).          *)
Refines == Abstract!Spec
=============================================================================
