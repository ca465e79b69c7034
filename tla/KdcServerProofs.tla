--------------------------- MODULE KdcServerProofs ---------------------------
(***************************************************************************)
(* The KDC's loop and its pool of verifiers, for any number of requests,   *)
(* connections, workers and tokens.                                        *)
(***************************************************************************)
EXTENDS KdcServer, TLAPS

(* Zenon first, Z3 for what needs arithmetic. *)
USE ZenonT(5), SMTT(20)

(* The requests that resolve_parks has not come to yet. *)
Todo == IF loop.at = "resolve" THEN loop.todo ELSE <<>>

ParkType == [req : Req, target : Nat, index : Nat \ {0}, chan : Nat \ {0}]
ConnType == [id : Nat \ {0}, req : Req, io : {"read", "parked", "write"}]

LoopShape ==
    \/ loop = Polling
    \/ loop.at = "events" /\ loop = [at |-> "events", batch |-> loop.batch]
    \/ /\ loop.at = "resolve"
       /\ loop = [at |-> "resolve", todo |-> loop.todo, late |-> loop.late]
       /\ loop.todo \in Seq(ParkType)

Shapes ==
    /\ conns \subseteq ConnType
    /\ cache \in Seq(Entry)
    /\ parks \in Seq(ParkType)
    /\ LoopShape
    /\ worker = [w \in Workers |-> worker[w]]
    /\ chans \in Seq(Chan)
    /\ tokens \in TokenLists
    /\ sends \in Nat
    /\ \A p \in AllParks : p.chan <= Len(chans)

(* Two parked requests are not the same one, unless its mark was dropped   *)
(* and D has it, and they do not wait on one connection.                   *)
Apart(D, p, q) ==
    /\ p.req = q.req => p.req \in D
    /\ p.target = q.target => p.target = Udp

AllApart(D, P, q) == \A p \in P : Apart(D, p, q)

Once(D, ps, td) ==
    /\ \A i, j \in 1 .. Len(ps) : i # j => Apart(D, ps[i], ps[j])
    /\ \A i, j \in 1 .. Len(td) : i # j => Apart(D, td[i], td[j])
    /\ \A i \in 1 .. Len(ps), j \in 1 .. Len(td) : Apart(D, ps[i], td[j])

(* A parked request has its mark in the lookaside cache, or D has it. *)
Marked(D, c, P) == \A p \in P : p.req \in D \/ \E e \in Range(c) : e.req = p.req

(* An id names one connection, and the next one's is new. *)
OneConn(cs, n) ==
    /\ \A c \in cs : c.id <= n
    /\ \A c, d \in cs : c.id = d.id => c = d

(* ParkedConnsResume, of the connections cs and the parked requests P. *)
Resumes(cs, P) ==
    /\ \A p \in P : p.target # Udp =>
           \E c \in cs : c.id = p.target /\ c.io = "parked" /\ c.req = p.req
    /\ \A c \in cs : c.io = "parked" => \E p \in P : p.target = c.id

(* A verdict that no look at the channels will find has woken the loop, or *)
(* is about to.                                                            *)
WakeInv ==
    loop.at # "events" =>
        \A p \in Range(parks) :
            chans[p.chan].verdict \in {"accept", "reject", "error"} =>
                pipe \/ \E w \in Workers : worker[w].at = "wake"

PInv ==
    /\ Shapes
    /\ Once(dropped, parks, Todo)
    /\ Marked(dropped, cache, AllParks)
    /\ OneConn(conns, sends)
    /\ Resumes(conns, AllParks)
    /\ WakeInv
-----------------------------------------------------------------------------
(* The lookaside cache. *)

(* A request's entry is taken out. *)
LEMMA WithoutDrops ==
  ASSUME NEW c \in Seq(Entry), NEW r
  PROVE  /\ Without(c, r) \in Seq(Entry)
         /\ Range(Without(c, r)) \subseteq Range(c)
  <1>1. CASE \A i \in 1 .. Len(c) : c[i].req # r
    BY <1>1 DEF Without
  <1>2. CASE \E i \in 1 .. Len(c) : c[i].req = r
    <2> DEFINE k == CHOOSE i \in 1 .. Len(c) : c[i].req = r
               d == SubSeq(c, 1, k - 1) \o SubSeq(c, k + 1, Len(c))
               n == Len(c)
    <2>1. k \in 1 .. n /\ c[k].req = r /\ n \in Nat
      BY <1>2
    <2>2. Without(c, r) = d
      BY <1>2 DEF Without
    <2> HIDE DEF k
    <2>3. SubSeq(c, 1, k - 1) \in Seq(Entry) /\ Len(SubSeq(c, 1, k - 1)) = k - 1
          /\ \A i \in 1 .. k - 1 : SubSeq(c, 1, k - 1)[i] = c[i]
      BY <2>1
    <2>4. SubSeq(c, k + 1, n) \in Seq(Entry) /\ Len(SubSeq(c, k + 1, n)) = n - k
          /\ \A i \in 1 .. n - k : SubSeq(c, k + 1, n)[i] = c[i + k]
      BY <2>1
    <2> DEFINE a == SubSeq(c, 1, k - 1)
               b == SubSeq(c, k + 1, n)
    <2>5. d = a \o b
      OBVIOUS
    <2> HIDE DEF a, b, d
    <2>6. d \in Seq(Entry) /\ Len(d) = n - 1
          /\ (\A i \in 1 .. k - 1 : d[i] = c[i])
          /\ (\A i \in k .. n - 1 : d[i] = c[i + 1])
      <3>1. a \in Seq(Entry) /\ b \in Seq(Entry) /\ Len(a) = k - 1 /\ Len(b) = n - k
        BY <2>3, <2>4 DEF a, b
      <3>2. d \in Seq(Entry) /\ Len(d) = n - 1
        <4>1. a \o b \in Seq(Entry) /\ Len(a \o b) = Len(a) + Len(b)
          BY <3>1
        <4>2. (k - 1) + (n - k) = n - 1
          BY <2>1
        <4> QED BY <4>1, <4>2, <3>1, <2>5
      <3>3. \A i \in 1 .. k - 1 : d[i] = c[i]
        BY <3>1, <2>5, <2>1, <2>3 DEF a
      <3>4. \A i \in k .. n - 1 : d[i] = c[i + 1]
        <4> SUFFICES ASSUME NEW i \in k .. n - 1 PROVE d[i] = c[i + 1]
          OBVIOUS
        <4>1. i - (k - 1) \in 1 .. n - k /\ i > Len(a) /\ i <= Len(a) + Len(b)
          BY <3>1, <2>1
        <4>2. d[i] = b[i - (k - 1)]
          BY <3>1, <4>1, <2>1, <2>5
        <4>3. b[i - (k - 1)] = c[i - (k - 1) + k]
          BY <4>1, <2>4 DEF b
        <4>4. i - (k - 1) + k = i + 1
          BY <2>1
        <4> QED BY <4>2, <4>3, <4>4
      <3> QED BY <3>2, <3>3, <3>4
    <2>7. Range(d) \subseteq Range(c)
      <3> SUFFICES ASSUME NEW i \in 1 .. n - 1 PROVE d[i] \in Range(c)
        BY <2>6 DEF Range
      <3>1. i \in 1 .. k - 1 \/ i \in k .. n - 1
        BY <2>1
      <3>2. i \in 1 .. n /\ i + 1 \in 1 .. n
        BY <2>1
      <3> QED BY <3>1, <3>2, <2>6 DEF Range
    <2> QED BY <2>2, <2>6, <2>7
  <1> QED BY <1>1, <1>2

(* An insert drops what it drops, and adds its own entry. *)
LEMMA InsertKeeps ==
  ASSUME NEW c \in Seq(Entry), NEW r \in Req, NEW reply \in Replies \cup {Mark},
         NEW d \in Inserted(c, r, reply)
  PROVE  /\ d \in Seq(Entry)
         /\ Range(d) \subseteq Range(c) \cup {[req |-> r, reply |-> reply]}
         /\ [req |-> r, reply |-> reply] \in Range(d)
  <1> DEFINE new == [req |-> r, reply |-> reply]
             n == Len(c)
  <1>1. PICK m \in 0 .. n : d = Append(SubSeq(c, m + 1, n), new)
    BY DEF Inserted, Evicted
  <1>2. new \in Entry /\ n \in Nat
    BY DEF Entry
  <1> DEFINE b == SubSeq(c, m + 1, n)
  <1>3. b \in Seq(Entry) /\ Len(b) = n - m /\ \A i \in 1 .. n - m : b[i] = c[i + m]
    BY <1>2
  <1> HIDE DEF b, new, n
  <1>4. d = Append(b, new)
    BY <1>1 DEF b
  <1>5. d \in Seq(Entry) /\ Len(d) = n - m + 1 /\ d[n - m + 1] = new
        /\ \A i \in 1 .. n - m : d[i] = c[i + m]
    BY <1>2, <1>3, <1>4
  <1>6. new \in Range(d)
    BY <1>2, <1>5 DEF Range
  <1>7. Range(d) \subseteq Range(c) \cup {new}
    <2> SUFFICES ASSUME NEW i \in 1 .. n - m + 1 PROVE d[i] \in Range(c) \cup {new}
      BY <1>5 DEF Range
    <2>1. CASE i = n - m + 1
      BY <2>1, <1>5
    <2>2. CASE i \in 1 .. n - m
      <3>1. i + m \in 1 .. n
        BY <2>2, <1>2
      <3> QED BY <3>1, <2>2, <1>5 DEF Range, n
    <2> QED BY <2>1, <2>2, <1>2
  <1> QED BY <1>5, <1>6, <1>7 DEF new

Kinds == Replies \cup {"refused", "panic", "discard", "parked"}

(* What a pass leaves of the cache. *)
LEMMA FinishedKeeps ==
  ASSUME NEW c \in Seq(Entry), NEW r \in Req, NEW kind \in Kinds,
         NEW d \in Finished(c, r, kind)
  PROVE  /\ d \in Seq(Entry)
         /\ \A e \in Range(d) : e \in Range(c) \/ (kind \in Replies /\ e = [req |-> r, reply |-> kind])
         /\ kind = "parked" => d = c
  <1> DEFINE b == Without(c, r)
  <1>1. b \in Seq(Entry) /\ Range(b) \subseteq Range(c)
    BY WithoutDrops
  <1> HIDE DEF b
  <1>2. CASE kind \in Replies
    <2>1. d \in Inserted(b, r, kind)
      BY <1>2 DEF Finished, Replies, b
    <2>2. /\ d \in Seq(Entry)
          /\ Range(d) \subseteq Range(b) \cup {[req |-> r, reply |-> kind]}
      BY <2>1, <1>1, <1>2, InsertKeeps
    <2> QED BY <2>2, <1>1, <1>2 DEF Replies
  <1>3. CASE kind \in {"refused", "panic"}
    <2>1. d = b
      BY <1>3 DEF Finished, Replies, b
    <2> QED BY <2>1, <1>1, <1>3
  <1>4. CASE kind \in {"discard", "parked"}
    <2>1. d = c
      BY <1>4 DEF Finished, Replies
    <2> QED BY <2>1
  <1> QED BY <1>2, <1>3, <1>4 DEF Kinds

-----------------------------------------------------------------------------
(* The passes over a request. *)

(* A first pass grants nothing, and waits for a token of the list. *)
LEMMA FirstPassIs ==
  ASSUME tokens \in TokenLists, NEW o \in FirstPass
  PROVE  /\ o.kind \in Kinds \ {"ticket"}
         /\ o.kind = "parked" => o.index \in DOMAIN tokens /\ o.index \in Nat \ {0}
  <1>1. tokens \in Seq(Range(tokens))
    BY TokenListsAssumption
  <1>2. tokens # <<>> => 1 \in DOMAIN tokens
    BY <1>1
  <1>3. \/ \E k \in {"error", "discard", "refused", "panic"} : o = Outcome(k)
        \/ tokens # <<>> /\ o = [kind |-> "parked", index |-> 1]
    BY DEF FirstPass, Submitted, Outcome
  <1> QED BY <1>2, <1>3 DEF Kinds, Replies, Outcome

(* A later pass grants on the verifier's accept of a token of the list. *)
LEMMA LaterPassIs ==
  ASSUME tokens \in TokenLists, NEW p \in ParkType, NEW v, NEW o \in LaterPass(p, v)
  PROVE  /\ o.kind \in Kinds
         /\ o.kind = "parked" => o.index \in DOMAIN tokens /\ o.index \in Nat \ {0}
         /\ o.kind = "ticket" => v = "accept" /\ chans[p.chan].token \in Range(tokens)
  <1>1. tokens \in Seq(Range(tokens)) /\ p.index \in Nat \ {0}
    BY TokenListsAssumption DEF ParkType
  <1>2. \/ o = Outcome("error") \/ o = Outcome("panic")
        \/ /\ o = Outcome("ticket") /\ v = "accept" /\ ~(p.index > Len(tokens))
           /\ tokens[p.index] = chans[p.chan].token
        \/ o = [kind |-> "parked", index |-> p.index + 1] /\ p.index < Len(tokens)
    <2> DEFINE w == Verdict(p, v)
    <2>1. o \in {Outcome("error"), Outcome("panic"), w}
      BY DEF LaterPass
    <2>2. CASE p.index > Len(tokens) \/ tokens[p.index] # chans[p.chan].token
      <3>1. w = Outcome("error")
        BY <2>2 DEF Verdict
      <3> QED BY <2>1, <3>1
    <2>3. CASE ~(p.index > Len(tokens)) /\ tokens[p.index] = chans[p.chan].token
      <3>1. CASE v = "accept"
        <4>1. w = Outcome("ticket")
          BY <2>3, <3>1 DEF Verdict
        <4> QED BY <2>1, <2>3, <3>1, <4>1
      <3>2. CASE v = "reject" /\ p.index < Len(tokens)
        <4>1. w = Submitted(p.index + 1)
          BY <2>3, <3>2 DEF Verdict
        <4> QED BY <2>1, <3>2, <4>1 DEF Submitted
      <3>3. CASE v # "accept" /\ ~(v = "reject" /\ p.index < Len(tokens))
        <4>1. w = Outcome("error")
          BY <2>3, <3>3 DEF Verdict
        <4> QED BY <2>1, <4>1
      <3> QED BY <3>1, <3>2, <3>3
    <2> QED BY <2>2, <2>3
  <1>3. ~(p.index > Len(tokens)) => p.index \in DOMAIN tokens
    BY <1>1
  <1>4. p.index < Len(tokens) => p.index + 1 \in DOMAIN tokens /\ p.index + 1 \in Nat \ {0}
    BY <1>1
  <1> QED BY <1>2, <1>3, <1>4 DEF Kinds, Replies, Outcome, Range

-----------------------------------------------------------------------------
(* The parked requests. *)

LEMMA ParkIs ==
  ASSUME NEW r \in Req, NEW t \in Nat, NEW i \in Nat \ {0}, NEW n \in Nat
  PROVE  LET q == [req |-> r, target |-> t, index |-> i, chan |-> n + 1]
         IN q \in ParkType /\ q.req = r /\ q.target = t /\ q.chan = n + 1
  <1>1. n + 1 \in Nat \ {0}
    OBVIOUS
  <1> QED BY <1>1 DEF ParkType

LEMMA AppendIs ==
  ASSUME NEW S, NEW s \in Seq(S), NEW e \in S
  PROVE  /\ Append(s, e) \in Seq(S) /\ Len(Append(s, e)) = Len(s) + 1
         /\ Append(s, e)[Len(s) + 1] = e
         /\ \A i \in 1 .. Len(s) : Append(s, e)[i] = s[i]
  OBVIOUS

LEMMA ParksAre ==
  ASSUME LoopShape
  PROVE  /\ AllParks = Range(parks) \cup Range(Todo)
         /\ Todo \in Seq(ParkType)
  BY DEF AllParks, Todo, LoopShape, Polling, Range

LEMMA RangeIs ==
  ASSUME NEW S, NEW s \in Seq(S)
  PROVE  /\ Range(s) \subseteq S
         /\ Range(s) = {s[i] : i \in 1 .. Len(s)}
  <1>1. DOMAIN s = 1 .. Len(s)
    OBVIOUS
  <1> QED BY <1>1 DEF Range

LEMMA ApartBoth ==
  ASSUME NEW D, NEW p, NEW q, Apart(D, p, q)
  PROVE  Apart(D, q, p)
  BY DEF Apart

(* The head of the list that is being resolved leaves it; the others stay. *)
LEMMA HeadLeaves ==
  ASSUME NEW D, NEW ps \in Seq(ParkType), NEW td \in Seq(ParkType), td # <<>>, Once(D, ps, td)
  PROVE  /\ Head(td) \in ParkType /\ Head(td) \in Range(td)
         /\ Tail(td) \in Seq(ParkType)
         /\ Once(D, ps, Tail(td))
         /\ \A x \in Range(ps) \cup Range(Tail(td)) :
                x \in Range(ps) \cup Range(td) /\ Apart(D, x, Head(td))
         /\ \A x \in Range(ps) \cup Range(td) : x = Head(td) \/ x \in Range(ps) \cup Range(Tail(td))
  <1> DEFINE n == Len(td)
             t == Tail(td)
             h == Head(td)
  <1>1. n \in Nat \ {0} /\ t \in Seq(ParkType) /\ Len(t) = n - 1 /\ h = td[1] /\ h \in ParkType
        /\ \A i \in 1 .. n - 1 : t[i] = td[i + 1]
    OBVIOUS
  <1>2. 1 \in 1 .. n /\ \A i \in 1 .. n - 1 : i + 1 \in 1 .. n /\ i + 1 # 1
    BY <1>1
  <1>3. \A i, j \in 1 .. n : i # j => Apart(D, td[i], td[j])
    BY DEF Once
  <1>4. \A i \in 1 .. Len(ps), j \in 1 .. n : Apart(D, ps[i], td[j])
    BY DEF Once
  <1>5. Range(t) = {t[i] : i \in 1 .. n - 1} /\ Range(td) = {td[i] : i \in 1 .. n}
        /\ Range(ps) = {ps[i] : i \in 1 .. Len(ps)}
    BY <1>1, RangeIs
  <1> HIDE DEF n, t, h
  <1>6. h \in Range(td)
    BY <1>1, <1>2, <1>5
  <1>7. Once(D, ps, t)
    <2>1. \A i, j \in 1 .. n - 1 : i # j => Apart(D, t[i], t[j])
      <3> SUFFICES ASSUME NEW i \in 1 .. n - 1, NEW j \in 1 .. n - 1, i # j
                   PROVE  Apart(D, t[i], t[j])
        OBVIOUS
      <3>1. i + 1 \in 1 .. n /\ j + 1 \in 1 .. n /\ i + 1 # j + 1
        BY <1>2
      <3>2. Apart(D, td[i + 1], td[j + 1])
        BY <3>1, <1>3
      <3> QED BY <3>2, <1>1
    <2>2. \A i \in 1 .. Len(ps), j \in 1 .. n - 1 : Apart(D, ps[i], t[j])
      BY <1>1, <1>2, <1>4
    <2>3. \A i, j \in 1 .. Len(ps) : i # j => Apart(D, ps[i], ps[j])
      BY DEF Once
    <2> QED BY <2>1, <2>2, <2>3, <1>1 DEF Once
  <1>8. \A x \in Range(ps) : Apart(D, x, h)
    BY <1>1, <1>2, <1>4, <1>5
  <1>9. \A x \in Range(t) : x \in Range(td) /\ Apart(D, x, h)
    BY <1>1, <1>2, <1>3, <1>5
  <1>10. \A x \in Range(td) : x = h \/ x \in Range(t)
    <2> SUFFICES ASSUME NEW i \in 1 .. n PROVE td[i] = h \/ td[i] \in Range(t)
      BY <1>5
    <2>1. CASE i = 1
      BY <2>1, <1>1
    <2>2. CASE i # 1
      <3>1. i - 1 \in 1 .. n - 1 /\ (i - 1) + 1 = i
        BY <2>2, <1>1
      <3> QED BY <3>1, <1>1, <1>5
    <2> QED BY <2>1, <2>2
  <1> QED BY <1>1, <1>6, <1>7, <1>8, <1>9, <1>10 DEF t, h

(* A request that is apart from the parked ones is added. *)
LEMMA ParkAdds ==
  ASSUME NEW ps \in Seq(ParkType), NEW td \in Seq(ParkType), NEW q \in ParkType,
         Once(dropped, ps, td), AllApart(dropped, Range(ps), q), AllApart(dropped, Range(td), q)
  PROVE  /\ Append(ps, q) \in Seq(ParkType)
         /\ Once(dropped, Append(ps, q), td)
         /\ Range(Append(ps, q)) = Range(ps) \cup {q}
  <1> DEFINE n == Len(ps)
             a == Append(ps, q)
  <1>1. n \in Nat /\ a \in Seq(ParkType) /\ Len(a) = n + 1 /\ a[n + 1] = q
        /\ \A i \in 1 .. n : a[i] = ps[i]
    OBVIOUS
  <1> HIDE DEF a
  <1>2. Range(a) = {a[i] : i \in 1 .. n + 1} /\ Range(ps) = {ps[i] : i \in 1 .. n}
        /\ Range(td) = {td[i] : i \in 1 .. Len(td)}
    <2>1. Range(a) = {a[i] : i \in 1 .. Len(a)}
      BY <1>1, RangeIs
    <2>2. Range(ps) = {ps[i] : i \in 1 .. n}
      BY RangeIs
    <2>3. Range(td) = {td[i] : i \in 1 .. Len(td)}
      BY RangeIs
    <2> QED BY <1>1, <2>1, <2>2, <2>3
  <1> HIDE DEF n
  <1>3. \A i \in 1 .. n + 1 : i \in 1 .. n \/ i = n + 1
    BY <1>1
  <1>4. n + 1 \in 1 .. n + 1 /\ \A i \in 1 .. n : i \in 1 .. n + 1
    BY <1>1
  <1>5. Range(a) = Range(ps) \cup {q}
    BY <1>1, <1>2, <1>3, <1>4
  <1>6. \A i \in 1 .. n : Apart(dropped, ps[i], q) /\ Apart(dropped, q, ps[i])
    BY <1>2, ApartBoth DEF AllApart
  <1>7. \A j \in 1 .. Len(td) : Apart(dropped, q, td[j])
    BY <1>2, ApartBoth DEF AllApart
  <1>8. \A i, j \in 1 .. n + 1 : i # j => Apart(dropped, a[i], a[j])
    BY <1>1, <1>3, <1>6 DEF Once, n
  <1>9. \A i \in 1 .. n + 1, j \in 1 .. Len(td) : Apart(dropped, a[i], td[j])
    BY <1>1, <1>3, <1>7 DEF Once, n
  <1>10. Once(dropped, a, td)
    BY <1>8, <1>9, <1>1 DEF Once
  <1> QED BY <1>1, <1>5, <1>10 DEF a

(* More marks are dropped. *)
LEMMA OnceMore ==
  ASSUME NEW D, NEW E, NEW ps \in Seq(ParkType), NEW td \in Seq(ParkType), Once(D, ps, td),
         \A p \in Range(ps) \cup Range(td) : p.req \in D => p.req \in E
  PROVE  Once(E, ps, td)
  <1>1. \A p, q \in Range(ps) \cup Range(td) : Apart(D, p, q) => Apart(E, p, q)
    BY DEF Apart
  <1>2. /\ \A i \in 1 .. Len(ps) : ps[i] \in Range(ps)
        /\ \A i \in 1 .. Len(td) : td[i] \in Range(td)
    BY RangeIs
  <1> QED BY <1>1, <1>2 DEF Once

-----------------------------------------------------------------------------
(* The connections. *)

(* An answer closes its connection or has it write; the others stay. *)
LEMMA AnsweredDoes ==
  ASSUME conns \subseteq ConnType, NEW t, NEW kind
  PROVE  /\ \A c \in Answered(t, kind) :
                /\ c \in ConnType
                /\ \/ c \in conns /\ c.id # t
                   \/ \E d \in conns : d.id = t /\ c = [d EXCEPT !.io = "write"]
         /\ \A c \in conns : c.id # t => c \in Answered(t, kind)
  <1>1. \A d \in conns : [d EXCEPT !.io = "write"] \in ConnType
    BY DEF ConnType
  <1> QED BY <1>1 DEF Answered

LEMMA ParkedDoes ==
  ASSUME conns \subseteq ConnType, NEW t
  PROVE  /\ \A c \in Parked(t) :
                /\ c \in ConnType
                /\ \E d \in conns : /\ c.id = d.id /\ c.req = d.req
                                    /\ c = [d EXCEPT !.io = IF d.id = t THEN "parked" ELSE @]
                                    /\ c.io = IF d.id = t THEN "parked" ELSE d.io
         /\ \A d \in conns : \E c \in Parked(t) :
                c.id = d.id /\ c.req = d.req /\ c.io = IF d.id = t THEN "parked" ELSE d.io
  <1> DEFINE f(d) == [d EXCEPT !.io = IF d.id = t THEN "parked" ELSE @]
  <1>1. \A d \in conns : /\ f(d) \in ConnType /\ f(d).id = d.id /\ f(d).req = d.req
                         /\ f(d).io = IF d.id = t THEN "parked" ELSE d.io
    BY DEF ConnType
  <1>2. Parked(t) = {f(d) : d \in conns}
    BY DEF Parked
  <1>3. ASSUME NEW c \in Parked(t)
        PROVE  /\ c \in ConnType
               /\ \E d \in conns : /\ c.id = d.id /\ c.req = d.req
                                   /\ c = f(d)
                                   /\ c.io = IF d.id = t THEN "parked" ELSE d.io
    <2>1. PICK d \in conns : c = f(d)
      BY <1>2
    <2>2. /\ f(d) \in ConnType /\ f(d).id = d.id /\ f(d).req = d.req
          /\ f(d).io = IF d.id = t THEN "parked" ELSE d.io
      BY <1>1
    <2> HIDE DEF f
    <2> QED BY <2>1, <2>2
  <1>4. ASSUME NEW d \in conns
        PROVE  \E c \in Parked(t) :
                c.id = d.id /\ c.req = d.req /\ c.io = IF d.id = t THEN "parked" ELSE d.io
    <2>1. f(d) \in Parked(t)
      BY <1>2
    <2>2. f(d).id = d.id /\ f(d).req = d.req /\ f(d).io = IF d.id = t THEN "parked" ELSE d.io
      BY <1>1
    <2> HIDE DEF f
    <2> QED BY <2>1, <2>2
  <1> QED BY <1>3, <1>4

PassShapes ==
    /\ cache' \in Seq(Entry)
    /\ conns' \subseteq ConnType
    /\ chans' \in Seq(Chan)
    /\ Len(chans) <= Len(chans')
    /\ parks' \in Seq(ParkType)
    /\ \A p \in Range(parks') : p \in Range(parks) \/ p.chan <= Len(chans')

(* What a pass leaves has its shape, whatever its outcome. *)
LEMMA ConcludeShapes ==
  ASSUME Shapes, NEW c \in Seq(Entry), NEW ch \in Seq(Chan), Len(ch) = Len(chans),
         NEW r \in Req, NEW target \in Nat, NEW o, o.kind \in Kinds,
         o.kind = "parked" => o.index \in DOMAIN tokens /\ o.index \in Nat \ {0},
         Conclude(c, ch, r, target, o)
  PROVE  PassShapes
  <1>1. cache' \in Seq(Entry)
    BY FinishedKeeps DEF Conclude
  <1>2. CASE o.kind = "parked"
    <2> DEFINE q == [req |-> r, target |-> target, index |-> o.index, chan |-> Len(ch) + 1]
               k == [verdict |-> "none", token |-> tokens[o.index], late |-> FALSE]
    <2>1. chans' = Append(ch, k) /\ parks' = Append(parks, q) /\ conns' = Parked(target)
      BY <1>2 DEF Conclude
    <2>2. q \in ParkType /\ q.chan = Len(ch) + 1
      BY <1>2 DEF ParkType
    <2>3. tokens[o.index] \in UNION {Range(l) : l \in TokenLists}
      BY <1>2 DEF Shapes, Range
    <2>4. k \in Chan
      BY <2>3 DEF Chan
    <2> HIDE DEF q, k
    <2>5. chans' \in Seq(Chan) /\ Len(chans') = Len(chans) + 1 /\ Len(chans) \in Nat
      BY <2>1, <2>4
    <2>6. parks' \in Seq(ParkType)
      BY <2>1, <2>2 DEF Shapes
    <2>7. \A p \in Range(parks') : p \in Range(parks) \/ p = q
      BY <2>1, <2>2, <2>6 DEF Shapes, Range
    <2>8. q.chan <= Len(chans')
      BY <2>2, <2>5
    <2>9. conns' \subseteq ConnType
      BY <2>1, ParkedDoes DEF Shapes
    <2> QED BY <1>1, <2>5, <2>6, <2>7, <2>8, <2>9 DEF PassShapes
  <1>3. CASE o.kind # "parked"
    <2>1. chans' = ch /\ parks' = parks /\ conns' = Answered(target, o.kind)
      BY <1>3 DEF Conclude
    <2>2. conns' \subseteq ConnType
      BY <2>1, AnsweredDoes DEF Shapes
    <2> QED BY <1>1, <2>1, <2>2 DEF Shapes, PassShapes
  <1> QED BY <1>2, <1>3

-----------------------------------------------------------------------------
(* The loop. *)

LEMMA LoopHandles ==
  ASSUME LoopShape, NEW e, Handles(e)
  PROVE  /\ loop.at = "events" /\ loop'.at = "events" /\ LoopShape'
         /\ Todo = <<>> /\ Todo' = <<>>
         /\ AllParks = Range(parks) /\ AllParks' = Range(parks')
  <1>1. loop = [at |-> "events", batch |-> loop.batch] /\ loop.at = "events"
    BY DEF LoopShape, Handles, Polling
  <1>2. loop' = [at |-> "events", batch |-> loop.batch \ {e}]
    BY <1>1 DEF Handles
  <1>3. loop'.at = "events" /\ loop'.batch = loop.batch \ {e}
    BY <1>2
  <1> QED BY <1>1, <1>2, <1>3 DEF LoopShape, Todo, AllParks

LEMMA TailIs ==
  ASSUME NEW S, NEW s \in Seq(S), s # <<>>
  PROVE  /\ Head(s) \in S /\ Head(s) \in Range(s)
         /\ Tail(s) \in Seq(S) /\ Range(Tail(s)) \subseteq Range(s)
  <1>1. Head(s) = s[1] /\ 1 \in 1 .. Len(s) /\ Tail(s) \in Seq(S)
    OBVIOUS
  <1>2. \A i \in 1 .. Len(Tail(s)) : i + 1 \in 1 .. Len(s) /\ Tail(s)[i] = s[i + 1]
    OBVIOUS
  <1>3. Range(s) = {s[i] : i \in 1 .. Len(s)} /\ Range(s) \subseteq S
    BY RangeIs
  <1>4. Range(Tail(s)) = {Tail(s)[i] : i \in 1 .. Len(Tail(s))}
    BY <1>1, RangeIs
  <1> QED BY <1>1, <1>2, <1>3, <1>4

LEMMA LoopResolves ==
  ASSUME LoopShape, loop.at = "resolve", loop.todo # <<>>,
         loop' = [loop EXCEPT !.todo = Tail(@)]
  PROVE  /\ LoopShape' /\ loop'.at = "resolve"
         /\ Todo = loop.todo /\ Todo' = Tail(loop.todo) /\ loop.todo \in Seq(ParkType)
         /\ AllParks = Range(parks) \cup Range(loop.todo)
         /\ AllParks' = Range(parks') \cup Range(Tail(loop.todo))
  <1>1. /\ loop = [at |-> "resolve", todo |-> loop.todo, late |-> loop.late]
        /\ loop.todo \in Seq(ParkType)
    BY DEF LoopShape, Polling
  <1>2. loop' = [at |-> "resolve", todo |-> Tail(loop.todo), late |-> loop.late]
    BY <1>1
  <1>3. loop'.at = "resolve" /\ loop'.todo = Tail(loop.todo) /\ loop'.late = loop.late
    BY <1>2
  <1>4. Tail(loop.todo) \in Seq(ParkType)
    BY <1>1, TailIs
  <1> QED BY <1>1, <1>2, <1>3, <1>4 DEF LoopShape, Todo, AllParks

LEMMA DispatchShapes ==
  ASSUME Shapes, NEW r \in Req, NEW target \in Nat, Dispatch(r, target)
  PROVE  PassShapes
  <1>1. CASE \E e \in Range(cache) : /\ conns' = Answered(target, e.reply)
                                     /\ UNCHANGED <<cache, parks, chans, queue, dropped>>
    <2>1. conns' \subseteq ConnType
      BY <1>1, AnsweredDoes DEF Shapes
    <2> QED BY <1>1, <2>1 DEF Shapes, PassShapes
  <1>2. ASSUME NEW c \in Inserted(cache, r, Mark), NEW o \in FirstPass,
               Conclude(c, chans, r, target, o)
        PROVE  PassShapes
    <2>1. c \in Seq(Entry)
      BY InsertKeeps DEF Shapes
    <2>2. /\ o.kind \in Kinds
          /\ o.kind = "parked" => o.index \in DOMAIN tokens /\ o.index \in Nat \ {0}
      BY FirstPassIs DEF Shapes
    <2> QED BY <1>2, <2>1, <2>2, ConcludeShapes DEF Shapes
  <1> QED BY <1>1, <1>2 DEF Dispatch

(* The channels after a verdict was taken from one of them. *)
Heard(c) == [chans EXCEPT ![c].verdict = "unheard", ![c].late = TRUE]

LEMMA ExceptIs ==
  ASSUME NEW S, NEW s \in Seq(S), NEW c, NEW e, c \in DOMAIN s => e \in S
  PROVE  /\ [s EXCEPT ![c] = e] \in Seq(S) /\ Len([s EXCEPT ![c] = e]) = Len(s)
         /\ \A i \in 1 .. Len(s) : [s EXCEPT ![c] = e][i] = IF i = c THEN e ELSE s[i]
  <1> DEFINE b == [s EXCEPT ![c] = e]
             n == Len(s)
  <1>1. n \in Nat /\ DOMAIN s = 1 .. n /\ s \in [1 .. n -> S]
    OBVIOUS
  <1> HIDE DEF n
  <1>2. b \in [1 .. n -> S] /\ \A i \in 1 .. n : b[i] = IF i = c THEN e ELSE s[i]
    BY <1>1
  <1> HIDE DEF b
  <1>3. b \in Seq(S) /\ Len(b) = n
    BY <1>1, <1>2
  <1> QED BY <1>2, <1>3 DEF b, n

(* A worker, the clock or the loop writes to a channel. *)
LEMMA ChanIs ==
  ASSUME NEW k \in Chan
  PROVE  /\ \A v \in {"accept", "reject", "error", "dropped", "unheard"} :
                [k EXCEPT !.verdict = v] \in Chan /\ [k EXCEPT !.verdict = v].verdict = v
         /\ [k EXCEPT !.late = TRUE] \in Chan /\ [k EXCEPT !.late = TRUE].verdict = k.verdict
  BY DEF Chan

LEMMA HeardIs ==
  ASSUME chans \in Seq(Chan), NEW c
  PROVE  /\ Heard(c) \in Seq(Chan) /\ Len(Heard(c)) = Len(chans)
         /\ \A i \in 1 .. Len(chans) : \/ Heard(c)[i].verdict = "unheard"
                                       \/ Heard(c)[i] = chans[i]
  <1> DEFINE k == [chans[c] EXCEPT !.verdict = "unheard"]
             a == [chans EXCEPT ![c] = k]
             l == [a[c] EXCEPT !.late = TRUE]
  <1>1. c \in DOMAIN chans => k \in Chan /\ k.verdict = "unheard"
    <2>1. c \in DOMAIN chans => chans[c] \in Chan
      OBVIOUS
    <2> QED BY <2>1, ChanIs
  <1> HIDE DEF k
  <1>2. a \in Seq(Chan) /\ Len(a) = Len(chans)
        /\ \A i \in 1 .. Len(chans) : a[i] = IF i = c THEN k ELSE chans[i]
    BY <1>1, ExceptIs
  <1>3. Heard(c) = [a EXCEPT ![c] = l]
    BY DEF Heard, k
  <1> HIDE DEF a
  <1>4. c \in DOMAIN a => l \in Chan /\ l.verdict = "unheard"
    <2> SUFFICES ASSUME c \in DOMAIN a PROVE l \in Chan /\ l.verdict = "unheard"
      OBVIOUS
    <2>1. c \in DOMAIN chans /\ a[c] = k
      BY <1>2
    <2> QED BY <2>1, <1>1, ChanIs
  <1> HIDE DEF l
  <1>5. Heard(c) \in Seq(Chan) /\ Len(Heard(c)) = Len(a)
        /\ \A i \in 1 .. Len(a) : Heard(c)[i] = IF i = c THEN l ELSE a[i]
    BY <1>2, <1>3, <1>4, ExceptIs
  <1>6. DOMAIN a = 1 .. Len(chans)
    BY <1>2
  <1> QED BY <1>2, <1>4, <1>5, <1>6

(* Resume's pass over the head of the list. *)
LEMMA ResumeDoes ==
  ASSUME Shapes, Resume
  PROVE  LET p == Head(loop.todo)
             v == IF chans[p.chan].verdict \in {"none", "dropped"} THEN "timeout"
                  ELSE chans[p.chan].verdict
         IN /\ p \in ParkType /\ p \in AllParks
            /\ \E o \in LaterPass(p, v) : Conclude(cache, Heard(p.chan), p.req, p.target, o)
  <1>1. loop.at = "resolve" /\ loop.todo # <<>> /\ loop' = [loop EXCEPT !.todo = Tail(@)]
    BY DEF Resume
  <1>2. loop.todo \in Seq(ParkType) /\ AllParks = Range(parks) \cup Range(loop.todo)
    BY <1>1, LoopResolves DEF Shapes
  <1>3. Head(loop.todo) \in ParkType /\ Head(loop.todo) \in AllParks
    BY <1>1, <1>2, TailIs
  <1> QED BY <1>3 DEF Resume, Heard

LEMMA ResumeShapes ==
  ASSUME Shapes, Resume
  PROVE  PassShapes
  <1> DEFINE p == Head(loop.todo)
             v == IF chans[p.chan].verdict \in {"none", "dropped"} THEN "timeout"
                  ELSE chans[p.chan].verdict
  <1>1. p \in ParkType /\ \E o \in LaterPass(p, v) :
                             Conclude(cache, Heard(p.chan), p.req, p.target, o)
    BY ResumeDoes
  <1> HIDE DEF p, v
  <1>2. PICK o \in LaterPass(p, v) : Conclude(cache, Heard(p.chan), p.req, p.target, o)
    BY <1>1
  <1>3. /\ o.kind \in Kinds
        /\ o.kind = "parked" => o.index \in DOMAIN tokens /\ o.index \in Nat \ {0}
    BY <1>1, LaterPassIs DEF Shapes
  <1>4. Heard(p.chan) \in Seq(Chan) /\ Len(Heard(p.chan)) = Len(chans)
    BY HeardIs DEF Shapes
  <1>5. p.req \in Req /\ p.target \in Nat /\ cache \in Seq(Entry)
    BY <1>1 DEF ParkType, Shapes
  <1> QED BY <1>2, <1>3, <1>4, <1>5, ConcludeShapes

-----------------------------------------------------------------------------
(* Every step keeps the shapes. *)

PoolStep ==
    \/ \E l \in TokenLists : EditTokens(l)
    \/ \E i \in 1 .. Len(chans) : DeadlinePasses(i)
    \/ \E w \in Workers : TakeJob(w)
    \/ \E w \in Workers, v \in {"accept", "reject", "error"} : SendVerdict(w, v)
    \/ \E w \in Workers : WakeLoop(w)

(* The pool's threads, the clock and the administrator leave the loop's    *)
(* own state alone.                                                        *)
LEMMA PoolDoes ==
  ASSUME Shapes, PoolStep
  PROVE  /\ UNCHANGED <<conns, cache, parks, loop, sends, dropped>>
         /\ chans' \in Seq(Chan) /\ Len(chans') = Len(chans)
         /\ tokens' \in TokenLists
         /\ worker' = [w \in Workers |-> worker'[w]]
  <1>1. ASSUME NEW l \in TokenLists, EditTokens(l)
        PROVE  /\ UNCHANGED <<conns, cache, parks, loop, sends, dropped, chans, worker>>
               /\ tokens' \in TokenLists
    BY <1>1 DEF EditTokens, poolVars
  <1>2. ASSUME NEW i \in 1 .. Len(chans), DeadlinePasses(i)
        PROVE  /\ UNCHANGED <<conns, cache, parks, loop, sends, dropped, tokens, worker>>
               /\ chans' \in Seq(Chan) /\ Len(chans') = Len(chans)
    <2>1. chans[i] \in Chan
      BY DEF Shapes
    <2> DEFINE k == [chans[i] EXCEPT !.late = TRUE]
    <2>2. k \in Chan
      BY <2>1, ChanIs
    <2>3. chans' = [chans EXCEPT ![i] = k]
      BY <1>2 DEF DeadlinePasses
    <2> HIDE DEF k
    <2>4. chans' \in Seq(Chan) /\ Len(chans') = Len(chans)
      BY <2>2, <2>3, ExceptIs DEF Shapes
    <2> QED BY <1>2, <2>4 DEF DeadlinePasses
  <1>3. ASSUME NEW w \in Workers, TakeJob(w)
        PROVE  /\ UNCHANGED <<conns, cache, parks, loop, sends, dropped, tokens>>
               /\ chans' \in Seq(Chan) /\ Len(chans') = Len(chans)
               /\ worker' = [x \in Workers |-> worker'[x]]
    <2> DEFINE c == Head(queue)
               k == [chans[c] EXCEPT !.verdict = "dropped"]
    <2>1. c \in DOMAIN chans => k \in Chan
      <3>1. c \in DOMAIN chans => chans[c] \in Chan
        BY DEF Shapes
      <3> QED BY <3>1, ChanIs
    <2>2. chans' = [chans EXCEPT ![c] = k] \/ chans' = chans
      BY <1>3 DEF TakeJob
    <2>3. worker' = worker \/ worker' = [worker EXCEPT ![w] = [at |-> "verify", chan |-> c]]
      BY <1>3 DEF TakeJob
    <2> HIDE DEF k, c
    <2>4. chans' \in Seq(Chan) /\ Len(chans') = Len(chans)
      <3>1. chans \in Seq(Chan)
        BY DEF Shapes
      <3>2. [chans EXCEPT ![c] = k] \in Seq(Chan) /\ Len([chans EXCEPT ![c] = k]) = Len(chans)
        BY <2>1, <3>1, ExceptIs
      <3> QED BY <2>2, <3>1, <3>2
    <2>5. worker' = [x \in Workers |-> worker'[x]]
      BY <2>3 DEF Shapes
    <2> QED BY <1>3, <2>4, <2>5 DEF TakeJob
  <1>4. ASSUME NEW w \in Workers, NEW v \in {"accept", "reject", "error"}, SendVerdict(w, v)
        PROVE  /\ UNCHANGED <<conns, cache, parks, loop, sends, dropped, tokens>>
               /\ chans' \in Seq(Chan) /\ Len(chans') = Len(chans)
               /\ worker' = [x \in Workers |-> worker'[x]]
    <2> DEFINE c == worker[w].chan
               k == [chans[c] EXCEPT !.verdict = v]
    <2>1. c \in DOMAIN chans => k \in Chan
      <3>1. c \in DOMAIN chans => chans[c] \in Chan
        BY DEF Shapes
      <3> QED BY <3>1, ChanIs
    <2>2. chans' = [chans EXCEPT ![c] = k] \/ chans' = chans
      BY <1>4 DEF SendVerdict
    <2>3. worker' = [worker EXCEPT ![w] = [at |-> "wake"]]
      BY <1>4 DEF SendVerdict
    <2> HIDE DEF k, c
    <2>4. chans' \in Seq(Chan) /\ Len(chans') = Len(chans)
      <3>1. chans \in Seq(Chan)
        BY DEF Shapes
      <3>2. [chans EXCEPT ![c] = k] \in Seq(Chan) /\ Len([chans EXCEPT ![c] = k]) = Len(chans)
        BY <2>1, <3>1, ExceptIs
      <3> QED BY <2>2, <3>1, <3>2
    <2>5. worker' = [x \in Workers |-> worker'[x]]
      BY <2>3 DEF Shapes
    <2> QED BY <1>4, <2>4, <2>5 DEF SendVerdict
  <1>5. ASSUME NEW w \in Workers, WakeLoop(w)
        PROVE  /\ UNCHANGED <<conns, cache, parks, loop, sends, dropped, tokens, chans>>
               /\ worker' = [x \in Workers |-> worker'[x]]
    <2>1. worker' = [x \in Workers |-> worker'[x]]
      BY <1>5 DEF WakeLoop, Shapes
    <2> QED BY <1>5, <2>1 DEF WakeLoop
  <1>6. chans \in Seq(Chan) /\ tokens \in TokenLists /\ worker = [x \in Workers |-> worker[x]]
    BY DEF Shapes
  <1> QED BY <1>1, <1>2, <1>3, <1>4, <1>5, <1>6 DEF PoolStep

LEMMA PoolShapes ==
  ASSUME Shapes, PoolStep
  PROVE  Shapes'
  <1>1. /\ UNCHANGED <<conns, cache, parks, loop, sends>>
        /\ chans' \in Seq(Chan) /\ Len(chans') = Len(chans)
        /\ tokens' \in TokenLists
        /\ worker' = [w \in Workers |-> worker'[w]]
    BY PoolDoes
  <1>2. AllParks' = AllParks /\ LoopShape'
    BY <1>1 DEF AllParks, LoopShape, Polling, Shapes
  <1> QED BY <1>1, <1>2 DEF Shapes

(* A step of the loop that is no pass over a request. *)
PlainStep ==
    \/ \E S \in SUBSET {c \in conns : c.io = "read"}, new \in Arrivals : Poll(S, new)
    \/ DrainWake
    \/ \E r \in Req : Accept(r)
    \/ \E id \in Ids : Gone(id)
    \/ \E c \in conns : ReadEnds(c)
    \/ \E c \in conns : WriteReply(c)
    \/ BeginResolve
    \/ KeepWaiting
    \/ EndResolve

LEMMA LoopMoves ==
  ASSUME Shapes, PlainStep
  PROVE  /\ LoopShape' /\ parks' \in Seq(ParkType)
         /\ \A p \in AllParks' : p \in AllParks
  <1>0. LoopShape /\ parks \in Seq(ParkType)
    BY DEF Shapes
  <1>1. ASSUME NEW S, NEW new, Poll(S, new)
        PROVE  LoopShape' /\ parks' = parks /\ AllParks' = AllParks
    <2>1. PICK b : loop = Polling /\ parks' = parks /\ loop' = [at |-> "events", batch |-> b]
      BY <1>1 DEF Poll
    <2>2. loop'.at = "events" /\ loop'.batch = b
      BY <2>1
    <2> QED BY <2>1, <2>2 DEF LoopShape, AllParks, Polling
  <1>2. ASSUME NEW e, Handles(e), parks' = parks
        PROVE  LoopShape' /\ AllParks' = AllParks
    BY <1>0, <1>2, LoopHandles
  <1>3. CASE BeginResolve
    <2>1. loop.at = "events" /\ parks' = <<>> /\ AllParks = Range(parks)
      BY <1>3 DEF BeginResolve, AllParks
    <2>2. CASE parks = <<>>
      <3>1. loop' = Polling
        BY <1>3, <2>2 DEF BeginResolve
      <3>2. AllParks' = Range(parks')
        BY <3>1 DEF AllParks, Polling
      <3> QED BY <2>1, <2>2, <3>1, <3>2 DEF LoopShape
    <2>3. CASE parks # <<>>
      <3>1. loop' = [at |-> "resolve", todo |-> parks, late |-> loop'.late]
        BY <1>3, <2>3 DEF BeginResolve
      <3>2. loop'.at = "resolve" /\ loop'.todo = parks
        BY <3>1
      <3>3. Range(parks') = {}
        BY <2>1 DEF Range
      <3>4. AllParks' = Range(parks)
        BY <3>2, <3>3 DEF AllParks
      <3> QED BY <1>0, <2>1, <3>1, <3>2, <3>4 DEF LoopShape
    <2> QED BY <2>2, <2>3
  <1>4. CASE KeepWaiting
    <2> DEFINE h == Head(loop.todo)
    <2>1. loop.at = "resolve" /\ loop.todo # <<>> /\ loop' = [loop EXCEPT !.todo = Tail(@)]
          /\ parks' = Append(parks, h)
      BY <1>4 DEF KeepWaiting
    <2>2. /\ LoopShape' /\ loop.todo \in Seq(ParkType)
          /\ AllParks = Range(parks) \cup Range(loop.todo)
          /\ AllParks' = Range(parks') \cup Range(Tail(loop.todo))
      BY <1>0, <2>1, LoopResolves
    <2>3. h \in ParkType /\ h \in Range(loop.todo) /\ Range(Tail(loop.todo)) \subseteq Range(loop.todo)
      BY <2>1, <2>2, TailIs
    <2> HIDE DEF h
    <2>4. parks' \in Seq(ParkType)
      BY <1>0, <2>1, <2>3
    <2>5. \A p \in Range(parks') : p \in Range(parks) \/ p = h
      BY <1>0, <2>1, <2>3, <2>4 DEF Range
    <2> QED BY <2>2, <2>3, <2>4, <2>5
  <1>5. CASE EndResolve
    <2>1. loop.at = "resolve" /\ loop' = Polling /\ parks' = parks
      BY <1>5 DEF EndResolve
    <2>2. AllParks' = Range(parks)
      BY <2>1 DEF AllParks, Polling
    <2>3. AllParks = Range(parks) \cup Range(loop.todo)
      BY <2>1 DEF AllParks
    <2> QED BY <1>0, <2>1, <2>2, <2>3 DEF LoopShape
  <1>6. CASE DrainWake
    BY <1>0, <1>2, <1>6 DEF DrainWake
  <1>7. ASSUME NEW r, Accept(r) PROVE LoopShape' /\ parks' = parks /\ AllParks' = AllParks
    BY <1>2, <1>7 DEF Accept
  <1>8. ASSUME NEW id, Gone(id) PROVE LoopShape' /\ parks' = parks /\ AllParks' = AllParks
    BY <1>2, <1>8 DEF Gone, ConnTurn
  <1>9. ASSUME NEW c, ReadEnds(c) PROVE LoopShape' /\ parks' = parks /\ AllParks' = AllParks
    BY <1>2, <1>9 DEF ReadEnds, ConnTurn
  <1>10. ASSUME NEW c, WriteReply(c) PROVE LoopShape' /\ parks' = parks /\ AllParks' = AllParks
    BY <1>2, <1>10 DEF WriteReply, ConnTurn
  <1> QED BY <1>0, <1>1, <1>3, <1>4, <1>5, <1>6, <1>7, <1>8, <1>9, <1>10 DEF PlainStep

LEMMA PlainRest ==
  ASSUME Shapes, PlainStep
  PROVE  /\ conns' \subseteq ConnType /\ sends' \in Nat
         /\ UNCHANGED <<cache, chans, tokens, worker>>
  <1>0. conns \subseteq ConnType /\ sends \in Nat
    BY DEF Shapes
  <1>1. ASSUME NEW S, NEW new, Poll(S, new)
        PROVE  UNCHANGED <<conns, sends, cache, chans, tokens, worker>>
    BY <1>1 DEF Poll, poolVars
  <1>2. CASE DrainWake
    BY <1>0, <1>2 DEF DrainWake
  <1>3. ASSUME NEW r \in Req, Accept(r)
        PROVE  /\ conns' \subseteq ConnType /\ sends' \in Nat
               /\ UNCHANGED <<cache, chans, tokens, worker>>
    <2> DEFINE new == [id |-> sends + 1, req |-> r, io |-> "read"]
    <2>1. new \in ConnType
      BY <1>0 DEF ConnType
    <2>2. conns' \subseteq conns \cup {new}
      BY <1>3 DEF Accept
    <2> HIDE DEF new
    <2> QED BY <1>0, <1>3, <2>1, <2>2 DEF Accept, poolVars
  <1>4. ASSUME NEW id, Gone(id)
        PROVE  UNCHANGED <<conns, sends, cache, chans, tokens, worker>>
    BY <1>4 DEF Gone, poolVars
  <1>5. ASSUME NEW c, ReadEnds(c)
        PROVE  conns' \subseteq ConnType /\ UNCHANGED <<sends, cache, chans, tokens, worker>>
    <2>1. conns' = conns \ {c} \/ conns' = Answered(c.id, "error")
      BY <1>5 DEF ReadEnds
    <2>2. Answered(c.id, "error") \subseteq ConnType
      BY <1>0, AnsweredDoes
    <2> QED BY <1>0, <1>5, <2>1, <2>2 DEF ReadEnds, poolVars
  <1>6. ASSUME NEW c, WriteReply(c)
        PROVE  conns' \subseteq ConnType /\ UNCHANGED <<sends, cache, chans, tokens, worker>>
    BY <1>0, <1>6 DEF WriteReply, poolVars
  <1>7. CASE BeginResolve
    BY <1>0, <1>7 DEF BeginResolve, poolVars
  <1>8. CASE KeepWaiting
    BY <1>0, <1>8 DEF KeepWaiting, poolVars
  <1>9. CASE EndResolve
    BY <1>0, <1>9 DEF EndResolve, poolVars
  <1> QED BY <1>0, <1>1, <1>2, <1>3, <1>4, <1>5, <1>6, <1>7, <1>8, <1>9 DEF PlainStep

LEMMA PlainShapes ==
  ASSUME Shapes, PlainStep
  PROVE  Shapes'
  <1>1. /\ LoopShape' /\ parks' \in Seq(ParkType)
        /\ \A p \in AllParks' : p \in AllParks
    BY LoopMoves
  <1>2. /\ conns' \subseteq ConnType /\ sends' \in Nat
        /\ UNCHANGED <<cache, chans, tokens, worker>>
    BY PlainRest
  <1>3. \A p \in AllParks' : p.chan <= Len(chans')
    BY <1>1, <1>2 DEF Shapes
  <1>4. worker' = [w \in Workers |-> worker'[w]]
    BY <1>2 DEF Shapes
  <1> QED BY <1>1, <1>2, <1>3, <1>4 DEF Shapes

(* The three passes over a request. *)
PassStep ==
    \/ \E r \in Req : ProcessPacket(r)
    \/ \E c \in conns : ReadRequest(c)
    \/ Resume

LEMMA PassShape ==
  ASSUME Shapes, PassStep
  PROVE  /\ PassShapes /\ LoopShape' /\ sends' \in Nat
         /\ UNCHANGED <<tokens, worker, pipe>>
         /\ \A p \in AllParks' : p \in AllParks \/ p \in Range(parks')
  <1>0. LoopShape /\ sends \in Nat /\ conns \subseteq ConnType
    BY DEF Shapes
  <1>1. ASSUME NEW r \in Req, ProcessPacket(r)
        PROVE  /\ PassShapes /\ LoopShape' /\ sends' \in Nat
               /\ UNCHANGED <<tokens, worker, pipe>> /\ AllParks' = Range(parks')
    <2>1. Dispatch(r, Udp) /\ Handles([kind |-> "udp"]) /\ sends' = sends + 1
      BY <1>1 DEF ProcessPacket
    <2>2. PassShapes
      BY <2>1, DispatchShapes DEF Udp
    <2>3. LoopShape' /\ AllParks' = Range(parks')
      BY <1>0, <2>1, LoopHandles
    <2> QED BY <1>0, <2>1, <2>2, <2>3 DEF Dispatch
  <1>2. ASSUME NEW c \in conns, ReadRequest(c)
        PROVE  /\ PassShapes /\ LoopShape' /\ sends' \in Nat
               /\ UNCHANGED <<tokens, worker, pipe>> /\ AllParks' = Range(parks')
    <2>1. Dispatch(c.req, c.id) /\ Handles([kind |-> "conn", id |-> c.id]) /\ sends' = sends
      BY <1>2 DEF ReadRequest, ConnTurn
    <2>2. c.req \in Req /\ c.id \in Nat
      BY <1>0 DEF ConnType
    <2>3. PassShapes
      BY <2>1, <2>2, DispatchShapes
    <2>4. LoopShape' /\ AllParks' = Range(parks')
      BY <1>0, <2>1, LoopHandles
    <2> QED BY <1>0, <2>1, <2>3, <2>4 DEF Dispatch
  <1>3. CASE Resume
    <2>1. loop.at = "resolve" /\ loop.todo # <<>> /\ loop' = [loop EXCEPT !.todo = Tail(@)]
          /\ UNCHANGED <<pipe, worker, tokens, sends>>
      BY <1>3 DEF Resume
    <2>2. /\ LoopShape' /\ loop.todo \in Seq(ParkType)
          /\ AllParks = Range(parks) \cup Range(loop.todo)
          /\ AllParks' = Range(parks') \cup Range(Tail(loop.todo))
      BY <1>0, <2>1, LoopResolves
    <2>3. Range(Tail(loop.todo)) \subseteq Range(loop.todo)
      BY <2>1, <2>2, TailIs
    <2>4. PassShapes
      BY <1>3, ResumeShapes
    <2> QED BY <1>0, <2>1, <2>2, <2>3, <2>4
  <1> QED BY <1>1, <1>2, <1>3 DEF PassStep

LEMMA ShapesStep ==
  ASSUME Shapes, [Next]_vars
  PROVE  Shapes'
  <1>1. CASE PassStep
    <2>1. /\ PassShapes /\ LoopShape' /\ sends' \in Nat
          /\ UNCHANGED <<tokens, worker, pipe>>
          /\ \A p \in AllParks' : p \in AllParks \/ p \in Range(parks')
      BY <1>1, PassShape
    <2>2. \A p \in AllParks : p.chan <= Len(chans')
      <3> SUFFICES ASSUME NEW p \in AllParks PROVE p.chan <= Len(chans')
        OBVIOUS
      <3>1. p \in ParkType
        <4>1. /\ AllParks = Range(parks) \cup Range(Todo)
              /\ Todo \in Seq(ParkType) /\ parks \in Seq(ParkType)
          BY ParksAre DEF Shapes
        <4> QED BY <4>1, RangeIs
      <3>2. p.chan \in Nat /\ p.chan <= Len(chans) /\ Len(chans) \in Nat
        BY <3>1 DEF ParkType, Shapes
      <3>3. Len(chans) <= Len(chans') /\ Len(chans') \in Nat
        BY <2>1 DEF PassShapes
      <3> QED BY <3>2, <3>3
    <2>3. Range(parks) \subseteq AllParks
      BY DEF AllParks
    <2>4. \A p \in AllParks' : p.chan <= Len(chans')
      BY <2>1, <2>2, <2>3 DEF PassShapes
    <2>5. tokens' \in TokenLists /\ worker' = [w \in Workers |-> worker'[w]]
      BY <2>1 DEF Shapes
    <2> QED BY <2>1, <2>4, <2>5 DEF Shapes, PassShapes
  <1>2. CASE UNCHANGED vars
    BY <1>2 DEF Shapes, LoopShape, AllParks, vars, Polling
  <1>3. Next => PassStep \/ PlainStep \/ PoolStep
    BY DEF Next, LoopStep, PassStep, PlainStep, PoolStep
  <1> QED BY <1>1, <1>2, <1>3, PlainShapes, PoolShapes

LEMMA ShapesInit == Init => Shapes
  <1> SUFFICES ASSUME Init PROVE Shapes
    OBVIOUS
  <1>1. AllParks = {}
    BY DEF Init, AllParks, Polling, Range
  <1>2. LoopShape
    BY DEF Init, LoopShape
  <1>3. worker = [w \in Workers |-> worker[w]]
    BY DEF Init
  <1> QED BY <1>1, <1>2, <1>3, EnrolledAssumption DEF Init, Shapes

LEMMA ShapesHold == Spec => []Shapes
  BY ShapesInit, ShapesStep, PTL DEF Spec

-----------------------------------------------------------------------------
(* A ticket is granted only on a verifier's accept of a token the client   *)
(* still has (otp.rs, "Bind the verdict to its token"), for any number of  *)
(* requests, workers and tokens and whatever the lookaside cache evicts.   *)
THEOREM GrantsHold == Spec => GrantsAreAccepted
  <1> DEFINE Fine == \A r \in Req : Granted(r) =>
                        \E p \in AllParks : /\ p.req = r
                                            /\ chans[p.chan].verdict = "accept"
                                            /\ chans[p.chan].token \in Range(tokens)
  <1>1. Shapes /\ [Next]_vars => [Fine]_vars
    <2> SUFFICES ASSUME Shapes, Next, NEW r \in Req, Granted(r)
                 PROVE  \E p \in AllParks : /\ p.req = r
                                            /\ chans[p.chan].verdict = "accept"
                                            /\ chans[p.chan].token \in Range(tokens)
      OBVIOUS
    <2> DEFINE g == [req |-> r, reply |-> "ticket"]
    <2>1. g \in Range(cache') /\ g \notin Range(cache) /\ cache' # cache
      BY DEF Granted
    <2>2. g.req = r /\ g.reply = "ticket"
      OBVIOUS
    <2> HIDE DEF g
    <2>3. ASSUME NEW q \in Req, NEW target, Dispatch(q, target) PROVE FALSE
      <3>1. PICK c \in Inserted(cache, q, Mark), o \in FirstPass :
                     Conclude(c, chans, q, target, o)
        BY <2>1, <2>3 DEF Dispatch
      <3>2. /\ c \in Seq(Entry)
            /\ Range(c) \subseteq Range(cache) \cup {[req |-> q, reply |-> Mark]}
        BY InsertKeeps DEF Shapes
      <3>3. o.kind \in Kinds \ {"ticket"}
        BY FirstPassIs DEF Shapes
      <3>4. cache' \in Finished(c, q, o.kind)
        BY <3>1 DEF Conclude
      <3>5. g \in Range(c) \/ g = [req |-> q, reply |-> o.kind]
        BY <2>1, <3>2, <3>3, <3>4, FinishedKeeps
      <3>6. g # [req |-> q, reply |-> o.kind] /\ g # [req |-> q, reply |-> Mark]
        <4>1. o.kind # "ticket" /\ Mark # "ticket"
          BY <3>3 DEF Mark
        <4>2. \A x : [req |-> q, reply |-> x].reply = x
          OBVIOUS
        <4> QED BY <2>2, <4>1, <4>2
      <3> QED BY <2>1, <3>2, <3>5, <3>6
    <2>4. CASE Resume
      <3> DEFINE p == Head(loop.todo)
                 v == IF chans[p.chan].verdict \in {"none", "dropped"} THEN "timeout"
                      ELSE chans[p.chan].verdict
      <3>1. /\ p \in ParkType /\ p \in AllParks
            /\ \E o \in LaterPass(p, v) : Conclude(cache, Heard(p.chan), p.req, p.target, o)
        BY <2>4, ResumeDoes
      <3>2. v = "accept" => chans[p.chan].verdict = "accept"
        OBVIOUS
      <3> HIDE DEF p, v
      <3>3. PICK o \in LaterPass(p, v) : Conclude(cache, Heard(p.chan), p.req, p.target, o)
        BY <3>1
      <3>4. /\ o.kind \in Kinds
            /\ o.kind = "ticket" => v = "accept" /\ chans[p.chan].token \in Range(tokens)
        BY <3>1, LaterPassIs DEF Shapes
      <3>5. cache' \in Finished(cache, p.req, o.kind) /\ cache \in Seq(Entry) /\ p.req \in Req
        BY <3>1, <3>3 DEF Conclude, Shapes, ParkType
      <3>6. g = [req |-> p.req, reply |-> o.kind]
        <4>1. \A e \in Range(cache') :
                 e \in Range(cache) \/ (o.kind \in Replies /\ e = [req |-> p.req, reply |-> o.kind])
          BY <3>4, <3>5, FinishedKeeps
        <4> QED BY <2>1, <4>1
      <3>7. p.req = r /\ o.kind = "ticket"
        BY <2>2, <3>6
      <3> QED BY <3>1, <3>2, <3>4, <3>7
    <2>5. PlainStep => cache' = cache
      BY PlainRest
    <2>6. PoolStep => cache' = cache
      BY PoolDoes
    <2>7. ASSUME NEW q \in Req, ProcessPacket(q) PROVE FALSE
      BY <2>3, <2>7 DEF ProcessPacket
    <2>8. ASSUME NEW c \in conns, ReadRequest(c) PROVE FALSE
      <3>1. c.req \in Req
        BY DEF Shapes, ConnType
      <3> QED BY <2>3, <2>8, <3>1 DEF ReadRequest
    <2> QED BY <2>1, <2>4, <2>5, <2>6, <2>7, <2>8 DEF Next, LoopStep, PlainStep, PoolStep
  <1> QED BY <1>1, ShapesHold, PTL DEF Spec, GrantsAreAccepted

-----------------------------------------------------------------------------
(* The connections of parked requests. *)

(* Parked connections that stay keep their requests. *)
LEMMA ConnsKeep ==
  ASSUME NEW cs, NEW ds, NEW P, Resumes(cs, P),
         \A c \in cs : c.io = "parked" => c \in ds,
         \A c \in ds : c.io = "parked" => c \in cs
  PROVE  Resumes(ds, P)
  BY DEF Resumes

LEMMA AnsweredWrites ==
  ASSUME conns \subseteq ConnType, NEW t, NEW kind
  PROVE  \A c \in Answered(t, kind) : c.io = "parked" => c \in conns /\ c.id # t
  <1> DEFINE w(d) == [d EXCEPT !.io = "write"]
  <1>1. \A c \in Answered(t, kind) : \/ c \in conns /\ c.id # t
                                     \/ \E d \in conns : d.id = t /\ c = w(d)
    BY AnsweredDoes
  <1>2. \A d \in conns : w(d).io = "write"
    BY DEF ConnType
  <1> HIDE DEF w
  <1> QED BY <1>1, <1>2

LEMMA AnsweredOne ==
  ASSUME conns \subseteq ConnType, NEW n, OneConn(conns, n), NEW t, NEW kind
  PROVE  OneConn(Answered(t, kind), n)
  <1> DEFINE w(d) == [d EXCEPT !.io = "write"]
  <1>1. \A c \in Answered(t, kind) : \/ c \in conns /\ c.id # t
                                     \/ \E d \in conns : d.id = t /\ c = w(d)
    BY AnsweredDoes
  <1>2. \A d \in conns : w(d).id = d.id
    BY DEF ConnType
  <1> HIDE DEF w
  <1>3. \A c \in Answered(t, kind) : c.id <= n
    BY <1>1, <1>2 DEF OneConn
  <1>4. ASSUME NEW c \in Answered(t, kind), NEW d \in Answered(t, kind), c.id = d.id
        PROVE  c = d
    BY <1>1, <1>2, <1>4 DEF OneConn
  <1> QED BY <1>3, <1>4 DEF OneConn

LEMMA ParkedOne ==
  ASSUME conns \subseteq ConnType, NEW n, OneConn(conns, n), NEW t
  PROVE  OneConn(Parked(t), n)
  <1> DEFINE f(d) == [d EXCEPT !.io = IF d.id = t THEN "parked" ELSE @]
  <1>1. \A c \in Parked(t) : \E d \in conns : c.id = d.id /\ c = f(d)
    BY ParkedDoes
  <1> HIDE DEF f
  <1>2. \A c \in Parked(t) : c.id <= n
    BY <1>1 DEF OneConn
  <1>3. ASSUME NEW c \in Parked(t), NEW d \in Parked(t), c.id = d.id PROVE c = d
    BY <1>1, <1>3 DEF OneConn
  <1> QED BY <1>2, <1>3 DEF OneConn

(* A connection that waits for nothing is answered. *)
LEMMA AnswerKeeps ==
  ASSUME conns \subseteq ConnType, NEW n, OneConn(conns, n), NEW P, Resumes(conns, P),
         NEW t, NEW kind, \A c \in conns : c.id = t => c.io # "parked"
  PROVE  OneConn(Answered(t, kind), n) /\ Resumes(Answered(t, kind), P)
  <1>1. OneConn(Answered(t, kind), n)
    BY AnsweredOne
  <1>2. \A c \in conns : c.io = "parked" => c \in Answered(t, kind)
    BY AnsweredDoes
  <1>3. \A c \in Answered(t, kind) : c.io = "parked" => c \in conns /\ c.id # t
    BY AnsweredWrites
  <1>4. Resumes(Answered(t, kind), P)
    BY <1>2, <1>3, ConnsKeep
  <1> QED BY <1>1, <1>4

(* A request r is processed for the target t while the requests W are      *)
(* parked.                                                                 *)
Beside(cs, W, r, t) ==
    /\ t # Udp => \E d \in cs : d.id = t /\ d.req = r
    /\ \A p \in W : p.target # Udp =>
           /\ p.target # t
           /\ \E d \in cs : d.id = p.target /\ d.io = "parked" /\ d.req = p.req
    /\ \A d \in cs : d.io = "parked" => d.id = t \/ \E p \in W : p.target = d.id

LEMMA PassConns ==
  ASSUME conns \subseteq ConnType, NEW n, OneConn(conns, n),
         NEW W, NEW r, NEW t \in Nat, NEW c, NEW ch, NEW o, Conclude(c, ch, r, t, o),
         Beside(conns, W, r, t)
  PROVE  /\ OneConn(conns', n)
         /\ o.kind # "parked" => Resumes(conns', W)
         /\ o.kind = "parked" => \A q : q.req = r /\ q.target = t => Resumes(conns', W \cup {q})
  <1>1. CASE o.kind # "parked"
    <2>1. conns' = Answered(t, o.kind)
      BY <1>1 DEF Conclude
    <2>2. OneConn(conns', n)
      BY <2>1, AnsweredOne
    <2>3. \A d \in conns : d.id # t => d \in conns'
      BY <2>1, AnsweredDoes
    <2>5. \A d \in conns' : d.io = "parked" => d \in conns /\ d.id # t
      BY <2>1, AnsweredWrites
    <2>6. \A p \in W : p.target # Udp =>
              \E d \in conns' : d.id = p.target /\ d.io = "parked" /\ d.req = p.req
      BY <2>3 DEF Beside
    <2>7. \A d \in conns' : d.io = "parked" => \E p \in W : p.target = d.id
      BY <2>5 DEF Beside
    <2> QED BY <1>1, <2>2, <2>6, <2>7 DEF Resumes
  <1>2. CASE o.kind = "parked"
    <2>1. conns' = Parked(t)
      BY <1>2 DEF Conclude
    <2>2. OneConn(conns', n)
      BY <2>1, ParkedOne
    <2>3. \A x \in conns' : \E d \in conns : /\ x.id = d.id /\ x.req = d.req
                                             /\ x.io = IF d.id = t THEN "parked" ELSE d.io
      BY <2>1, ParkedDoes
    <2>4. \A d \in conns : \E x \in conns' : /\ x.id = d.id /\ x.req = d.req
                                             /\ x.io = IF d.id = t THEN "parked" ELSE d.io
      BY <2>1, ParkedDoes
    <2>5. \A p \in W : p.target # Udp =>
              \E d \in conns' : d.id = p.target /\ d.io = "parked" /\ d.req = p.req
      BY <2>4 DEF Beside
    <2>6. t # Udp => \E d \in conns' : d.id = t /\ d.io = "parked" /\ d.req = r
      BY <2>4 DEF Beside
    <2>7. \A d \in conns' : d.io = "parked" => d.id = t \/ \E p \in W : p.target = d.id
      BY <2>3 DEF Beside
    <2>8. ASSUME NEW q, q.req = r, q.target = t PROVE Resumes(conns', W \cup {q})
      BY <2>5, <2>6, <2>7, <2>8 DEF Resumes
    <2> QED BY <1>2, <2>2, <2>8
  <1> QED BY <1>1, <1>2

-----------------------------------------------------------------------------
(* Every step keeps the invariant. *)

LEMMA PoolKeeps ==
  ASSUME PInv, PoolStep
  PROVE  PInv'
  <1>0. Shapes /\ Shapes'
    BY PoolShapes DEF PInv
  <1>1. UNCHANGED <<conns, cache, parks, loop, sends, dropped>>
    BY <1>0, PoolDoes
  <1>2. AllParks' = AllParks /\ Todo' = Todo
    BY <1>1 DEF AllParks, Todo
  <1>3. /\ Once(dropped, parks, Todo)' /\ Marked(dropped, cache, AllParks)'
        /\ OneConn(conns, sends)' /\ Resumes(conns, AllParks)'
    BY <1>1, <1>2 DEF PInv
  <1>4. WakeInv'
    <2> DEFINE V == {"accept", "reject", "error"}
               Woken == pipe \/ \E w \in Workers : worker[w].at = "wake"
    <2> SUFFICES ASSUME loop.at # "events", NEW p \in Range(parks), chans'[p.chan].verdict \in V
                 PROVE  Woken'
      BY <1>1 DEF WakeInv
    <2>1. chans[p.chan].verdict \in V => Woken
      BY DEF PInv, WakeInv
    <2>2. p.chan \in DOMAIN chans
      <3>1. p \in ParkType /\ p \in AllParks
        BY <1>0, RangeIs DEF Shapes, AllParks
      <3>2. p.chan \in Nat \ {0} /\ p.chan <= Len(chans)
        BY <1>0, <3>1 DEF ParkType, Shapes
      <3> QED BY <1>0, <3>2 DEF Shapes
    <2>3. chans[p.chan] \in Chan /\ DOMAIN worker = Workers
      BY <1>0, <2>2 DEF Shapes
    <2>4. ASSUME NEW l, EditTokens(l) PROVE Woken'
      BY <2>1, <2>4 DEF EditTokens, poolVars
    <2>5. ASSUME NEW i, DeadlinePasses(i) PROVE Woken'
      <3>1. chans'[p.chan].verdict = chans[p.chan].verdict
        <4> DEFINE k == [chans[i] EXCEPT !.late = TRUE]
        <4>1. chans' = [chans EXCEPT ![i] = k]
          BY <2>5 DEF DeadlinePasses
        <4>2. CASE i = p.chan
          <5>1. chans'[p.chan] = k
            BY <2>2, <4>1, <4>2
          <5>2. k.verdict = chans[p.chan].verdict
            BY <2>3, <4>2, ChanIs
          <5> QED BY <5>1, <5>2
        <4>3. CASE i # p.chan
          BY <2>2, <4>1, <4>3
        <4> QED BY <4>2, <4>3
      <3> QED BY <2>1, <2>5, <3>1 DEF DeadlinePasses
    <2>6. ASSUME NEW w \in Workers, TakeJob(w) PROVE Woken'
      <3>1. chans'[p.chan].verdict = "dropped" \/ chans'[p.chan].verdict = chans[p.chan].verdict
        <4> DEFINE c == Head(queue)
                   k == [chans[c] EXCEPT !.verdict = "dropped"]
        <4>1. chans' = [chans EXCEPT ![c] = k] \/ chans' = chans
          BY <2>6 DEF TakeJob
        <4>2. CASE c = p.chan
          <5>1. chans'[p.chan] = k \/ chans' = chans
            BY <2>2, <4>1, <4>2
          <5>2. k.verdict = "dropped"
            BY <2>3, <4>2, ChanIs
          <5> QED BY <5>1, <5>2
        <4>3. CASE c # p.chan
          BY <2>2, <4>1, <4>3
        <4> QED BY <4>2, <4>3
      <3>2. worker[w].at = "idle" /\ pipe' = pipe
        BY <2>6 DEF TakeJob, Idle
      <3>3. \A x \in Workers : worker[x].at = "wake" => worker'[x].at = "wake"
        BY <2>3, <2>6, <3>2 DEF TakeJob
      <3> QED BY <2>1, <3>1, <3>2, <3>3
    <2>7. ASSUME NEW w \in Workers, NEW v, SendVerdict(w, v) PROVE Woken'
      <3>1. worker'[w].at = "wake"
        BY <2>3, <2>7 DEF SendVerdict
      <3> QED BY <3>1
    <2>8. ASSUME NEW w, WakeLoop(w) PROVE Woken'
      BY <2>8 DEF WakeLoop
    <2> QED BY <2>4, <2>5, <2>6, <2>7, <2>8 DEF PoolStep
  <1> QED BY <1>0, <1>3, <1>4 DEF PInv

(* A step of the loop among the ready descriptors that parks and resumes   *)
(* nothing has only to keep the connections.                               *)
LEMMA TurnKeeps ==
  ASSUME PInv, Shapes', NEW e, Handles(e), UNCHANGED <<cache, parks, dropped>>,
         OneConn(conns', sends'), Resumes(conns', AllParks)
  PROVE  PInv'
  <1>1. /\ loop'.at = "events" /\ Todo = <<>> /\ Todo' = <<>>
        /\ AllParks = Range(parks) /\ AllParks' = Range(parks')
    BY LoopHandles DEF PInv, Shapes
  <1>2. AllParks' = AllParks /\ Todo' = Todo
    BY <1>1
  <1>3. Once(dropped, parks, Todo)' /\ Marked(dropped, cache, AllParks)'
    BY <1>2 DEF PInv
  <1>4. WakeInv'
    BY <1>1 DEF WakeInv
  <1> QED BY <1>2, <1>3, <1>4 DEF PInv

LEMMA AcceptKeeps ==
  ASSUME PInv, NEW r \in Req, Accept(r)
  PROVE  OneConn(conns', sends') /\ Resumes(conns', AllParks)
  <1> DEFINE new == [id |-> sends + 1, req |-> r, io |-> "read"]
  <1>1. conns \subseteq ConnType /\ sends \in Nat /\ OneConn(conns, sends) /\ Resumes(conns, AllParks)
    BY DEF PInv, Shapes
  <1>2. sends' = sends + 1 /\ conns' \subseteq conns \cup {new}
    BY DEF Accept
  <1>3. \A c \in conns : c.io = "parked" => c \in conns'
    BY DEF Accept, Victims
  <1>4. new.id = sends + 1 /\ new.io = "read"
    OBVIOUS
  <1> HIDE DEF new
  <1>5. \A c \in conns : c.id \in Nat /\ c.id <= sends /\ c.id # sends + 1 /\ c.id <= sends + 1
    <2> SUFFICES ASSUME NEW c \in conns
                 PROVE  c.id \in Nat /\ c.id <= sends /\ c.id # sends + 1 /\ c.id <= sends + 1
      OBVIOUS
    <2>1. c.id \in Nat /\ c.id <= sends
      BY <1>1 DEF ConnType, OneConn
    <2> QED BY <1>1, <2>1
  <1>6. \A c \in conns' : c.id <= sends'
    BY <1>1, <1>2, <1>4, <1>5
  <1>7. \A c, d \in conns' : c.id = d.id => c = d
    BY <1>1, <1>2, <1>4, <1>5 DEF OneConn
  <1>8. \A c \in conns' : c.io = "parked" => c \in conns
    BY <1>2, <1>4
  <1>9. Resumes(conns', AllParks)
    BY <1>1, <1>3, <1>8, ConnsKeep
  <1> QED BY <1>6, <1>7, <1>9 DEF OneConn

(* The connection c, which waits for nothing, is closed or answered. *)
LEMMA CloseKeeps ==
  ASSUME PInv, NEW c \in conns, c.io # "parked", sends' = sends,
         conns' = conns \ {c} \/ conns' = Answered(c.id, "error")
  PROVE  OneConn(conns', sends') /\ Resumes(conns', AllParks)
  <1>1. conns \subseteq ConnType /\ OneConn(conns, sends) /\ Resumes(conns, AllParks)
    BY DEF PInv, Shapes
  <1>2. CASE conns' = conns \ {c}
    <2>1. OneConn(conns', sends')
      BY <1>1, <1>2 DEF OneConn
    <2>2. Resumes(conns', AllParks)
      BY <1>1, <1>2, ConnsKeep
    <2> QED BY <2>1, <2>2
  <1>3. CASE conns' = Answered(c.id, "error")
    <2>1. \A d \in conns : d.id = c.id => d.io # "parked"
      BY <1>1 DEF OneConn
    <2> QED BY <1>1, <1>3, <2>1, AnswerKeeps
  <1> QED BY <1>2, <1>3

LEMMA BeginKeeps ==
  ASSUME PInv, Shapes', BeginResolve
  PROVE  PInv'
  <1>0. parks \in Seq(ParkType)
    BY DEF PInv, Shapes
  <1>1. /\ loop.at = "events" /\ parks' = <<>> /\ AllParks = Range(parks)
        /\ UNCHANGED <<conns, cache, sends, dropped>>
    BY DEF BeginResolve, AllParks
  <1>2. Todo' = parks /\ AllParks' = AllParks
    <2>1. CASE parks = <<>>
      <3>1. loop'.at = "poll"
        BY <2>1 DEF BeginResolve, Polling
      <3> QED BY <1>1, <2>1, <3>1 DEF Todo, AllParks
    <2>2. CASE parks # <<>>
      <3>1. PICK l : loop' = [at |-> "resolve", todo |-> parks, late |-> l]
        BY <2>2 DEF BeginResolve
      <3>2. loop'.at = "resolve" /\ loop'.todo = parks
        BY <3>1
      <3>3. Range(parks') = {}
        BY <1>1 DEF Range
      <3> QED BY <1>1, <3>2, <3>3 DEF Todo, AllParks
    <2> QED BY <2>1, <2>2
  <1>3. Once(dropped, parks, Todo)'
    <2>1. \A i, j \in 1 .. Len(parks) : i # j => Apart(dropped, parks[i], parks[j])
      BY DEF PInv, Once
    <2>2. Len(parks') = 0
      BY <1>1
    <2>3. 1 .. Len(parks') = {}
      BY <2>2
    <2> QED BY <1>1, <1>2, <2>1, <2>3 DEF Once, Apart
  <1>4. Marked(dropped, cache, AllParks)' /\ OneConn(conns, sends)' /\ Resumes(conns, AllParks)'
    BY <1>1, <1>2 DEF PInv
  <1>5. WakeInv'
    <2>1. Range(parks') = {}
      BY <1>1 DEF Range
    <2> QED BY <2>1 DEF WakeInv
  <1> QED BY <1>3, <1>4, <1>5 DEF PInv

LEMMA KeepKeeps ==
  ASSUME PInv, Shapes', KeepWaiting
  PROVE  PInv'
  <1> DEFINE h == Head(loop.todo)
             t == Tail(loop.todo)
  <1>0. parks \in Seq(ParkType) /\ LoopShape /\ Once(dropped, parks, Todo)
    BY DEF PInv, Shapes
  <1>1. /\ loop.at = "resolve" /\ loop.todo # <<>> /\ loop' = [loop EXCEPT !.todo = Tail(@)]
        /\ parks' = Append(parks, h) /\ chans[h.chan].verdict = "none"
        /\ UNCHANGED <<conns, cache, sends, dropped, chans, pipe, worker>>
    BY DEF KeepWaiting, poolVars
  <1>2. /\ loop'.at = "resolve" /\ Todo = loop.todo /\ Todo' = t /\ loop.todo \in Seq(ParkType)
        /\ AllParks = Range(parks) \cup Range(loop.todo)
        /\ AllParks' = Range(parks') \cup Range(t)
    BY <1>0, <1>1, LoopResolves
  <1>3. /\ h \in ParkType /\ h \in Range(loop.todo)
        /\ t \in Seq(ParkType)
        /\ Once(dropped, parks, t)
        /\ \A x \in Range(parks) \cup Range(t) :
               x \in Range(parks) \cup Range(loop.todo) /\ Apart(dropped, x, h)
        /\ \A x \in Range(parks) \cup Range(loop.todo) : x = h \/ x \in Range(parks) \cup Range(t)
    BY <1>0, <1>1, <1>2, HeadLeaves
  <1> HIDE DEF h, t
  <1>4. Once(dropped, parks', t) /\ Range(parks') = Range(parks) \cup {h}
    <2>1. AllApart(dropped, Range(parks), h) /\ AllApart(dropped, Range(t), h)
      BY <1>3 DEF AllApart
    <2>2. /\ parks \in Seq(ParkType) /\ t \in Seq(ParkType) /\ h \in ParkType
          /\ Once(dropped, parks, t)
      BY <1>0, <1>3
    <2>3. Once(dropped, Append(parks, h), t) /\ Range(Append(parks, h)) = Range(parks) \cup {h}
      BY <2>1, <2>2, ParkAdds
    <2> QED BY <1>1, <2>3
  <1>5. AllParks' = AllParks
    BY <1>2, <1>3, <1>4
  <1>6. Marked(dropped, cache, AllParks)' /\ OneConn(conns, sends)' /\ Resumes(conns, AllParks)'
    BY <1>1, <1>5 DEF PInv
  <1>7. WakeInv'
    BY <1>1, <1>2, <1>4 DEF PInv, WakeInv
  <1>8. Once(dropped, parks, Todo)'
    BY <1>1, <1>2, <1>4
  <1> QED BY <1>6, <1>7, <1>8 DEF PInv

LEMMA PlainKeeps ==
  ASSUME PInv, PlainStep
  PROVE  PInv'
  <1>0. Shapes /\ Shapes' /\ OneConn(conns, sends) /\ Resumes(conns, AllParks)
    BY PlainShapes DEF PInv
  <1>1. ASSUME NEW S, NEW new, Poll(S, new) PROVE PInv'
    <2>1. PICK b : /\ loop = Polling /\ UNCHANGED <<parks, cache, conns, sends, dropped>>
                   /\ loop' = [at |-> "events", batch |-> b]
      BY <1>1 DEF Poll
    <2>2. loop'.at = "events" /\ loop.at = "poll"
      BY <2>1 DEF Polling
    <2>3. AllParks' = AllParks /\ Todo' = Todo
      BY <2>1, <2>2 DEF AllParks, Todo
    <2>4. /\ Once(dropped, parks, Todo)' /\ Marked(dropped, cache, AllParks)'
          /\ OneConn(conns, sends)' /\ Resumes(conns, AllParks)'
      BY <2>1, <2>3 DEF PInv
    <2>5. WakeInv'
      BY <2>2 DEF WakeInv
    <2> QED BY <1>0, <2>4, <2>5 DEF PInv
  <1>2. CASE DrainWake
    BY <1>0, <1>2, TurnKeeps DEF DrainWake
  <1>3. ASSUME NEW r \in Req, Accept(r) PROVE PInv'
    BY <1>0, <1>3, TurnKeeps, AcceptKeeps DEF Accept
  <1>4. ASSUME NEW id, Gone(id) PROVE PInv'
    BY <1>0, <1>4, TurnKeeps DEF Gone, ConnTurn
  <1>5. ASSUME NEW c \in conns, ReadEnds(c) PROVE PInv'
    <2>1. /\ c.io # "parked" /\ sends' = sends /\ UNCHANGED <<cache, parks, dropped>>
          /\ conns' = conns \ {c} \/ conns' = Answered(c.id, "error")
          /\ Handles([kind |-> "conn", id |-> c.id])
      BY <1>5 DEF ReadEnds, ConnTurn
    <2>2. OneConn(conns', sends') /\ Resumes(conns', AllParks)
      BY <2>1, CloseKeeps
    <2> QED BY <1>0, <2>1, <2>2, TurnKeeps
  <1>6. ASSUME NEW c \in conns, WriteReply(c) PROVE PInv'
    <2>1. /\ c.io # "parked" /\ sends' = sends /\ UNCHANGED <<cache, parks, dropped>>
          /\ conns' = conns \ {c}
          /\ Handles([kind |-> "conn", id |-> c.id])
      BY <1>6 DEF WriteReply, ConnTurn
    <2>2. OneConn(conns', sends') /\ Resumes(conns', AllParks)
      BY <2>1, CloseKeeps
    <2> QED BY <1>0, <2>1, <2>2, TurnKeeps
  <1>7. CASE EndResolve
    <2>1. /\ loop.at = "resolve" /\ loop.todo = <<>> /\ loop' = Polling
          /\ UNCHANGED <<parks, cache, conns, sends, dropped, chans, pipe, worker>>
      BY <1>7 DEF EndResolve, poolVars
    <2>2. loop'.at = "poll"
      BY <2>1 DEF Polling
    <2>3. Range(loop.todo) = {}
      BY <2>1 DEF Range
    <2>4. AllParks' = AllParks /\ Todo' = Todo
      BY <2>1, <2>2, <2>3 DEF AllParks, Todo
    <2>5. /\ Once(dropped, parks, Todo)' /\ Marked(dropped, cache, AllParks)'
          /\ OneConn(conns, sends)' /\ Resumes(conns, AllParks)'
      BY <2>1, <2>4 DEF PInv
    <2>6. WakeInv'
      BY <2>1 DEF WakeInv, PInv
    <2> QED BY <1>0, <2>5, <2>6 DEF PInv
  <1> QED BY <1>0, <1>1, <1>2, <1>3, <1>4, <1>5, <1>6, <1>7, BeginKeeps, KeepKeeps DEF PlainStep

(* A parked request whose mark a pass over r drops is taken down; what is  *)
(* down stays while the request is parked.                                 *)
LEMMA PassMarks ==
  ASSUME NEW c, NEW ch, NEW r, NEW t, NEW o, Conclude(c, ch, r, t, o),
         NEW p \in AllParks', p.req \in Req
  PROVE  /\ p.req \in dropped => p.req \in dropped'
         /\ p.req # r => p.req \in dropped' \/ \E e \in Range(cache') : e.req = p.req
  BY DEF Conclude

LEMMA DispatchKeeps ==
  ASSUME PInv, Shapes', NEW r \in Req, NEW t \in Nat, Dispatch(r, t),
         NEW e, Handles(e), sends' \in Nat, sends <= sends',
         \A c \in conns : c.id = t => c.io # "parked",
         t # Udp => \E c \in conns : c.id = t /\ c.req = r
  PROVE  PInv'
  <1>0. /\ conns \subseteq ConnType /\ OneConn(conns, sends') /\ Resumes(conns, AllParks)
        /\ cache \in Seq(Entry) /\ chans \in Seq(Chan) /\ parks \in Seq(ParkType)
        /\ Marked(dropped, cache, AllParks) /\ Once(dropped, parks, Todo) /\ LoopShape
        /\ tokens \in TokenLists
    <2>1. \A c \in conns : c.id <= sends'
      <3> SUFFICES ASSUME NEW c \in conns PROVE c.id <= sends'
        OBVIOUS
      <3>1. c.id \in Nat /\ c.id <= sends /\ sends \in Nat
        BY DEF PInv, Shapes, ConnType, OneConn
      <3> QED BY <3>1
    <2> QED BY <2>1 DEF PInv, Shapes, OneConn
  <1>1. /\ loop'.at = "events" /\ Todo = <<>> /\ Todo' = <<>>
        /\ AllParks = Range(parks) /\ AllParks' = Range(parks')
    BY <1>0, LoopHandles
  <1>2. WakeInv'
    BY <1>1 DEF WakeInv
  <1>3. ASSUME NEW f \in Range(cache), conns' = Answered(t, f.reply), UNCHANGED <<cache, parks, dropped>>
        PROVE  PInv'
    <2>1. OneConn(conns', sends') /\ Resumes(conns', AllParks)
      BY <1>0, <1>3, AnswerKeeps
    <2> QED BY <1>3, <2>1, TurnKeeps
  <1>4. ASSUME \A f \in Range(cache) : f.req # r,
               NEW c \in Inserted(cache, r, Mark), NEW o \in FirstPass,
               Conclude(c, chans, r, t, o)
        PROVE  PInv'
    <2>1. \A p \in AllParks : p.req = r => p.req \in dropped
      BY <1>0, <1>4 DEF Marked
    <2>2. /\ o.kind \in Kinds
          /\ o.kind = "parked" => o.index \in Nat \ {0}
      BY <1>0, FirstPassIs
    <2>3. c \in Seq(Entry) /\ \E f \in Range(c) : f.req = r
      <3>1. c \in Seq(Entry) /\ [req |-> r, reply |-> Mark] \in Range(c)
        BY <1>0, InsertKeeps
      <3>2. [req |-> r, reply |-> Mark].req = r
        OBVIOUS
      <3> QED BY <3>1, <3>2
    <2>4. o.kind = "parked" => cache' = c
      <3>1. cache' \in Finished(c, r, o.kind)
        BY <1>4 DEF Conclude
      <3> QED BY <2>2, <2>3, <3>1, FinishedKeeps
    <2>5. \A p \in AllParks' : p \in ParkType /\ p.req \in Req
      <3>1. parks' \in Seq(ParkType)
        BY DEF Shapes
      <3>2. AllParks' \subseteq ParkType
        BY <1>1, <3>1, RangeIs
      <3> QED BY <3>2 DEF ParkType
    <2>6. ASSUME NEW p \in AllParks'
          PROVE  /\ p.req \in dropped => p.req \in dropped'
                 /\ p.req # r => p.req \in dropped' \/ \E f \in Range(cache') : f.req = p.req
      BY <1>4, <2>5, PassMarks
    <2>7. Beside(conns, AllParks, r, t)
      <3>1. \A p \in AllParks : p.target # Udp =>
               /\ p.target # t
               /\ \E d \in conns : d.id = p.target /\ d.io = "parked" /\ d.req = p.req
        BY <1>0 DEF Resumes
      <3>2. \A d \in conns : d.io = "parked" => d.id = t \/ \E p \in AllParks : p.target = d.id
        BY <1>0 DEF Resumes
      <3> QED BY <3>1, <3>2 DEF Beside
    <2>9. /\ OneConn(conns', sends')
          /\ o.kind # "parked" => Resumes(conns', AllParks)
          /\ o.kind = "parked" =>
                \A q : q.req = r /\ q.target = t => Resumes(conns', AllParks \cup {q})
      BY <1>0, <1>4, <2>7, PassConns
    <2>10. CASE o.kind # "parked"
      <3>1. parks' = parks
        BY <1>4, <2>10 DEF Conclude
      <3>2. AllParks' = AllParks /\ Todo' = Todo
        BY <1>1, <3>1
      <3>3. Once(dropped', parks, Todo)
        <4>1. Todo \in Seq(ParkType) /\ AllParks = Range(parks) \cup Range(Todo)
          BY <1>0, ParksAre
        <4>2. \A p \in Range(parks) \cup Range(Todo) : p.req \in dropped => p.req \in dropped'
          BY <2>6, <3>2, <4>1
        <4> QED BY <1>0, <4>1, <4>2, OnceMore
      <3>5. Marked(dropped, cache, AllParks)'
        <4> SUFFICES ASSUME NEW p \in AllParks'
                     PROVE  p.req \in dropped' \/ \E f \in Range(cache') : f.req = p.req
          BY DEF Marked
        <4>1. p.req = r => p.req \in dropped
          BY <2>1, <3>2
        <4> QED BY <2>6, <4>1
      <3>4. OneConn(conns, sends)' /\ Resumes(conns, AllParks)'
        BY <2>9, <2>10, <3>2
      <3> QED BY <1>2, <3>1, <3>2, <3>3, <3>4, <3>5 DEF PInv
    <2>11. CASE o.kind = "parked"
      <3> DEFINE q == [req |-> r, target |-> t, index |-> o.index, chan |-> Len(chans) + 1]
      <3>1. parks' = Append(parks, q)
        BY <1>4, <2>11 DEF Conclude
      <3>2. q \in ParkType /\ q.req = r /\ q.target = t
        <4>1. Len(chans) \in Nat /\ o.index \in Nat \ {0}
          BY <1>0, <2>2, <2>11
        <4> QED BY <4>1, ParkIs
      <3> HIDE DEF q
      <3>3. AllApart(dropped, Range(parks), q) /\ AllApart(dropped, Range(Todo), q)
        <4>1. Range(parks) \cup Range(Todo) = AllParks
          BY <1>0, ParksAre
        <4>2. \A x \in AllParks : x.target = t => x.target = Udp
          BY <1>0 DEF Resumes
        <4> QED BY <2>1, <3>2, <4>1, <4>2 DEF Apart, AllApart
      <3>4. Once(dropped, parks', Todo) /\ Range(parks') = Range(parks) \cup {q}
        <4>1. Todo \in Seq(ParkType)
          BY <1>0, ParksAre
        <4>2. parks \in Seq(ParkType) /\ q \in ParkType /\ Once(dropped, parks, Todo)
          BY <1>0, <3>2
        <4>3. /\ Once(dropped, Append(parks, q), Todo)
              /\ Range(Append(parks, q)) = Range(parks) \cup {q}
          BY <3>3, <4>1, <4>2, ParkAdds
        <4> QED BY <3>1, <4>3
      <3>5. AllParks' = AllParks \cup {q} /\ Todo' = Todo
        BY <1>1, <3>4
      <3>6. Once(dropped', parks', Todo)
        <4>1. Todo \in Seq(ParkType) /\ parks' \in Seq(ParkType) /\ Range(Todo) = {}
          BY <1>0, <1>1, ParksAre DEF Shapes, Range
        <4>2. \A p \in Range(parks') \cup Range(Todo) : p.req \in dropped => p.req \in dropped'
          BY <1>1, <2>6, <4>1
        <4> QED BY <3>4, <4>1, <4>2, OnceMore
      <3>8. Marked(dropped, cache, AllParks)'
        BY <2>3, <2>4, <2>6, <2>11 DEF Marked
      <3>7. OneConn(conns, sends)' /\ Resumes(conns, AllParks)'
        BY <2>9, <2>11, <3>2, <3>5
      <3> QED BY <1>2, <3>5, <3>6, <3>7, <3>8 DEF PInv
    <2> QED BY <2>10, <2>11
  <1> QED BY <1>3, <1>4 DEF Dispatch

LEMMA ResumeKeeps ==
  ASSUME PInv, Shapes', Resume
  PROVE  PInv'
  <1> DEFINE h == Head(loop.todo)
             t == Tail(loop.todo)
             v == IF chans[h.chan].verdict \in {"none", "dropped"} THEN "timeout"
                  ELSE chans[h.chan].verdict
             W == Range(parks) \cup Range(t)
             ch == Heard(h.chan)
  <1>0. /\ Shapes /\ conns \subseteq ConnType /\ OneConn(conns, sends) /\ Resumes(conns, AllParks)
        /\ cache \in Seq(Entry) /\ chans \in Seq(Chan) /\ parks \in Seq(ParkType)
        /\ Marked(dropped, cache, AllParks) /\ Once(dropped, parks, Todo) /\ LoopShape
        /\ tokens \in TokenLists
    BY DEF PInv, Shapes
  <1>1. /\ loop.at = "resolve" /\ loop.todo # <<>> /\ loop' = [loop EXCEPT !.todo = Tail(@)]
        /\ UNCHANGED <<sends, pipe, worker>>
    BY DEF Resume
  <1>2. /\ loop'.at = "resolve" /\ Todo = loop.todo /\ Todo' = t /\ loop.todo \in Seq(ParkType)
        /\ AllParks = Range(parks) \cup Range(loop.todo)
        /\ AllParks' = Range(parks') \cup Range(t)
    BY <1>0, <1>1, LoopResolves
  <1>3. /\ h \in ParkType /\ h \in Range(loop.todo)
        /\ t \in Seq(ParkType)
        /\ Once(dropped, parks, t)
        /\ \A x \in W : x \in AllParks /\ Apart(dropped, x, h)
        /\ \A x \in AllParks : x = h \/ x \in W
    BY <1>0, <1>1, <1>2, HeadLeaves
  <1>4. \E o \in LaterPass(h, v) : Conclude(cache, ch, h.req, h.target, o)
    BY <1>0, ResumeDoes
  <1>5. ch \in Seq(Chan) /\ Len(ch) = Len(chans)
        /\ \A i \in 1 .. Len(chans) : ch[i].verdict = "unheard" \/ ch[i] = chans[i]
    BY <1>0, HeardIs
  <1> HIDE DEF h, t, v, ch
  <1>6. PICK o \in LaterPass(h, v) : Conclude(cache, ch, h.req, h.target, o)
    BY <1>4
  <1>7. /\ o.kind \in Kinds
        /\ o.kind = "parked" => o.index \in Nat \ {0}
    BY <1>0, <1>3, LaterPassIs
  <1>8. h.req \in Req /\ h.target \in Nat /\ h \in AllParks
    BY <1>2, <1>3 DEF ParkType
  <1>9. o.kind = "parked" => cache' = cache
    <2>1. cache' \in Finished(cache, h.req, o.kind)
      BY <1>6 DEF Conclude
    <2> QED BY <1>0, <1>7, <1>8, <2>1, FinishedKeeps
  <1>10. ASSUME NEW p \in AllParks'
         PROVE  /\ p.req \in dropped => p.req \in dropped'
                /\ p.req # h.req => p.req \in dropped' \/ \E e \in Range(cache') : e.req = p.req
    <2>1. p \in ParkType
      <3>1. parks' \in Seq(ParkType)
        BY DEF Shapes
      <3> QED BY <1>2, <1>3, <3>1, RangeIs
    <2>2. p.req \in Req
      BY <2>1 DEF ParkType
    <2> QED BY <1>6, <2>2, PassMarks
  <1>11. /\ OneConn(conns', sends)
         /\ o.kind # "parked" => Resumes(conns', W)
         /\ o.kind = "parked" =>
                \A q : q.req = h.req /\ q.target = h.target => Resumes(conns', W \cup {q})
    <2>1. h.target # Udp => \E d \in conns : d.id = h.target /\ d.req = h.req
      BY <1>0, <1>8 DEF Resumes
    <2>2. ASSUME NEW p \in W, p.target # Udp
          PROVE  /\ p.target # h.target
                 /\ \E d \in conns : d.id = p.target /\ d.io = "parked" /\ d.req = p.req
      <3>1. p \in AllParks /\ Apart(dropped, p, h)
        BY <1>3
      <3>2. PICK d \in conns : d.id = p.target /\ d.io = "parked" /\ d.req = p.req
        BY <1>0, <2>2, <3>1 DEF Resumes
      <3>3. p.target # h.target
        BY <2>2, <3>1 DEF Apart
      <3> QED BY <3>2, <3>3
    <2>3. \A d \in conns : d.io = "parked" => d.id = h.target \/ \E p \in W : p.target = d.id
      BY <1>0, <1>3 DEF Resumes
    <2>4. Beside(conns, W, h.req, h.target)
      BY <2>1, <2>2, <2>3 DEF Beside
    <2> HIDE DEF W
    <2> QED BY <1>0, <1>6, <1>8, <2>4, PassConns
  <1>12. ASSUME NEW p \in Range(parks), Len(chans') >= Len(chans),
                \A i \in 1 .. Len(chans) : chans'[i] = ch[i],
                chans'[p.chan].verdict \in {"accept", "reject", "error"}
         PROVE  pipe' \/ \E w \in Workers : worker'[w].at = "wake"
    <2>1. p \in ParkType /\ p \in AllParks
      BY <1>0, <1>2, RangeIs
    <2>2. p.chan \in 1 .. Len(chans)
      <3>1. p.chan \in Nat \ {0} /\ p.chan <= Len(chans) /\ Len(chans) \in Nat
        BY <1>0, <2>1 DEF ParkType, Shapes
      <3> QED BY <3>1
    <2>3. chans'[p.chan] = chans[p.chan]
      BY <1>5, <1>12, <2>2
    <2> QED BY <1>1, <1>12, <2>3 DEF PInv, WakeInv
  <1>13. CASE o.kind # "parked"
    <2>1. parks' = parks /\ chans' = ch
      BY <1>6, <1>13 DEF Conclude
    <2>2. AllParks' = W
      BY <1>2, <2>1
    <2>3. Once(dropped', parks, t)
      <3>1. \A p \in Range(parks) \cup Range(t) : p.req \in dropped => p.req \in dropped'
        BY <1>10, <2>2
      <3> QED BY <1>0, <1>3, <3>1, OnceMore
    <2>6. Marked(dropped, cache, AllParks)'
      <3> SUFFICES ASSUME NEW p \in AllParks'
                   PROVE  p.req \in dropped' \/ \E e \in Range(cache') : e.req = p.req
        BY DEF Marked
      <3>1. p.req = h.req => p.req \in dropped
        BY <1>3, <2>2 DEF Apart
      <3> QED BY <1>10, <3>1
    <2>4. OneConn(conns, sends)' /\ Resumes(conns, AllParks)'
      BY <1>1, <1>11, <1>13, <2>2
    <2>5. WakeInv'
      BY <1>5, <1>12, <2>1 DEF WakeInv
    <2> QED BY <1>2, <2>1, <2>3, <2>4, <2>5, <2>6 DEF PInv
  <1>14. CASE o.kind = "parked"
    <2> DEFINE q == [req |-> h.req, target |-> h.target, index |-> o.index, chan |-> Len(ch) + 1]
               k == [verdict |-> "none", token |-> tokens[o.index], late |-> FALSE]
    <2>1. parks' = Append(parks, q) /\ chans' = Append(ch, k)
      BY <1>6, <1>14 DEF Conclude
    <2>2. q \in ParkType /\ q.req = h.req /\ q.target = h.target /\ q.chan = Len(ch) + 1
      <3>1. Len(ch) \in Nat /\ o.index \in Nat \ {0}
        BY <1>5, <1>7, <1>14
      <3> QED BY <1>8, <3>1, ParkIs
    <2>3. k.verdict = "none"
      OBVIOUS
    <2> HIDE DEF q, k
    <2>4. /\ Len(chans') >= Len(chans)
          /\ \A i \in 1 .. Len(chans) : chans'[i] = ch[i]
          /\ chans'[q.chan].verdict = "none"
      <3> DEFINE S == Chan \cup {k}
      <3>1. ch \in Seq(S) /\ k \in S
        BY <1>5
      <3>2. /\ Len(chans') = Len(ch) + 1 /\ chans'[Len(ch) + 1] = k
            /\ \A i \in 1 .. Len(ch) : chans'[i] = ch[i]
        BY <2>1, <3>1, AppendIs
      <3>3. Len(chans) \in Nat
        BY <1>0
      <3>4. Len(chans') >= Len(chans)
        BY <1>5, <3>2, <3>3
      <3>5. chans'[q.chan].verdict = "none"
        BY <2>2, <2>3, <3>2
      <3> QED BY <1>5, <3>2, <3>4, <3>5
    <2>5. AllApart(dropped, Range(parks), q) /\ AllApart(dropped, Range(t), q)
      BY <1>3, <2>2 DEF Apart, AllApart
    <2>6. Once(dropped, parks', t) /\ Range(parks') = Range(parks) \cup {q}
      <3>1. /\ parks \in Seq(ParkType) /\ t \in Seq(ParkType) /\ q \in ParkType
            /\ Once(dropped, parks, t)
        BY <1>0, <1>3, <2>2
      <3>2. Once(dropped, Append(parks, q), t) /\ Range(Append(parks, q)) = Range(parks) \cup {q}
        BY <2>5, <3>1, ParkAdds
      <3> QED BY <2>1, <3>2
    <2>7. AllParks' = W \cup {q}
      BY <1>2, <2>6
    <2>8. Once(dropped', parks', t)
      <3>1. parks' \in Seq(ParkType)
        BY DEF Shapes
      <3>2. \A p \in Range(parks') \cup Range(t) : p.req \in dropped => p.req \in dropped'
        BY <1>2, <1>10
      <3> QED BY <1>3, <2>6, <3>1, <3>2, OnceMore
    <2>11. Marked(dropped, cache, AllParks)'
      <3> SUFFICES ASSUME NEW p \in AllParks'
                   PROVE  p.req \in dropped' \/ \E e \in Range(cache') : e.req = p.req
        BY DEF Marked
      <3>1. h.req \in dropped \/ \E e \in Range(cache') : e.req = h.req
        BY <1>0, <1>8, <1>9, <1>14 DEF Marked
      <3> QED BY <1>10, <3>1
    <2>9. OneConn(conns, sends)' /\ Resumes(conns, AllParks)'
      BY <1>1, <1>11, <1>14, <2>2, <2>7
    <2>10. WakeInv'
      BY <1>12, <2>4, <2>6 DEF WakeInv
    <2> QED BY <1>2, <2>8, <2>9, <2>10, <2>11 DEF PInv
  <1> QED BY <1>13, <1>14

LEMMA PInvStep ==
  ASSUME PInv, [Next]_vars
  PROVE  PInv'
  <1>0. /\ Shapes /\ Shapes' /\ conns \subseteq ConnType /\ sends \in Nat
        /\ OneConn(conns, sends)
    BY ShapesStep DEF PInv, Shapes
  <1>1. ASSUME NEW r \in Req, ProcessPacket(r) PROVE PInv'
    <2>1. Dispatch(r, Udp) /\ Handles([kind |-> "udp"]) /\ sends' = sends + 1
      BY <1>1 DEF ProcessPacket
    <2>2. Udp \in Nat /\ sends' \in Nat /\ sends <= sends'
      BY <1>0, <2>1 DEF Udp
    <2>3. \A c \in conns : c.id # Udp
      BY <1>0 DEF ConnType, Udp
    <2> QED BY <1>0, <2>1, <2>2, <2>3, DispatchKeeps
  <1>2. ASSUME NEW c \in conns, ReadRequest(c) PROVE PInv'
    <2>1. /\ Dispatch(c.req, c.id) /\ Handles([kind |-> "conn", id |-> c.id])
          /\ sends' = sends /\ c.io = "read"
      BY <1>2 DEF ReadRequest, ConnTurn
    <2>2. c.req \in Req /\ c.id \in Nat /\ sends' \in Nat /\ sends <= sends'
      BY <1>0, <2>1 DEF ConnType
    <2>3. \A d \in conns : d.id = c.id => d.io # "parked"
      BY <1>0, <2>1 DEF OneConn
    <2> QED BY <1>0, <2>1, <2>2, <2>3, DispatchKeeps
  <1>3. CASE Resume
    BY <1>0, <1>3, ResumeKeeps
  <1>4. CASE UNCHANGED vars
    <2>1. AllParks' = AllParks /\ Todo' = Todo
      BY <1>4 DEF AllParks, Todo, vars
    <2>2. WakeInv'
      BY <1>4 DEF WakeInv, PInv, vars
    <2>3. /\ Once(dropped, parks, Todo)' /\ Marked(dropped, cache, AllParks)'
          /\ OneConn(conns, sends)' /\ Resumes(conns, AllParks)'
      BY <1>4, <2>1 DEF PInv, vars
    <2> QED BY <1>0, <2>2, <2>3 DEF PInv
  <1>5. Next => PassStep \/ PlainStep \/ PoolStep
    BY DEF Next, LoopStep, PassStep, PlainStep, PoolStep
  <1> QED BY <1>1, <1>2, <1>3, <1>4, <1>5, PlainKeeps, PoolKeeps DEF PassStep

LEMMA PInvInit == Init => PInv
  <1> SUFFICES ASSUME Init PROVE PInv
    OBVIOUS
  <1>1. AllParks = {} /\ Todo = <<>> /\ parks = <<>> /\ conns = {} /\ Range(parks) = {}
    BY DEF Init, AllParks, Todo, Polling, Range
  <1>2. Len(parks) = 0 /\ Len(Todo) = 0
    BY <1>1
  <1>3. Once(dropped, parks, Todo)
    BY <1>2 DEF Once
  <1> QED BY <1>1, <1>3, ShapesInit DEF PInv, Marked, OneConn, Resumes, WakeInv

LEMMA PInvSays == PInv => ParkedRequestsHold
  <1> SUFFICES ASSUME PInv PROVE ParkedRequestsHold
    OBVIOUS
  <1>1. NoLostWakeup
    <2>1. loop = Polling => loop.at # "events"
      BY DEF Polling
    <2> QED BY <2>1 DEF PInv, WakeInv, NoLostWakeup
  <1>2. ParkedConnsResume
    BY DEF PInv, Resumes, ParkedConnsResume
  <1>3. OneVerification
    <2>0. /\ Once(dropped, parks, Todo) /\ parks \in Seq(ParkType) /\ Todo \in Seq(ParkType)
          /\ AllParks = Range(parks) \cup Range(Todo)
      BY ParksAre DEF PInv, Shapes
    <2>1. Range(parks) = {parks[i] : i \in 1 .. Len(parks)}
      BY <2>0, RangeIs
    <2>2. Range(Todo) = {Todo[i] : i \in 1 .. Len(Todo)}
      BY <2>0, RangeIs
    <2>3. \A p, q \in Range(parks) : p = q \/ Apart(dropped, p, q)
      BY <2>0, <2>1 DEF Once
    <2>4. \A p, q \in Range(Todo) : p = q \/ Apart(dropped, p, q)
      BY <2>0, <2>2 DEF Once
    <2>5. \A p \in Range(parks), q \in Range(Todo) : Apart(dropped, p, q)
      BY <2>0, <2>1, <2>2 DEF Once
    <2> QED BY <2>0, <2>3, <2>4, <2>5 DEF OneVerification, Apart
  <1> QED BY <1>1, <1>2, <1>3 DEF ParkedRequestsHold

(* The loop never sleeps over a verdict, a parked connection is there when *)
(* its request is processed again and a request has one verification at a  *)
(* time (net_server.rs, resolve_parks and kill_lru; dispatch.rs), for any  *)
(* number of requests, connections and workers and whatever the lookaside  *)
(* cache evicts: what is verified twice is a request whose mark it dropped *)
(* while the request was parked.                                           *)
THEOREM ParksHold == Spec => []ParkedRequestsHold
  BY PInvInit, PInvStep, PInvSays, PTL DEF Spec
==============================================================================
