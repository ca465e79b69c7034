----------------------------- MODULE IpropProofs -----------------------------
(***************************************************************************)
(* What a replica's log claims, its database holds, for any number of      *)
(* principals, changes, log restarts, faults and resyncs under way at once *)
(* and any size of the ring, but for the crossing of a replay and a load.  *)
(***************************************************************************)
EXTENDS Iprop, WellFoundedInduction, TLAPS

(* Zenon first, Z3 for what needs arithmetic. *)
USE ZenonT(5), SMTT(20)

(* The primary's database at each version of a history. *)
Held(h, v) ==
    [r \in Row |->
       LET w == {u \in 1 .. v : h[u] = r}
       IN  IF w = {} THEN 0 ELSE CHOOSE m \in w : \A u \in w : u <= m]

Stamps == [epoch : Nat, ver : Nat]
Dump == [stamp : Stamps, db : [Row -> Nat]]
Load == [pc : {"none", "reinit", "promoted", "restarted"}, dump : Dump]
Poller == [pc : {"idle", "asked", "got", "exited"}, status : {"nil", "ok", "resync"},
           from : Stamps, to : Stamps]

(* A stamp of the past or present; a dump of one. *)
Known(st) == st.epoch <= epoch /\ st.ver <= pver
DumpOk(d) == Known(d.stamp) /\ d.db = Held(hist, d.stamp.ver)

Types ==
    /\ hist \in Seq(Row)
    /\ epoch \in Nat \ {0}
    /\ start \in Nat /\ start <= pver
    /\ dumpFile \in Dump
    /\ dumps \in Seq(Dump)
    /\ rlast \in Stamps
    /\ poller \in Poller
    /\ loader \in Load
    /\ tails \in Seq(Load)

(* The log holds updates of principals only. *)
LogInv == \A v \in start + 1 .. pver : hist[v] # Policies

(* Every dump there is, is of a version the primary had. *)
DumpInv ==
    /\ DumpOk(dumpFile)
    /\ \A i \in 1 .. Len(dumps) : DumpOk(dumps[i])
    /\ DumpOk(loader.dump)
    /\ \A i \in 1 .. Len(tails) : DumpOk(tails[i].dump)

(* Without a crossing the replica's database is one the primary had, the   *)
(* one its log names when it names one; while a load that has promoted is  *)
(* still to write the log, the database is that load's and the log names   *)
(* none.                                                                   *)
ClaimInv ==
    /\ Known(rlast)
    /\ ~crossed =>
         /\ \E v \in 0 .. pver : rdb = Held(hist, v)
         /\ rlast = NoStamp \/ rdb = Held(hist, rlast.ver)
         /\ tails # <<>> => /\ rlast = NoStamp
                           /\ Len(tails) = 1
                           /\ rdb = tails[1].dump.db

(* A reply with updates was asked from a stamp, and holds all between that *)
(* and its last one.                                                       *)
PollInv ==
    /\ Known(poller.from) /\ Known(poller.to)
    /\ poller.pc = "got" /\ poller.status = "ok" =>
          /\ poller.from # NoStamp
          /\ poller.from.ver <= poller.to.ver
          /\ \A v \in poller.from.ver + 1 .. poller.to.ver : hist[v] # Policies

IInv == Types /\ LogInv /\ DumpInv /\ ClaimInv /\ PollInv

-----------------------------------------------------------------------------
(* Histories. *)

(* A bounded set of versions has a last one: the CHOOSE of Apply finds it.  *)
LEMMA HasMax ==
  ASSUME NEW b \in Nat, NEW w \in SUBSET (0 .. b), w # {}
  PROVE  \E m \in w : \A u \in w : u <= m
  <1> DEFINE T == {b - u : u \in w}
             R == OpToRel(<, Nat)
  <1>0. \A u \in w : u \in Nat /\ u <= b /\ b - u \in Nat
    OBVIOUS
  <1>1. T \subseteq Nat /\ T # {}
    BY <1>0
  <1>2. IsWellFoundedOn(R, Nat)
    BY NatLessThanWellFounded
  <1>3. PICK x \in T : \A y \in T : ~ (<<y, x>> \in R)
    <2> HIDE DEF T, R
    <2> QED BY <1>1, <1>2, WFMin
  <1>4. \A y \in T : ~(y < x)
    BY <1>1, <1>3 DEF OpToRel
  <1>5. PICK m \in w : x = b - m
    OBVIOUS
  <1>6. \A u \in w : u <= m
    <2> SUFFICES ASSUME NEW u \in w PROVE u <= m
      OBVIOUS
    <2>1. ~(b - u < b - m)
      BY <1>4, <1>5
    <2>2. u \in Nat /\ m \in Nat
      BY <1>0
    <2> QED BY ONLY b \in Nat, <2>1, <2>2
  <1> QED BY <1>6

LEMMA HeldIs ==
  ASSUME NEW v
  PROVE  Apply([r \in Row |-> 0], 1, v) = Held(hist, v)
  BY DEF Apply, Held

(* What the primary held at a version does not change as it goes on: hist  *)
(* is only ever appended to.                                               *)
LEMMA PastStays ==
  ASSUME NEW h \in Seq(Row), NEW x, NEW v \in 0 .. Len(h)
  PROVE  Held(Append(h, x), v) = Held(h, v)
  <1> DEFINE g == Append(h, x)
             F(s) == IF s = {} THEN 0 ELSE CHOOSE m \in s : \A u \in s : u <= m
  <1>1. \A u \in 1 .. v : g[u] = h[u]
    OBVIOUS
  <1> HIDE DEF g
  <1>2. \A r \in Row : {u \in 1 .. v : g[u] = r} = {u \in 1 .. v : h[u] = r}
    BY <1>1
  <1>3. /\ Held(h, v) = [r \in Row |-> F({u \in 1 .. v : h[u] = r})]
        /\ Held(g, v) = [r \in Row |-> F({u \in 1 .. v : g[u] = r})]
    BY DEF Held
  <1> HIDE DEF F
  <1> QED BY <1>2, <1>3 DEF g

LEMMA HeldTypes ==
  ASSUME hist \in Seq(Row), NEW v \in 0 .. pver
  PROVE  Held(hist, v) \in [Row -> Nat]
  <1> SUFFICES ASSUME NEW r \in Row PROVE Held(hist, v)[r] \in Nat
    BY DEF Held, Apply
  <1> DEFINE w == {u \in 1 .. v : hist[u] = r}
  <1>1. Held(hist, v)[r] = IF w = {} THEN 0 ELSE CHOOSE m \in w : \A u \in w : u <= m
    BY DEF Held, Apply
  <1>2. v \in Nat /\ w \in SUBSET (0 .. v)
    BY DEF pver
  <1>3. CASE w = {}
    BY <1>1, <1>3
  <1>4. CASE w # {}
    <2> HIDE DEF w
    <2>1. \E m \in w : \A u \in w : u <= m
      BY <1>2, <1>4, HasMax
    <2>2. (CHOOSE m \in w : \A u \in w : u <= m) \in w
      BY <2>1
    <2>3. \A m \in w : m \in Nat
      BY <1>2
    <2> QED BY <1>1, <1>4, <2>2, <2>3
  <1> QED BY <1>3, <1>4

(* The versions after a, applied to what the primary held at a, give what  *)
(* it held at b.                                                           *)
LEMMA ApplyTwo ==
  ASSUME hist \in Seq(Row), NEW a \in Nat, NEW b \in Nat, a <= b, b <= pver
  PROVE  Apply(Held(hist, a), a + 1, b) = Held(hist, b)
  <1> SUFFICES ASSUME NEW r \in Row PROVE Apply(Held(hist, a), a + 1, b)[r] = Held(hist, b)[r]
    BY DEF Held, Apply
  <1> DEFINE w(c, d) == {u \in c .. d : hist[u] = r}
             max(s) == CHOOSE m \in s : \A u \in s : u <= m
  <1>1. /\ Held(hist, a)[r] = IF w(1, a) = {} THEN 0 ELSE max(w(1, a))
        /\ Held(hist, b)[r] = IF w(1, b) = {} THEN 0 ELSE max(w(1, b))
        /\ Apply(Held(hist, a), a + 1, b)[r] =
              IF w(a + 1, b) = {} THEN Held(hist, a)[r] ELSE max(w(a + 1, b))
    BY DEF Held, Apply
  <1>2. w(1, b) = w(1, a) \cup w(a + 1, b)
    OBVIOUS
  <1>3. CASE w(a + 1, b) = {}
    <2>1. w(1, b) = w(1, a)
      BY <1>2, <1>3
    <2> QED BY <1>1, <1>3, <2>1
  <1>4. CASE w(a + 1, b) # {}
    <2> DEFINE s == w(a + 1, b)
               t == w(1, b)
    <2>1. s \in SUBSET (0 .. b) /\ t \in SUBSET (0 .. b) /\ s \subseteq t /\ t # {}
      BY <1>2, <1>4
    <2>2. \A u \in t \ s : \A x \in s : u <= x
      OBVIOUS
    <2> HIDE DEF s, t
    <2>3. \E m \in s : \A u \in s : u <= m
      BY <2>1, <1>4, HasMax DEF s
    <2>4. \E m \in t : \A u \in t : u <= m
      BY <2>1, HasMax
    <2>5. max(s) \in s /\ \A u \in s : u <= max(s)
      BY <2>3
    <2>6. max(t) \in t /\ \A u \in t : u <= max(t)
      BY <2>4
    <2>7. \A u \in t : u <= max(s)
      BY <2>2, <2>5
    <2> HIDE DEF max
    <2>8. max(s) = max(t)
      <3>0. \A u \in t : u \in Nat
        BY <2>1
      <3>1. max(s) \in Nat /\ max(t) \in Nat /\ max(s) \in t
        BY <2>1, <2>5, <2>6, <3>0
      <3>2. max(s) <= max(t) /\ max(t) <= max(s)
        BY <3>1, <2>6, <2>7
      <3> QED BY ONLY <3>1, <3>2
    <2> QED BY <1>1, <1>4, <2>1, <2>8 DEF s, t
  <1> QED BY <1>3, <1>4

(* Without a change of policy between them, updates alone do it.           *)
LEMMA UpdatesDo ==
  ASSUME hist \in Seq(Row), NEW a \in Nat, NEW b \in Nat, a <= b, b <= pver,
         \A v \in a + 1 .. b : hist[v] # Policies
  PROVE  Updated(Held(hist, a), a + 1, b) = Held(hist, b)
  <1>1. Apply(Held(hist, a), a + 1, b) = Held(hist, b)
    BY ApplyTwo
  <1>2. {v \in a + 1 .. b : hist[v] = Policies} = {}
    OBVIOUS
  <1>3. Policies \in Row
    BY DEF Row
  <1>4. Apply(Held(hist, a), a + 1, b)[Policies] = Held(hist, a)[Policies]
    BY <1>2, <1>3 DEF Apply
  <1>5. DOMAIN Held(hist, b) = Row /\ Held(hist, b) = [r \in Row |-> Held(hist, b)[r]]
    BY DEF Held, Apply
  <1> QED BY <1>1, <1>4, <1>5 DEF Updated


-----------------------------------------------------------------------------
(* The invariant. *)

LEMMA InitHolds == Init => IInv
  <1> SUFFICES ASSUME Init PROVE IInv
    OBVIOUS
  <1>1. Held(hist, 0) = [r \in Row |-> 0]
    BY DEF Held
  <1>2. Len(hist) = 0 /\ hist \in Seq(Row) /\ dumps \in Seq(Dump) /\ Len(dumps) = 0
        /\ tails \in Seq(Load) /\ Len(tails) = 0
    BY DEF Init
  <1>3. NoStamp \in Stamps /\ NoDump \in Dump
    BY DEF NoStamp, NoDump, Stamps, Dump
  <1>4. Types
    <2>1. Idle \in Poller /\ NoLoad \in Load
      BY <1>3 DEF Idle, NoLoad, Poller, Load
    <2>2. hist \in Seq(Row) /\ epoch \in Nat \ {0} /\ start \in Nat /\ start <= pver
      BY <1>2 DEF Init, pver
    <2> QED BY <1>2, <1>3, <2>1, <2>2 DEF Init, Types
  <1>5. \E v \in 0 .. pver : rdb = Held(hist, v)
    BY <1>1, <1>2 DEF Init, pver
  <1>6. Known(NoStamp) /\ DumpOk(NoDump)
    BY <1>1, <1>2 DEF Known, DumpOk, NoStamp, NoDump, Init, pver
  <1>7. DumpInv
    BY <1>2, <1>6 DEF DumpInv, Init, NoLoad
  <1>8. LogInv /\ ClaimInv /\ PollInv
    BY <1>2, <1>5, <1>6 DEF LogInv, ClaimInv, PollInv, Init, Idle, pver
  <1> QED BY <1>4, <1>7, <1>8 DEF IInv

(* The primary goes on: one more version in the same log, or a new log.    *)
LEMMA PrimaryKeeps ==
  ASSUME IInv, NEW x \in Row, hist' = Append(hist, x) \/ hist' = hist,
         \/ epoch' = epoch /\ start' = start /\ x # Policies
         \/ epoch' = epoch + 1 /\ start' = Len(hist'),
         UNCHANGED <<dumpFile, dumps, rdb, rlast, poller, loader, tails, crossed>>
  PROVE  IInv'
  <1> DEFINE n == Len(hist)
             k == Len(hist')
  <1>1. hist \in Seq(Row) /\ hist' \in Seq(Row) /\ n \in Nat /\ k \in Nat /\ n <= k
    <2>1. hist \in Seq(Row)
      BY DEF IInv, Types
    <2> QED BY <2>1
  <1>2. \A v \in 0 .. n : Held(hist', v) = Held(hist, v)
    <2> SUFFICES ASSUME NEW v \in 0 .. Len(hist) PROVE Held(hist', v) = Held(hist, v)
      OBVIOUS
    <2>1. Held(Append(hist, x), v) = Held(hist, v)
      BY <1>1, PastStays
    <2> QED BY <2>1
  <1>3. epoch \in Nat \ {0} /\ epoch' \in Nat \ {0} /\ epoch <= epoch'
        /\ start \in Nat /\ start' \in Nat /\ start <= n /\ start' <= k
    BY <1>1 DEF IInv, Types, pver
  <1>5. Types'
    BY <1>1, <1>3 DEF IInv, Types, pver
  <1>6. \A st \in Stamps : Known(st) => Known(st)'
    <2> SUFFICES ASSUME NEW st \in Stamps, Known(st) PROVE Known(st)'
      OBVIOUS
    <2>1. st.epoch \in Nat /\ st.ver \in Nat
      BY DEF Stamps
    <2>2. st.epoch <= epoch /\ st.ver <= n
      BY DEF Known, pver
    <2> HIDE DEF n, k
    <2>3. st.epoch <= epoch' /\ st.ver <= k
      BY <2>1, <2>2, <1>1, <1>3
    <2> QED BY <2>3 DEF Known, pver, k
  <1>7. \A d \in Dump : DumpOk(d) => DumpOk(d)'
    <2> SUFFICES ASSUME NEW d \in Dump, DumpOk(d) PROVE DumpOk(d)'
      OBVIOUS
    <2>1. d.stamp \in Stamps /\ d.stamp.ver \in Nat
      BY DEF Dump, Stamps
    <2>2. Known(d.stamp)' /\ d.stamp.ver \in 0 .. n
      BY <2>1, <1>6 DEF DumpOk, Known, pver
    <2> QED BY <2>2, <1>2 DEF DumpOk
  <1>9. LogInv'
    <2>1. CASE start' = Len(hist')
      BY <2>1, <1>1 DEF LogInv, pver
    <2>2. CASE start' = start /\ x # Policies
      <3> SUFFICES ASSUME NEW v \in start + 1 .. k PROVE hist'[v] # Policies
        BY <2>2 DEF LogInv, pver
      <3>1. CASE v \in start + 1 .. n
        BY <3>1, <1>1, <1>3 DEF IInv, LogInv, pver
      <3>2. CASE v \notin start + 1 .. n
        BY <2>2, <3>2, <1>1, <1>3
      <3> QED BY <3>1, <3>2
    <2> QED BY <2>1, <2>2
  <1>10. DumpInv'
    <2>1. /\ dumpFile \in Dump /\ loader.dump \in Dump
          /\ \A i \in 1 .. Len(dumps) : dumps[i] \in Dump
          /\ \A i \in 1 .. Len(tails) : tails[i].dump \in Dump
      <3>1. dumpFile \in Dump /\ dumps \in Seq(Dump) /\ loader \in Load /\ tails \in Seq(Load)
        BY DEF IInv, Types
      <3>2. \A i \in 1 .. Len(tails) : tails[i] \in Load
        BY <3>1
      <3>3. \A l \in Load : l.dump \in Dump
        BY DEF Load
      <3>4. \A i \in 1 .. Len(dumps) : dumps[i] \in Dump
        BY <3>1
      <3> QED BY <3>1, <3>2, <3>3, <3>4
    <2>2. DumpOk(dumpFile)' /\ DumpOk(loader.dump)'
      BY <2>1, <1>7 DEF IInv, DumpInv, DumpOk, Known
    <2>3. \A i \in 1 .. Len(dumps) : DumpOk(dumps[i])'
      BY <2>1, <1>7 DEF IInv, DumpInv, DumpOk, Known
    <2>4. \A i \in 1 .. Len(tails) : DumpOk(tails[i].dump)'
      BY <2>1, <1>7 DEF IInv, DumpInv, DumpOk, Known
    <2> QED BY <2>2, <2>3, <2>4 DEF DumpInv
  <1>11. rlast \in Stamps /\ Known(rlast) /\ Known(rlast)'
    <2>1. rlast \in Stamps /\ Known(rlast)
      BY DEF IInv, Types, ClaimInv
    <2> QED BY <2>1, <1>6 DEF Known
  <1>12. ClaimInv'
    <2> SUFFICES ASSUME ~crossed
                 PROVE  /\ (\E v \in 0 .. pver : rdb = Held(hist, v))'
                        /\ rlast = NoStamp \/ rdb = Held(hist', rlast.ver)
                        /\ tails # <<>> => rlast = NoStamp /\ Len(tails) = 1 /\ rdb = tails[1].dump.db
      BY <1>11 DEF ClaimInv
    <2>1. PICK v \in 0 .. n : rdb = Held(hist, v)
      BY DEF IInv, ClaimInv, pver
    <2>2. v \in 0 .. k /\ rdb' = Held(hist', v)
      BY <2>1, <1>1, <1>2
    <2>3. rlast.ver \in 0 .. n
      BY <1>11 DEF Known, Stamps, pver
    <2>4. rlast = NoStamp \/ rdb = Held(hist', rlast.ver)
      BY <2>3, <1>2 DEF IInv, ClaimInv
    <2> QED BY <2>2, <2>4 DEF IInv, ClaimInv, pver
  <1>13. poller.from \in Stamps /\ poller.to \in Stamps /\ Known(poller.from) /\ Known(poller.to)
    BY DEF IInv, Types, PollInv, Poller
  <1>15. PollInv'
    <2>3. Known(poller.from)' /\ Known(poller.to)'
      BY <1>13, <1>6 DEF Known
    <2>4. ASSUME poller.pc = "got", poller.status = "ok"
          PROVE  /\ poller.from # NoStamp
                 /\ poller.from.ver <= poller.to.ver
                 /\ \A v \in poller.from.ver + 1 .. poller.to.ver : hist'[v] # Policies
      <3>1. /\ poller.from # NoStamp
            /\ poller.from.ver <= poller.to.ver
            /\ \A v \in poller.from.ver + 1 .. poller.to.ver : hist[v] # Policies
        BY <2>4 DEF IInv, PollInv
      <3>2. poller.from.ver \in 0 .. n /\ poller.to.ver \in 0 .. n
        BY <1>13 DEF Known, Stamps, pver
      <3>3. \A v \in 1 .. n : hist'[v] = hist[v]
        BY <1>1
      <3> HIDE DEF n
      <3>4. \A v \in poller.from.ver + 1 .. poller.to.ver : v \in 1 .. n
        BY <3>2, <1>1
      <3> QED BY <3>1, <3>3, <3>4
    <2> QED BY <2>3, <2>4 DEF PollInv
  <1> QED BY <1>5, <1>9, <1>10, <1>12, <1>15 DEF IInv

(* A step that leaves the primary alone leaves what its log says alone.    *)
LEMMA PrimaryRests ==
  ASSUME UNCHANGED <<hist, epoch, start>>
  PROVE  /\ pver' = pver
         /\ LogInv => LogInv'
         /\ \A st : Known(st)' <=> Known(st)
         /\ \A d : DumpOk(d)' <=> DumpOk(d)
  BY DEF LogInv, pver, Known, DumpOk

LEMMA Facts ==
  ASSUME Types
  PROVE  /\ NoStamp \in Stamps /\ Known(NoStamp) /\ Status(NoStamp) = "resync"
         /\ Idle \in Poller /\ Idle.pc = "idle" /\ Idle.from = NoStamp /\ Idle.to = NoStamp
         /\ Exited \in Poller /\ Exited.pc = "exited"
         /\ Exited.from = NoStamp /\ Exited.to = NoStamp
         /\ NoLoad \in Load /\ NoLoad.dump = NoDump
         /\ NoDump \in Dump /\ DumpOk(NoDump)
  <1>3. NoStamp \in Stamps
    BY DEF NoStamp, Stamps
  <1>4. epoch \in Nat \ {0} /\ Len(hist) \in Nat
    BY DEF Types
  <1>5. Known(NoStamp) /\ Status(NoStamp) = "resync"
    BY <1>4 DEF Known, Status, NoStamp, Last, pver
  <1>6. /\ Idle \in Poller /\ Idle.pc = "idle" /\ Idle.from = NoStamp /\ Idle.to = NoStamp
        /\ Exited \in Poller /\ Exited.pc = "exited" /\ Exited.from = NoStamp /\ Exited.to = NoStamp
    BY <1>3 DEF Idle, Exited, Poller
  <1>7. Held(hist, 0) = [r \in Row |-> 0]
    BY DEF Held
  <1>8. NoDump \in Dump /\ NoDump.db = Held(hist, 0) /\ NoDump.stamp = NoStamp /\ NoStamp.ver = 0
    BY <1>3, <1>7 DEF NoDump, Dump, NoStamp
  <1>9. DumpOk(NoDump)
    BY <1>5, <1>8 DEF DumpOk
  <1>10. NoLoad \in Load /\ NoLoad.dump = NoDump
    BY <1>8 DEF NoLoad, Load
  <1> QED BY <1>3, <1>5, <1>6, <1>8, <1>9, <1>10

(* What is left of a sequence was in it. *)
Among(t, s) == \A j \in 1 .. Len(t) : \E k \in 1 .. Len(s) : t[j] = s[k]

LEMMA RemoveOk ==
  ASSUME NEW S, NEW s \in Seq(S), NEW i \in DOMAIN s, NEW t, t = RemoveNth(s, i)
  PROVE  /\ t \in Seq(S)
         /\ Len(t) = Len(s) - 1
         /\ Among(t, s)
  <1>1. i \in 1 .. Len(s) /\ Len(s) \in Nat /\ \A k \in 1 .. Len(s) : s[k] \in S
    OBVIOUS
  <1>2. t = [j \in 1 .. Len(s) - 1 |-> IF j < i THEN s[j] ELSE s[j + 1]]
    BY DEF RemoveNth
  <1>3. t \in Seq(S) /\ Len(t) = Len(s) - 1
    BY <1>1, <1>2
  <1>4. ASSUME NEW j \in 1 .. Len(s) - 1
        PROVE  \E k \in 1 .. Len(s) : t[j] = s[k]
    <2>1. j \in 1 .. Len(s) /\ j + 1 \in 1 .. Len(s)
      BY <1>1
    <2> QED BY <2>1, <1>2
  <1> QED BY <1>3, <1>4 DEF Among

(* kadmind's threads. *)
LEMMA DumpKeeps == IInv /\ (ResyncDump \/ SendDump) => IInv'
  <1> SUFFICES ASSUME IInv, ResyncDump \/ SendDump PROVE IInv'
    OBVIOUS
  <1> USE DEF primary, replica, loads
  <1>0. Types
    BY DEF IInv
  <1>1. UNCHANGED <<hist, epoch, start, rdb, rlast, poller, loader, tails, crossed>>
    BY DEF ResyncDump, SendDump
  <1>2. /\ LogInv' /\ pver' = pver
        /\ \A d : DumpOk(d)' <=> DumpOk(d)
        /\ \A st : Known(st)' <=> Known(st)
    BY <1>1, PrimaryRests DEF IInv
  <1>3. hist \in Seq(Row) /\ epoch \in Nat /\ pver \in Nat /\ pver \in 0 .. pver
    BY <1>0 DEF Types, pver
  <1>4. pdb = Held(hist, pver) /\ pdb \in [Row -> Nat]
    BY <1>3, HeldIs, HeldTypes DEF pdb
  <1>5. [stamp |-> Last, db |-> pdb] \in Dump /\ DumpOk([stamp |-> Last, db |-> pdb])
    BY <1>3, <1>4 DEF Dump, Stamps, Last, DumpOk, Known
  <1>6. dumpFile' \in Dump /\ DumpOk(dumpFile')
    BY <1>5, <1>0 DEF IInv, DumpInv, Types, ResyncDump, SendDump
  <1>7. dumps' \in Seq(Dump) /\ \A i \in 1 .. Len(dumps') : DumpOk(dumps'[i])
    <2>1. dumps \in Seq(Dump) /\ dumpFile \in Dump /\ DumpOk(dumpFile)
          /\ \A i \in 1 .. Len(dumps) : DumpOk(dumps[i])
      BY <1>0 DEF IInv, Types, DumpInv
    <2>2. CASE dumps' = dumps
      BY <2>1, <2>2
    <2>3. CASE dumps' = Append(dumps, dumpFile)
      <3>1. /\ dumps' \in Seq(Dump) /\ Len(dumps') = Len(dumps) + 1 /\ Len(dumps) \in Nat
            /\ \A i \in 1 .. Len(dumps) : dumps'[i] = dumps[i]
            /\ dumps'[Len(dumps) + 1] = dumpFile
        BY <2>1, <2>3
      <3>2. \A i \in 1 .. Len(dumps') : i \in 1 .. Len(dumps) \/ i = Len(dumps) + 1
        BY <3>1
      <3>3. \A i \in 1 .. Len(dumps') : DumpOk(dumps'[i])
        <4> SUFFICES ASSUME NEW i \in 1 .. Len(dumps') PROVE DumpOk(dumps'[i])
          OBVIOUS
        <4>1. CASE i \in 1 .. Len(dumps)
          BY <4>1, <2>1, <3>1 DEF DumpOk, Known
        <4>2. CASE i = Len(dumps) + 1
          BY <4>2, <2>1, <3>1 DEF DumpOk, Known
        <4> QED BY <3>2, <4>1, <4>2
      <3> QED BY <3>1, <3>3
    <2> QED BY <2>2, <2>3 DEF ResyncDump, SendDump
  <1>8. Types'
    BY <1>0, <1>1, <1>2, <1>6, <1>7 DEF Types
  <1>10. DumpInv'
    <2>1. DumpOk(dumpFile)' /\ \A i \in 1 .. Len(dumps') : DumpOk(dumps[i])'
      BY <1>1, <1>2, <1>6, <1>7 DEF DumpOk, Known
    <2> QED BY <1>1, <1>2, <2>1 DEF IInv, DumpInv, DumpOk, Known
  <1>11. ClaimInv' /\ PollInv'
    BY <1>1, <1>2 DEF IInv, ClaimInv, PollInv, Known
  <1> QED BY <1>2, <1>8, <1>10, <1>11 DEF IInv

(* A step of the poller that leaves the replica and the loads alone.       *)
LEMMA PollerKeeps ==
  ASSUME IInv,
         UNCHANGED <<hist, epoch, start, dumpFile, rdb, rlast, loader, tails, crossed>>,
         dumps' = dumps \/ dumps' = <<>>,
         poller' \in Poller, PollInv'
  PROVE  IInv'
  <1>1. Types'
    <2>1. Types /\ pver' = pver /\ dumps \in Seq(Dump) /\ <<>> \in Seq(Dump)
      BY DEF IInv, Types, pver
    <2> QED BY <2>1 DEF Types
  <1>2. LogInv' /\ ClaimInv'
    BY PrimaryRests DEF IInv, ClaimInv, Known, pver
  <1>3. DumpInv'
    <2>1. \A d : DumpOk(d)' <=> DumpOk(d)
      BY PrimaryRests
    <2>2. \A i \in 1 .. Len(dumps') : DumpOk(dumps[i])'
      <3>1. CASE dumps' = dumps
        BY <3>1, <2>1 DEF IInv, DumpInv, DumpOk, Known
      <3>2. CASE dumps' = <<>>
        BY <3>2
      <3> QED BY <3>1, <3>2
    <2> QED BY <2>1, <2>2 DEF IInv, DumpInv, DumpOk, Known
  <1> QED BY <1>1, <1>2, <1>3 DEF IInv

LEMMA RestsKeeps ==
  ASSUME IInv, poller' \in {Idle, Exited},
         UNCHANGED <<hist, epoch, start, dumpFile, rdb, rlast, loader, tails, crossed>>,
         dumps' = dumps \/ dumps' = <<>>
  PROVE  IInv'
  <1>0. Types
    BY DEF IInv
  <1>1. /\ poller' \in Poller /\ poller'.pc # "got"
        /\ poller'.from = NoStamp /\ poller'.to = NoStamp /\ Known(NoStamp)
    BY <1>0, Facts
  <1>2. Known(NoStamp)'
    BY <1>1, PrimaryRests
  <1>3. PollInv'
    BY <1>1, <1>2 DEF PollInv, Known
  <1> QED BY <1>1, <1>3, PollerKeeps

LEMMA AskKeeps == IInv /\ Ask => IInv'
  <1> SUFFICES ASSUME IInv, Ask PROVE IInv'
    OBVIOUS
  <1> USE DEF Ask, primary, replica, resyncs, loads
  <1>0. Types
    BY DEF IInv
  <1>1. /\ poller'.pc = "asked" /\ poller'.from = rlast /\ poller'.to = NoStamp
        /\ poller' \in Poller
    BY <1>0, Facts DEF Types, Idle, Poller
  <1>2. UNCHANGED <<hist, epoch, start, dumpFile, dumps, rdb, rlast, loader, tails, crossed>>
    OBVIOUS
  <1>4. PollInv'
    BY <1>0, <1>1, <1>2, Facts DEF IInv, PollInv, ClaimInv, Known, pver
  <1> QED BY <1>1, <1>2, <1>4, PollerKeeps

LEMMA GetKeeps == IInv /\ GetUpdates => IInv'
  <1> SUFFICES ASSUME IInv, GetUpdates PROVE IInv'
    OBVIOUS
  <1> USE DEF GetUpdates, primary, replica, resyncs, loads
  <1>0. Types /\ hist \in Seq(Row) /\ epoch \in Nat /\ pver \in Nat /\ start \in Nat
    BY DEF IInv, Types, pver
  <1>1. /\ poller'.pc = "got" /\ poller'.from = poller.from /\ poller'.to = Last
        /\ poller'.status = Status(poller.from)
        /\ poller' \in Poller /\ poller.from \in Stamps
    <2>1. Last \in Stamps /\ Status(poller.from) \in {"nil", "ok", "resync"}
      BY <1>0 DEF Last, Stamps, Status
    <2> QED BY <2>1, <1>0 DEF Types, Poller
  <1>2. UNCHANGED <<hist, epoch, start, dumpFile, dumps, rdb, rlast, loader, tails, crossed>>
    OBVIOUS
  <1>5. Known(poller.from)' /\ Known(poller.to)'
    <2>1. Known(poller.from) /\ Known(Last)
      BY <1>0 DEF IInv, PollInv, Known, Last
    <2> QED BY <2>1, <1>1, <1>2 DEF Known, pver
  <1>6. ASSUME Status(poller.from) = "ok"
        PROVE  /\ poller.from # NoStamp
               /\ poller.from.ver <= pver
               /\ \A v \in poller.from.ver + 1 .. pver : hist[v] # Policies
    <2>1. poller.from # NoStamp
      BY <1>0, <1>6, Facts
    <2>2. poller.from.ver <= pver
      BY DEF IInv, PollInv, Known
    <2>3. poller.from.ver >= start /\ poller.from.ver \in Nat
      BY <1>6, <1>1 DEF Status, Stamps
    <2>4. \A v \in poller.from.ver + 1 .. pver : v \in start + 1 .. pver
      BY <2>3, <1>0
    <2> QED BY <2>1, <2>2, <2>4 DEF IInv, LogInv
  <1>7. PollInv'
    <2>2. Last.ver = pver
      BY DEF Last
    <2> QED BY <2>2, <1>1, <1>2, <1>5, <1>6 DEF PollInv
  <1> QED BY <1>1, <1>2, <1>7, PollerKeeps

(* A batch that is replayed on the database it was asked for makes the     *)
(* next version of the replica.                                            *)
LEMMA BatchDoes ==
  ASSUME IInv, poller.pc = "got", poller.status = "ok", ~Crossing
  PROVE  /\ Updated(rdb, poller.from.ver + 1, poller.to.ver) = Held(hist, poller.to.ver)
         /\ poller.to.ver \in 0 .. pver
         /\ ~crossed /\ tails = <<>>
  <1>1. hist \in Seq(Row) /\ poller.from.ver \in Nat /\ poller.to.ver \in Nat /\ pver \in Nat
    BY DEF IInv, Types, Stamps, pver, Poller
  <1>2. poller.to.ver <= pver
    BY DEF IInv, PollInv, Known
  <1>3. /\ poller.from # NoStamp
        /\ poller.from.ver <= poller.to.ver
        /\ \A v \in poller.from.ver + 1 .. poller.to.ver : hist[v] # Policies
    BY DEF IInv, PollInv
  <1>4. ~crossed /\ rlast = poller.from
    BY DEF Crossing
  <1>5. rdb = Held(hist, poller.from.ver) /\ tails = <<>>
    BY <1>3, <1>4 DEF IInv, ClaimInv
  <1> QED BY <1>1, <1>2, <1>3, <1>4, <1>5, UpdatesDo

(* A replay, whole or not: without a crossing the replica has a version of *)
(* the primary's, its log that version's stamp or none.                    *)
LEMMA ReplayKeeps ==
  ASSUME IInv, poller.pc = "got", poller.status = "ok", poller' \in {Idle, Exited},
         UNCHANGED <<hist, epoch, start, dumpFile, loader, tails>>,
         dumps' = dumps \/ dumps' = <<>>, crossed' = Crossing,
         \/ /\ rdb' = Updated(rdb, poller.from.ver + 1, poller.to.ver)
            /\ rlast' = poller.to
         \/ /\ rdb' \in {rdb, Updated(rdb, poller.from.ver + 1, poller.to.ver)}
            /\ rlast' = NoStamp
  PROVE  IInv'
  <1>0. Types
    BY DEF IInv
  <1>1. /\ poller' \in Poller /\ poller'.pc # "got"
        /\ poller'.from = NoStamp /\ poller'.to = NoStamp /\ Known(NoStamp) /\ NoStamp \in Stamps
    BY <1>0, Facts
  <1>2. poller.to \in Stamps /\ Known(poller.to)
    BY <1>0 DEF Types, Poller, IInv, PollInv
  <1>3. rlast' \in Stamps /\ Known(rlast')
    BY <1>1, <1>2
  <1>4. pver' = pver /\ LogInv' /\ (\A d : DumpOk(d)' <=> DumpOk(d)) /\ \A st : Known(st)' <=> Known(st)
    BY PrimaryRests DEF IInv
  <1>6. Types'
    <2>1. dumps \in Seq(Dump) /\ <<>> \in Seq(Dump)
      BY <1>0 DEF Types
    <2> QED BY <1>0, <1>1, <1>3, <1>4, <2>1 DEF Types
  <1>7. DumpInv'
    <2>2. \A i \in 1 .. Len(dumps') : DumpOk(dumps[i])'
      <3>1. CASE dumps' = dumps
        BY <3>1, <1>4 DEF IInv, DumpInv, DumpOk, Known
      <3>2. CASE dumps' = <<>>
        BY <3>2
      <3> QED BY <3>1, <3>2
    <2> QED BY <1>4, <2>2 DEF IInv, DumpInv, DumpOk, Known
  <1>8. ClaimInv'
    <2> SUFFICES ASSUME ~Crossing
                 PROVE  /\ \E v \in 0 .. pver : rdb' = Held(hist, v)
                        /\ rlast' = NoStamp \/ rdb' = Held(hist, rlast'.ver)
                        /\ tails = <<>>
      BY <1>3, <1>4 DEF ClaimInv, Known
    <2>1. /\ Updated(rdb, poller.from.ver + 1, poller.to.ver) = Held(hist, poller.to.ver)
          /\ poller.to.ver \in 0 .. pver
          /\ ~crossed /\ tails = <<>>
      BY BatchDoes
    <2>2. \E v \in 0 .. pver : rdb = Held(hist, v)
      BY <2>1 DEF IInv, ClaimInv
    <2> QED BY <2>1, <2>2
  <1>9. PollInv'
    BY <1>1, <1>4 DEF PollInv, Known
  <1> QED BY <1>4, <1>6, <1>7, <1>8, <1>9 DEF IInv

LEMMA EndKeeps == IInv /\ (Replay \/ ReplayFails \/ KpropdEnds) => IInv'
  <1> USE DEF primary, replica, resyncs, loads
  <1>1. ASSUME IInv, Replay PROVE IInv'
    BY <1>1, ReplayKeeps DEF Replay
  <1>2. ASSUME IInv, ReplayFails PROVE IInv'
    BY <1>2, ReplayKeeps DEF ReplayFails, HalfReplayed
  <1>3. ASSUME IInv, KpropdEnds PROVE IInv'
    <2>1. CASE HalfReplayed
      BY <1>3, <2>1, ReplayKeeps DEF KpropdEnds, HalfReplayed
    <2>2. CASE UNCHANGED <<replica, crossed>>
      BY <1>3, <2>2, RestsKeeps DEF KpropdEnds
    <2> QED BY <1>3, <2>1, <2>2 DEF KpropdEnds
  <1> QED BY <1>1, <1>2, <1>3

(* kdb5_util load -i: the steps change the dumps, the loads, the replica   *)
(* and nothing of the primary or the poller.                               *)
LEMMA LoadsKeep ==
  ASSUME IInv, UNCHANGED <<hist, epoch, start, dumpFile, poller>>,
         dumps' \in Seq(Dump), loader' \in Load, tails' \in Seq(Load),
         \A i \in 1 .. Len(dumps') : DumpOk(dumps'[i]),
         DumpOk(loader'.dump), \A i \in 1 .. Len(tails') : DumpOk(tails'[i].dump),
         rlast' \in Stamps, Known(rlast'),
         ~crossed' =>
           /\ \E v \in 0 .. pver : rdb' = Held(hist, v)
           /\ rlast' = NoStamp \/ rdb' = Held(hist, rlast'.ver)
           /\ tails' # <<>> => rlast' = NoStamp /\ Len(tails') = 1 /\ rdb' = tails'[1].dump.db
  PROVE  IInv'
  <1>0. Types
    BY DEF IInv
  <1>1. pver' = pver /\ LogInv' /\ (\A d : DumpOk(d)' <=> DumpOk(d)) /\ \A st : Known(st)' <=> Known(st)
    BY PrimaryRests DEF IInv
  <1>2. Types'
    BY <1>0, <1>1 DEF Types
  <1>3. DumpInv'
    BY <1>1 DEF IInv, DumpInv, DumpOk, Known
  <1>4. ClaimInv'
    BY <1>1 DEF ClaimInv, Known
  <1>5. PollInv'
    BY <1>1 DEF IInv, PollInv, Known
  <1> QED BY <1>1, <1>2, <1>3, <1>4, <1>5 DEF IInv

LEMMA LoadKeeps == IInv /\ (LoadReinit \/ LoadPromote \/ LoadRestart \/ LoadSetLast) => IInv'
  <1> SUFFICES ASSUME IInv PROVE LoadReinit \/ LoadPromote \/ LoadRestart \/ LoadSetLast => IInv'
    OBVIOUS
  <1> USE DEF primary, resyncs
  <1>0. Types
    BY DEF IInv
  <1>1. /\ dumps \in Seq(Dump) /\ loader \in Load /\ tails \in Seq(Load)
        /\ \A i \in 1 .. Len(dumps) : DumpOk(dumps[i])
        /\ DumpOk(loader.dump) /\ \A i \in 1 .. Len(tails) : DumpOk(tails[i].dump)
        /\ rlast \in Stamps /\ Known(rlast)
    BY <1>0 DEF IInv, Types, DumpInv, ClaimInv
  <1>2. NoStamp \in Stamps /\ Known(NoStamp) /\ NoLoad \in Load /\ NoLoad.dump = NoDump /\ DumpOk(NoDump)
    BY <1>0, Facts
  <1>3. ~crossed =>
           /\ \E v \in 0 .. pver : rdb = Held(hist, v)
           /\ rlast = NoStamp \/ rdb = Held(hist, rlast.ver)
           /\ tails # <<>> => rlast = NoStamp /\ Len(tails) = 1 /\ rdb = tails[1].dump.db
    BY DEF IInv, ClaimInv
  <1>4. ASSUME LoadReinit PROVE IInv'
    <2>1. PICK i \in DOMAIN dumps : /\ loader' = [pc |-> "reinit", dump |-> dumps[i]]
                                    /\ dumps' = RemoveNth(dumps, i)
      BY <1>4 DEF LoadReinit
    <2>2. /\ dumps' \in Seq(Dump)
          /\ Among(dumps', dumps)
      BY <1>1, <2>1, RemoveOk
    <2>3. \A j \in 1 .. Len(dumps') : DumpOk(dumps'[j])
      BY <2>2, <1>1 DEF Among
    <2>4. i \in 1 .. Len(dumps) /\ dumps[i] \in Dump
      BY <1>1
    <2>5. loader' \in Load /\ loader'.dump = dumps[i] /\ DumpOk(loader'.dump)
      BY <2>1, <2>4, <1>1 DEF Load
    <2> QED BY <2>2, <2>3, <2>5, <1>1, <1>2, <1>3, <1>4, LoadsKeep DEF LoadReinit
  <1>5. ASSUME LoadPromote PROVE IInv'
    <2> DEFINE t == [pc |-> "promoted", dump |-> loader.dump]
    <2>1. t \in Load /\ t.dump = loader.dump
      BY <1>1 DEF Load
    <2> HIDE DEF t
    <2>2. /\ tails' = Append(tails, t) /\ rdb' = loader.dump.db /\ loader' = NoLoad
          /\ rlast' = rlast /\ dumps' = dumps
          /\ crossed' = (rlast # NoStamp \/ tails # <<>>)
      BY <1>5 DEF LoadPromote, t
    <2>3. /\ tails' \in Seq(Load) /\ Len(tails) \in Nat /\ Len(tails') = Len(tails) + 1
          /\ \A i \in 1 .. Len(tails) : tails'[i] = tails[i]
          /\ tails'[Len(tails) + 1] = t
      BY <2>1, <2>2, <1>1
    <2>4. \A i \in 1 .. Len(tails') : i \in 1 .. Len(tails) \/ i = Len(tails) + 1
      BY <2>3
    <2>5. \A i \in 1 .. Len(tails') : DumpOk(tails'[i].dump)
      BY <2>1, <2>3, <2>4, <1>1
    <2>7. ASSUME ~crossed'
          PROVE  /\ \E v \in 0 .. pver : rdb' = Held(hist, v)
                 /\ rlast' = NoStamp \/ rdb' = Held(hist, rlast'.ver)
                 /\ tails' # <<>> => rlast' = NoStamp /\ Len(tails') = 1 /\ rdb' = tails'[1].dump.db
      <3>1. rlast = NoStamp /\ tails = <<>> /\ Len(tails) = 0
        BY <2>2, <2>7
      <3>2. loader.dump.db = Held(hist, loader.dump.stamp.ver) /\ loader.dump.stamp.ver <= pver
        BY <1>1 DEF DumpOk, Known
      <3>3. loader.dump.stamp.ver \in Nat /\ pver \in Nat
        BY <1>0, <1>1 DEF Load, Dump, Stamps, Types, pver
      <3> QED BY <2>1, <2>2, <2>3, <3>1, <3>2, <3>3
    <2> QED BY <2>2, <2>3, <2>5, <2>7, <1>1, <1>2, <1>5, LoadsKeep DEF LoadPromote
  <1>6. ASSUME LoadRestart PROVE IInv'
    <2>1. PICK i \in DOMAIN tails : tails' = [tails EXCEPT ![i].pc = "restarted"]
      BY <1>6 DEF LoadRestart
    <2>2. tails' \in Seq(Load) /\ Len(tails') = Len(tails) /\ (tails = <<>> <=> tails' = <<>>)
          /\ \A j \in 1 .. Len(tails) : tails'[j].dump = tails[j].dump
      <3> DEFINE t == [tails[i] EXCEPT !.pc = "restarted"]
      <3>1. tails[i] \in Load
        BY <1>1
      <3>2. t \in Load /\ t.dump = tails[i].dump
        BY <3>1 DEF Load
      <3>3. tails' = [tails EXCEPT ![i] = t]
        BY <2>1
      <3> HIDE DEF t
      <3>4. tails' \in Seq(Load) /\ Len(tails') = Len(tails)
            /\ \A j \in 1 .. Len(tails) : tails'[j] = IF j = i THEN t ELSE tails[j]
        BY <3>2, <3>3, <1>1
      <3>5. tails # <<>> /\ tails' # <<>>
        BY <3>4, <1>1
      <3> QED BY <3>2, <3>4, <3>5
    <2>3. \A j \in 1 .. Len(tails') : DumpOk(tails'[j].dump)
      BY <2>2, <1>1
    <2>4. ~crossed => Len(tails') = 1 /\ rdb = tails'[1].dump.db
      <3>1. tails # <<>> /\ (Len(tails) = 1 => 1 \in 1 .. Len(tails))
        BY <1>1, <2>1
      <3> QED BY <3>1, <2>2, <1>3
    <2> QED BY <2>2, <2>3, <2>4, <1>1, <1>2, <1>3, <1>6, LoadsKeep DEF LoadRestart
  <1>7. ASSUME LoadSetLast PROVE IInv'
    <2>1. PICK i \in DOMAIN tails : /\ rlast' = tails[i].dump.stamp
                                    /\ tails' = RemoveNth(tails, i)
      BY <1>7 DEF LoadSetLast
    <2>2. /\ tails' \in Seq(Load) /\ Len(tails') = Len(tails) - 1
          /\ Among(tails', tails)
      <3>1. tails \in Seq(Load) /\ tails' = RemoveNth(tails, i)
        BY <1>1, <2>1
      <3> QED BY <3>1, RemoveOk
    <2>3. \A j \in 1 .. Len(tails') : DumpOk(tails'[j].dump)
      BY <2>2, <1>1 DEF Among
    <2>4. i \in 1 .. Len(tails) /\ tails[i] \in Load /\ DumpOk(tails[i].dump) /\ tails # <<>>
      BY <1>1
    <2>5. rlast' \in Stamps /\ Known(rlast') /\ tails[i].dump.db = Held(hist, rlast'.ver)
      BY <2>1, <2>4 DEF Load, Dump, DumpOk
    <2>6. ~crossed => tails' = <<>> /\ rdb = Held(hist, rlast'.ver)
      <3> SUFFICES ASSUME ~crossed PROVE tails' = <<>> /\ rdb = Held(hist, rlast'.ver)
        OBVIOUS
      <3>1. Len(tails) = 1 /\ i = 1 /\ rdb = tails[1].dump.db
        BY <2>4, <1>3
      <3> QED BY <3>1, <2>2, <2>5
    <2> QED BY <2>2, <2>3, <2>5, <2>6, <1>1, <1>3, <1>7, LoadsKeep DEF LoadSetLast
  <1> QED BY <1>4, <1>5, <1>6, <1>7

LEMMA LostKeeps == IInv /\ LoadLost => IInv'
  <1> SUFFICES ASSUME IInv, LoadLost PROVE IInv'
    OBVIOUS
  <1> USE DEF primary, replica, resyncs, loads
  <1>0. Types
    BY DEF IInv
  <1>1. /\ dumps \in Seq(Dump) /\ loader \in Load /\ tails \in Seq(Load)
        /\ \A i \in 1 .. Len(dumps) : DumpOk(dumps[i])
        /\ DumpOk(loader.dump) /\ \A i \in 1 .. Len(tails) : DumpOk(tails[i].dump)
        /\ rlast \in Stamps /\ Known(rlast)
    BY <1>0 DEF IInv, Types, DumpInv, ClaimInv
  <1>2. NoLoad \in Load /\ NoLoad.dump = NoDump /\ DumpOk(NoDump)
    BY <1>0, Facts
  <1>3. ~crossed =>
           /\ \E v \in 0 .. pver : rdb = Held(hist, v)
           /\ rlast = NoStamp \/ rdb = Held(hist, rlast.ver)
           /\ tails # <<>> => rlast = NoStamp /\ Len(tails) = 1 /\ rdb = tails[1].dump.db
    BY DEF IInv, ClaimInv
  <1>4. UNCHANGED <<hist, epoch, start, dumpFile, poller, rdb, rlast, crossed>>
    BY DEF LoadLost
  <1>5. CASE loader' = NoLoad /\ UNCHANGED <<dumps, tails>>
    BY <1>1, <1>2, <1>3, <1>4, <1>5, LoadsKeep
  <1>6. ASSUME NEW i \in DOMAIN tails, tails' = RemoveNth(tails, i), UNCHANGED <<dumps, loader>>
        PROVE  IInv'
    <2>2. /\ tails' \in Seq(Load) /\ Len(tails') = Len(tails) - 1
          /\ Among(tails', tails)
      <3>1. tails \in Seq(Load) /\ tails' = RemoveNth(tails, i)
        BY <1>1, <1>6
      <3> QED BY <3>1, RemoveOk
    <2>3. \A j \in 1 .. Len(tails') : DumpOk(tails'[j].dump)
      BY <2>2, <1>1 DEF Among
    <2>4. ~crossed => tails' = <<>>
      <3>1. tails # <<>>
        BY <1>1
      <3>2. ~crossed => Len(tails) = 1
        BY <3>1, <1>3
      <3>3. Len(tails) = 1 => tails' = <<>>
        BY <2>2
      <3> QED BY <3>2, <3>3
    <2> QED BY <2>2, <2>3, <2>4, <1>1, <1>3, <1>4, <1>6, LoadsKeep
  <1>7. ASSUME NEW i \in DOMAIN dumps, dumps' = RemoveNth(dumps, i), UNCHANGED <<loader, tails>>
        PROVE  IInv'
    <2>2. /\ dumps' \in Seq(Dump)
          /\ Among(dumps', dumps)
      BY <1>1, <1>7, RemoveOk
    <2>3. \A j \in 1 .. Len(dumps') : DumpOk(dumps'[j])
      BY <2>2, <1>1 DEF Among
    <2> QED BY <2>2, <2>3, <1>1, <1>3, <1>4, <1>7, LoadsKeep
  <1>8. CASE UNCHANGED <<dumps, loader, tails>>
    BY <1>1, <1>3, <1>4, <1>8, LoadsKeep
  <1> QED BY <1>5, <1>6, <1>7, <1>8 DEF LoadLost

LEMMA StepKeeps == IInv /\ [Next]_vars => IInv'
  <1> SUFFICES ASSUME IInv, [Next]_vars PROVE IInv'
    OBVIOUS
  <1> USE DEF primary, replica, resyncs, loads
  <1>0. hist \in Seq(Row) /\ Princ \subseteq Row /\ Policies \in Row /\ Policies \notin Princ
    BY PoliciesAssumption DEF IInv, Types, Row
  <1>1. ASSUME NEW p \in Princ, Put(p) PROVE IInv'
    BY <1>1, <1>0, PrimaryKeeps DEF Put
  <1>2. CASE PutPolicy
    BY <1>2, <1>0, PrimaryKeeps DEF PutPolicy, RestartWith
  <1>3. CASE WriterKilled
    <2>1. CASE RestartWith(hist)
      BY <2>1, <1>0, PrimaryKeeps DEF RestartWith
    <2>2. ASSUME NEW p \in Princ, RestartWith(Append(hist, p)) PROVE IInv'
      BY <2>2, <1>0, PrimaryKeeps DEF RestartWith
    <2> QED BY <1>3, <2>1, <2>2 DEF WriterKilled
  <1>4. CASE Expire \/ UNCHANGED vars
    <2>1. UNCHANGED <<hist, epoch, start, dumpFile, dumps, rdb, rlast, poller, loader, tails, crossed>>
      BY <1>4 DEF Expire, vars
    <2>2. PollInv'
      BY <2>1 DEF IInv, PollInv, Known, pver
    <2> QED BY <2>1, <2>2, PollerKeeps DEF IInv, Types
  <1>5. CASE FullResync \/ Nil \/ NoAnswer \/ KpropdStarts
    BY <1>5, RestsKeeps DEF FullResync, Nil, NoAnswer, KpropdStarts
  <1> QED BY <1>1, <1>2, <1>3, <1>4, <1>5, DumpKeeps, AskKeeps, GetKeeps, EndKeeps, LoadKeeps,
             LostKeeps DEF Next, Propagate

(* The invariant holds whatever the bounds. *)
LEMMA Inductive == Spec => []IInv
  BY InitHolds, StepKeeps, PTL DEF Spec

(* A replica's log says truly what its database holds (get_entries,        *)
(* ulog_replay, set_last), unless a replay and a load, or two loads, have  *)
(* crossed since the last load that ran alone: answered with "nothing new" *)
(* it has the primary's database, and answered with updates, those make it *)
(* so, however many resyncs overlap.                                       *)
THEOREM LogIsTrue == Spec => []Synchronized
  <1>1. IInv => Synchronized
    <2> SUFFICES ASSUME IInv, ~crossed
                 PROVE  /\ Status(rlast) = "nil" => rdb = pdb
                        /\ Status(rlast) = "ok" => Updated(rdb, rlast.ver + 1, pver) = pdb
      BY DEF Synchronized
    <2>0. hist \in Seq(Row) /\ pver \in Nat /\ start \in Nat /\ rlast.ver \in Nat
      BY DEF IInv, Types, Stamps, pver
    <2>1. pdb = Held(hist, pver)
      BY HeldIs DEF pdb
    <2>2. Status(rlast) # "resync" => rdb = Held(hist, rlast.ver)
      BY Facts DEF IInv, ClaimInv
    <2>3. ASSUME Status(rlast) = "nil" PROVE rdb = pdb
      <3>1. rlast = Last
        BY <2>3 DEF Status
      <3> QED BY <3>1, <2>1, <2>2, <2>3 DEF Last
    <2>4. ASSUME Status(rlast) = "ok" PROVE Updated(rdb, rlast.ver + 1, pver) = pdb
      <3>1. rdb = Held(hist, rlast.ver) /\ rlast.ver <= pver /\ rlast.ver >= start
        BY <2>2, <2>4 DEF IInv, ClaimInv, Known, Status
      <3>2. \A v \in rlast.ver + 1 .. pver : v \in start + 1 .. pver
        BY <3>1, <2>0
      <3>3. \A v \in rlast.ver + 1 .. pver : hist[v] # Policies
        BY <3>2 DEF IInv, LogInv
      <3> QED BY <2>0, <2>1, <3>1, <3>3, UpdatesDo
    <2> QED BY <2>3, <2>4
  <1> QED BY <1>1, Inductive, PTL

(* Batches are replayed whole and dumps promoted whole, through every kill *)
(* and every overlap of resyncs: but for a crossing the replica never      *)
(* serves what the primary never had.                                      *)
THEOREM OnlyRealVersions == Spec => []PrimaryHadIt
  <1>1. IInv => PrimaryHadIt
    BY HeldIs DEF IInv, ClaimInv, PrimaryHadIt
  <1> QED BY <1>1, Inductive, PTL

==============================================================================
