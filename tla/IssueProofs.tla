----------------------------- MODULE IssueProofs -----------------------------
(***************************************************************************)
(* The times of a chain of tickets and what a ticket says of how its       *)
(* client proved itself, for every database, every set of requests and     *)
(* every policy of the KDC.                                                *)
(***************************************************************************)
EXTENDS Issue, WellFoundedInduction, TLAPS

(* Zenon first, Z3 for what needs arithmetic. *)
USE ZenonT(5), SMTT(20)

-----------------------------------------------------------------------------
(* Least and greatest elements. *)

(* A set of naturals that is not empty has a least element. *)
LEMMA LeastNat ==
    ASSUME NEW S \in SUBSET Nat, S # {}
    PROVE  Min(S) \in Nat /\ Min(S) \in S /\ \A y \in S : Min(S) <= y
  <1>1. PICK m \in S : \A y \in S : m <= y
    <2>1. IsWellFoundedOn(OpToRel(<, Nat), Nat)
      BY NatLessThanWellFounded
    <2>2. PICK m \in S : \A y \in S : ~ (<<y, m>> \in OpToRel(<, Nat))
      BY <2>1, WFMin
    <2>3. ASSUME NEW y \in S PROVE m <= y
      <3>1. ~ (<<y, m>> \in OpToRel(<, Nat))
        BY <2>2
      <3>2. y \in Nat /\ m \in Nat
        OBVIOUS
      <3>3. ~ (y < m)
        BY <3>1, <3>2 DEF OpToRel
      <3> QED BY <3>2, <3>3
    <2> QED BY <2>2, <2>3
  <1> QED BY <1>1 DEF Min

(* One integer, negative or not, among them changes nothing. *)
LEMMA LeastMixed ==
    ASSUME NEW a \in Int, NEW S \in SUBSET Nat
    PROVE  /\ Min({a} \cup S) \in {a} \cup S
           /\ \A y \in {a} \cup S : Min({a} \cup S) <= y
  <1>1. \E m \in {a} \cup S : \A y \in {a} \cup S : m <= y
    <2>1. CASE S = {}
      BY <2>1
    <2>2. CASE S # {}
      <3> DEFINE m == Min(S)
      <3>1. m \in Nat /\ m \in S /\ \A y \in S : m <= y
        BY <2>2, LeastNat
      <3> HIDE DEF m
      <3>2. CASE a <= m
        <4>1. \A y \in {a} \cup S : a <= y
          BY <3>1, <3>2
        <4> QED BY <4>1
      <3>3. CASE m <= a
        <4>1. \A y \in {a} \cup S : m <= y
          BY <3>1, <3>3
        <4> QED BY <3>1, <4>1
      <3>4. a <= m \/ m <= a
        BY <3>1
      <3> QED BY <3>2, <3>3, <3>4
    <2> QED BY <2>1, <2>2
  <1> QED BY <1>1 DEF Min

(* A number above all of a set is never its least. *)
LEMMA LeastStays ==
    ASSUME NEW S \in SUBSET Nat, S # {}, NEW n \in Nat, \A y \in S : y < n
    PROVE  Min(S \cup {n}) = Min(S)
  <1> DEFINE m == Min(S)
             k == Min(S \cup {n})
  <1>1. m \in Nat /\ m \in S /\ \A y \in S : m <= y
    BY LeastNat
  <1>2. k \in Nat /\ k \in S \cup {n} /\ \A y \in S \cup {n} : k <= y
    <2>1. S \cup {n} \in SUBSET Nat /\ S \cup {n} # {}
      OBVIOUS
    <2> QED BY <2>1, LeastNat
  <1> HIDE DEF m, k
  <1>3. k <= m /\ m < n
    BY <1>1, <1>2
  <1>4. k # n /\ k \in S
    BY <1>1, <1>2, <1>3
  <1>5. m <= k
    BY <1>1, <1>4
  <1>6. m = k
    BY <1>1, <1>2, <1>3, <1>5
  <1> QED BY <1>6 DEF m, k

LEMMA GreatestOfTwo ==
    ASSUME NEW a \in Int, NEW S, AtMostOne(S)
    PROVE  /\ Max({a} \cup S) \in Int /\ a <= Max({a} \cup S)
           /\ \A x \in S : x <= Max({a} \cup S)
  <1>1. S \subseteq Nat /\ \A x, y \in S : x = y
    BY DEF AtMostOne
  <1>2. \E m \in {a} \cup S : \A y \in {a} \cup S : m >= y
    <2>1. CASE S = {}
      BY <2>1
    <2>2. CASE S # {}
      <3>0. PICK b \in S : TRUE
        BY <2>2
      <3>1. S = {b} /\ b \in Int
        <4>1. b \in Nat
          BY <1>1
        <4>2. \A x \in S : x = b
          BY <1>1
        <4>3. S = {b}
          BY <4>2
        <4> QED BY <4>1, <4>3
      <3>2. CASE a >= b
        <4>1. \A y \in {a} \cup S : a >= y
          BY <3>1, <3>2
        <4> QED BY <4>1
      <3>3. CASE b >= a
        <4>1. \A y \in {a} \cup S : b >= y
          BY <3>1, <3>3
        <4> QED BY <3>1, <4>1
      <3>4. a >= b \/ b >= a
        BY <3>1
      <3> QED BY <3>2, <3>3, <3>4
    <2> QED BY <2>1, <2>2
  <1>3. Max({a} \cup S) \in {a} \cup S /\ \A y \in {a} \cup S : Max({a} \cup S) >= y
    BY <1>2 DEF Max
  <1> DEFINE m == Max({a} \cup S)
  <1>4. m \in {a} \cup S /\ \A y \in {a} \cup S : m >= y
    BY <1>3
  <1> HIDE DEF m
  <1>5. m \in Int /\ {a} \cup S \subseteq Int
    BY <1>1, <1>4
  <1>6. a <= m /\ \A x \in S : x <= m
    BY <1>4, <1>5
  <1> QED BY <1>5, <1>6 DEF m

-----------------------------------------------------------------------------
(* Checks in a row. *)

LEMMA NoRefusal ==
    ASSUME NEW checks, DOMAIN checks \subseteq Nat,
           \A k \in DOMAIN checks : checks[k][1] => checks[k][2] # Ok,
           FirstRefusal(checks) = Ok
    PROVE  \A k \in DOMAIN checks : ~ checks[k][1]
  <1> DEFINE bad == {i \in DOMAIN checks : checks[i][1]}
  <1>1. Nth(checks, bad) = Ok
    BY DEF FirstRefusal
  <1>2. bad \in SUBSET Nat
    OBVIOUS
  <1>3. ASSUME bad # {} PROVE FALSE
    <2>1. Min(bad) \in bad
      BY <1>2, <1>3, LeastNat
    <2>2. checks[Min(bad)][2] = Ok
      BY <1>1, <1>3 DEF Nth
    <2> QED BY <2>1, <2>2
  <1> QED BY <1>3

LEMMA ThenBoth ==
    ASSUME NEW a, NEW b, Then(a, b) = Ok
    PROVE  a = Ok /\ b = Ok
  BY DEF Then

-----------------------------------------------------------------------------
(* Times. *)

LEMMA SecondsIs ==
    /\ MaxStamp \in Nat
    /\ \A t \in Int : Seconds(t) \in 0 .. MaxStamp /\ (t >= 0 => Seconds(t) <= t) /\ (t < 0 => Seconds(t) = 0)
    /\ \A t \in Stamps : Seconds(t) = t
  BY KdcUtilAssumption DEF Seconds, MaxStamp, Stamps

(* Below half of the range the signed span is the plain difference, or the *)
(* longest span when that is longer.                                       *)
LEMMA SpanIs ==
    ASSUME NEW s \in Stamps, NEW u \in 0 .. MaxStamp
    PROVE  Span(s, u) \in Int /\ Span(s, u) <= u - s /\ - s <= Span(s, u)
  <1>1. /\ Width \in Nat /\ Width > 1 /\ Width \div 2 \in Nat /\ s \in Int /\ u \in Int
        /\ 0 <= s /\ s <= Width \div 2 /\ 0 <= u /\ u < Width
        /\ 2 * (Width \div 2) <= Width /\ 1 <= Width \div 2
    BY KdcUtilAssumption DEF Stamps, MaxStamp
  <1>2. CASE u >= s
    <2>1. (u - s) % Width = u - s
      BY <1>1, <1>2
    <2>2. CASE u - s < Width \div 2
      BY <1>1, <1>2, <2>1, <2>2 DEF Span, Signed
    <2>3. CASE u - s >= Width \div 2
      BY <1>1, <1>2, <2>1, <2>3 DEF Span, Signed
    <2> QED BY <1>1, <2>2, <2>3
  <1>3. CASE u < s
    <2>1. (u - s) % Width = u - s + Width
      BY <1>1, <1>3
    <2>2. u - s + Width >= Width \div 2
      BY <1>1, <1>3
    <2> QED BY <1>1, <1>3, <2>1, <2>2 DEF Span, Signed
  <1> QED BY <1>1, <1>2, <1>3

LEMMA SpanInt ==
    ASSUME NEW s \in Int, NEW u \in Int
    PROVE  Span(s, u) \in Int
  <1>1. Width \in Nat /\ Width > 0 /\ Width \div 2 \in Int
    BY KdcUtilAssumption
  <1>2. (u - s) % Width \in Int
    BY <1>1
  <1> QED BY <1>1, <1>2 DEF Span, Signed

LEMMA EndtimeIs ==
    ASSUME NEW start \in Stamps, NEW headerEnd \in SUBSET Int, NEW till \in Nat, NEW client, NEW server,
           \A p \in client \cup {server} : p.maxLife \in Nat
    PROVE  LET end == KdcGetTicketEndtime(start, headerEnd, till, client, server)
           IN  end \in Nat /\ \A e \in headerEnd : end <= Seconds(e)
  <1> DEFINE asked == {Seconds(t) : t \in headerEnd \cup (IF till = 0 THEN {} ELSE {till})}
             until == Min(asked \cup {MaxStamp})
             limits == ({p.maxLife : p \in client \cup {server}} \cup {RealmLife}) \ {0}
             span == Span(Seconds(start), until)
             life == Min({span} \cup limits)
             end == KdcGetTicketEndtime(start, headerEnd, till, client, server)
  <1>1. asked \cup {MaxStamp} \in SUBSET Nat /\ \A x \in asked \cup {MaxStamp} : x <= MaxStamp
    <2>1. MaxStamp \in Nat /\ \A t \in Int : Seconds(t) \in 0 .. MaxStamp
      BY SecondsIs
    <2>2. \A t \in headerEnd \cup (IF till = 0 THEN {} ELSE {till}) : t \in Int
      OBVIOUS
    <2> QED BY <2>1, <2>2
  <1>2. until \in Nat /\ until <= MaxStamp /\ \A x \in asked : until <= x
    BY <1>1, LeastNat
  <1>3. \A e \in headerEnd : Seconds(e) \in asked
    OBVIOUS
  <1>4. Seconds(start) = start /\ start \in Nat
    BY SecondsIs DEF Stamps
  <1>5. limits \in SUBSET Nat
    BY KdcUtilAssumption
  <1> HIDE DEF asked, limits
  <1>6. until \in 0 .. MaxStamp
    BY <1>2, SecondsIs
  <1>7. span \in Int /\ span <= until - start /\ - start <= span
    BY <1>4, <1>6, SpanIs
  <1>8. life \in {span} \cup limits /\ \A y \in {span} \cup limits : life <= y
    BY <1>5, <1>7, LeastMixed
  <1>9. end = start + life
    BY DEF KdcGetTicketEndtime, asked, limits
  <1> HIDE DEF until, span, life, end
  <1>10. life \in Int /\ life <= span /\ - start <= life
    BY <1>4, <1>5, <1>7, <1>8
  <1>11. end \in Nat /\ end <= until
    BY <1>2, <1>4, <1>7, <1>9, <1>10
  <1>12. ASSUME NEW e \in headerEnd PROVE end <= Seconds(e)
    <2>1. until <= Seconds(e) /\ Seconds(e) \in Int
      BY <1>2, <1>3, SecondsIs
    <2> QED BY <1>2, <1>11, <2>1
  <1> QED BY <1>11, <1>12 DEF end

LEMMA RenewtimeIs ==
    ASSUME NEW body, BodyOk(body), NEW header, \A h \in header : AtMostOne(h.renewTill),
           NEW client, NEW server, \A p \in client \cup {server} : p.maxRenew \in Nat,
           NEW start \in Nat, NEW end
    PROVE  LET renewTill == KdcGetTicketRenewtime(body, header, client, server, start, end)
           IN  /\ AtMostOne(renewTill)
               /\ \A h \in header : renewTill # {} => "RENEWABLE" \in h.flags
               /\ \A h \in header : \A x \in renewTill, y \in h.renewTill : x <= y
  <1> DEFINE asked == IF "RENEWABLE" \in body.opts
                      THEN (IF body.rtime = {} THEN {MaxStamp} ELSE body.rtime)
                      ELSE IF "RENEWABLE_OK" \in body.opts /\ body.till > Seconds(end)
                      THEN {body.till} ELSE {}
             lives == {p.maxRenew : p \in client \cup {server}} \cup {RealmRenew}
             carried == UNION {h.renewTill : h \in header}
             last == Seconds(start + Min(lives))
             all == asked \cup carried \cup {last}
             capped == Min(all)
             renewTill == KdcGetTicketRenewtime(body, header, client, server, start, end)
  <1>1. asked \subseteq Nat
    BY SecondsIs DEF BodyOk, AtMostOne
  <1>2. Min(lives) \in Nat
    <2>1. lives \in SUBSET Nat /\ lives # {}
      BY KdcUtilAssumption
    <2> QED BY <2>1, LeastNat
  <1>3. last \in Nat
    <2>1. start + Min(lives) \in Int
      BY <1>2
    <2> QED BY <2>1, SecondsIs
  <1>4. carried \subseteq Nat
    BY DEF AtMostOne
  <1>5. all \in SUBSET Nat /\ all # {}
    <2> HIDE DEF asked, carried, last
    <2> QED BY <1>1, <1>3, <1>4
  <1>6. capped \in Nat /\ \A y \in all : capped <= y
    BY <1>5, LeastNat
  <1>7. \/ renewTill = {}
        \/ renewTill = {capped} /\ \A h \in header : "RENEWABLE" \in h.flags
    <2>1. renewTill = IF \/ asked = {}
                         \/ \E p \in client \cup {server} : "DISALLOW_RENEWABLE" \in p.attrs
                         \/ \E h \in header : "RENEWABLE" \notin h.flags
                         \/ "RENEWABLE" \notin body.opts /\ capped <= Seconds(end)
                      THEN {} ELSE {capped}
      BY Zenon DEF KdcGetTicketRenewtime
    <2> HIDE DEF renewTill, asked, capped
    <2> QED BY <2>1
  <1>8. \A h \in header : h.renewTill \subseteq all
    OBVIOUS
  <1> HIDE DEF capped, all, renewTill
  <1>9. AtMostOne(renewTill)
    BY <1>6, <1>7 DEF AtMostOne
  <1>10. \A h \in header : \A x \in renewTill, y \in h.renewTill : x <= y
    BY <1>6, <1>7, <1>8
  <1> QED BY <1>7, <1>9, <1>10 DEF renewTill

LEMMA PolicyIs ==
    ASSUME NEW time \in Nat, NEW end \in Int
    PROVE  /\ PolicyEnd(time, end) \in Int /\ PolicyEnd(time, end) <= end
           /\ end \in Nat => PolicyEnd(time, end) \in Nat
  <1>1. Adjust.lifetime \in Nat
    BY KdcUtilAssumption
  <1>2. Seconds(end) \in Nat /\ (end >= 0 => Seconds(end) <= end) /\ (end < 0 => Seconds(end) = 0)
    BY SecondsIs
  <1> QED BY <1>1, <1>2 DEF PolicyEnd

LEMMA PolicyRenewIs ==
    ASSUME NEW time \in Nat, NEW till, AtMostOne(till)
    PROVE  /\ AtMostOne(PolicyRenew(time, till))
           /\ PolicyRenew(time, till) = {} => till = {}
           /\ till = {} => PolicyRenew(time, till) = {}
           /\ \A x \in PolicyRenew(time, till) : \E y \in till : x <= y
  <1>1. Adjust.renew \in Nat
    BY KdcUtilAssumption
  <1>2. till \subseteq Nat /\ \A a, b \in till : a = b
    BY DEF AtMostOne
  <1>3. CASE Adjust.renew = 0
    BY <1>2, <1>3 DEF PolicyRenew
  <1>4. CASE Adjust.renew # 0
    <2> DEFINE Least(t) == Min({t, time + Adjust.renew})
    <2>1. PolicyRenew(time, till) = {Least(t) : t \in till}
      BY <1>4 DEF PolicyRenew
    <2>2. ASSUME NEW t \in till PROVE Least(t) \in Nat /\ Least(t) <= t
      <3>1. {t, time + Adjust.renew} \in SUBSET Nat
        BY <1>1, <1>2
      <3> QED BY <3>1, LeastNat
    <2> HIDE DEF Least
    <2>3. AtMostOne({Least(t) : t \in till})
      BY <1>2, <2>2 DEF AtMostOne
    <2> QED BY <2>1, <2>2, <2>3
  <1> QED BY <1>3, <1>4

-----------------------------------------------------------------------------
(* The state of the KDCs and what is known of every ticket. *)
StateOk ==
    /\ now \in 0 .. MaxTime /\ DbOk(db)
    /\ \A r \in scene.as \cup scene.tgs : r.realm \in DOMAIN db /\ BodyOk(r.body)
    /\ \A r \in scene.as : r.methods \subseteq Methods
    /\ \A c \in cookies : c.type = "Cookie" /\ c.time \in Nat /\ \A d \in c.data : d.spake = c.time
    /\ \A f \in fresh : f.time \in Nat

(* A ticket whose times and indicators are well formed. *)
TicketOk(t) ==
    /\ {t.authtime, t.start} \subseteq Nat /\ t.end \in Int /\ AtMostOne(t.renewTill)
    /\ t.born \in Nat /\ t.parent \in Nat /\ (t.parent = 0 => t.end \in Nat)
    /\ "RENEWABLE" \in t.flags => t.renewTill # {}
    /\ \A c, d \in t.cammac : c = d /\ c.realm = t.srealm

LEMMA StampsNow == ASSUME StateOk PROVE now \in Stamps /\ now \in Nat
  <1>1. MaxTime \in Stamps
    BY SceneAssumption
  <1>2. Width \div 2 \in Int
    BY KdcUtilAssumption
  <1>3. now \in 0 .. MaxTime
    BY DEF StateOk
  <1> QED BY <1>1, <1>2, <1>3 DEF Stamps

LEMMA StartOk ==
    ASSUME StateOk, NEW body, BodyOk(body)
    PROVE  StartTime(body) \in Stamps /\ StartTime(body) \in Nat
  <1>1. now \in Stamps /\ body.from \in Stamps
    BY StampsNow DEF BodyOk
  <1>2. Stamps \subseteq Nat
    BY KdcUtilAssumption DEF Stamps
  <1> QED BY <1>1, <1>2 DEF StartTime

LEMMA FetchOk ==
    ASSUME StateOk, NEW realm \in DOMAIN db, NEW id, NEW p \in Fetch(realm, id)
    PROVE  id \in DOMAIN db[realm] /\ p = db[realm][id] /\ EntryOk(p, id)
  <1>1. id \in DOMAIN db[realm] /\ p = db[realm][id]
    BY DEF Fetch
  <1>2. RealmOk(db[realm], realm)
    BY DEF StateOk, DbOk
  <1> QED BY <1>1, <1>2 DEF RealmOk

LEMMA TgtOk ==
    ASSUME StateOk, NEW realm \in DOMAIN db
    PROVE  Tgt(realm).id[2] = realm
  <1>1. RealmOk(db[realm], realm)
    BY DEF StateOk, DbOk
  <1>2. Tgt(realm).id = <<Krbtgt(realm), realm>>
    BY <1>1 DEF RealmOk, EntryOk, Tgt
  <1> QED BY <1>2

(* The flags of a new ticket. *)
LEMMA FlagsFirst ==
    ASSUME NEW opts, NEW client, NEW server
    PROVE  "PRE_AUTHENT" \notin GetTicketFlags(opts, client, server, {})
  BY DEF GetTicketFlags, OptionFlags

LEMMA FlagsCarried ==
    ASSUME NEW opts, NEW client, NEW server, NEW h
    PROVE  /\ "PRE_AUTHENT" \in GetTicketFlags(opts, client, server, {h}) => "PRE_AUTHENT" \in h.flags
           /\ "VALIDATE" \in opts /\ "RENEWABLE" \in GetTicketFlags(opts, client, server, {h})
                 => "RENEWABLE" \in h.flags
  BY DEF GetTicketFlags, OptionFlags

LEMMA Renewable ==
    ASSUME NEW flags, NEW renewTill
    PROVE  /\ "RENEWABLE" \in WithRenewable(flags, renewTill) <=> renewTill # {}
           /\ "PRE_AUTHENT" \in WithRenewable(flags, renewTill) <=> "PRE_AUTHENT" \in flags
  BY DEF WithRenewable

(* The indicators a KDC vouches for. *)
LEMMA IndicatorsOk ==
    ASSUME StateOk, NEW realm \in DOMAIN db, NEW inds,
           NEW c \in AddAuthIndicators(inds, Tgt(realm))
    PROVE  c.realm = realm /\ c.inds = inds /\ AddAuthIndicators(inds, Tgt(realm)) = {c}
  <1>1. Tgt(realm).id[2] = realm
    BY TgtOk
  <1> QED BY <1>1 DEF AddAuthIndicators

-----------------------------------------------------------------------------
(* The ticket of an AS exchange. *)
LEMMA AsClient ==
    ASSUME StateOk, NEW realm \in DOMAIN db, NEW body, LookupClient(realm, body) = Ok
    PROVE  /\ <<body.cname, realm>> \in DOMAIN db[realm] /\ <<body.sname, realm>> \in DOMAIN db[realm]
           /\ EntryOk(db[realm][body.cname, realm], <<body.cname, realm>>)
           /\ EntryOk(db[realm][body.sname, realm], <<body.sname, realm>>)
  <1>1. Fetch(realm, <<body.cname, realm>>) # {} /\ Fetch(realm, <<body.sname, realm>>) # {}
    BY DEF LookupClient, Ok
  <1>2. <<body.cname, realm>> \in DOMAIN db[realm] /\ <<body.sname, realm>> \in DOMAIN db[realm]
    BY <1>1 DEF Fetch
  <1>3. RealmOk(db[realm], realm)
    BY DEF StateOk, DbOk
  <1> QED BY <1>2, <1>3 DEF RealmOk

LEMMA AsTicket ==
    ASSUME StateOk, NEW realm \in DOMAIN db, NEW body, BodyOk(body), NEW client, NEW server,
           NEW cid, NEW sid, EntryOk(client, cid), EntryOk(server, sid),
           NEW ikey, NEW done, NEW wantPac, NEW caddr,
           NEW t \in FinishProcessAsReq(realm, body, client, server, ikey, done, wantPac, caddr).tkt
    PROVE  /\ TicketOk(t) /\ t.parent = 0 /\ t.chain = {} /\ t.sources = {} /\ t.born = now
           /\ t.ckey = <<client.id, CurrentKvno(client)>> /\ t.cname = client.id[1]
           /\ "PRE_AUTHENT" \in t.flags => done.kind # "None"
           /\ FinishProcessAsReq(realm, body, client, server, ikey, done, wantPac, caddr).tkt = {t}
           /\ t = [f \in DOMAIN t |-> t[f]] /\ "proof" \in DOMAIN t
  <1> DEFINE start == StartTime(body)
             end == KdcGetTicketEndtime(start, {}, body.till, {client}, server)
             renewTill == KdcGetTicketRenewtime(body, {}, {client}, server, start, end)
             flags == WithRenewable(GetTicketFlags(body.opts, {client}, server, {}), renewTill)
                          \cup (IF done.kind = "None" THEN {} ELSE {"PRE_AUTHENT"})
             inds == IF done.kind = "None" THEN {} ELSE done.inds
             reply == FinishProcessAsReq(realm, body, client, server, ikey, done, wantPac, caddr)
             noAd == "NO_AUTH_DATA_REQUIRED" \in server.attrs
  <1>1. start \in Stamps /\ start \in Nat /\ now \in Nat
    BY StartOk, StampsNow
  <1>2. end \in Nat
    <2>1. \A p \in {client} \cup {server} : p.maxLife \in Nat
      BY DEF EntryOk
    <2>2. body.till \in Nat
      BY DEF BodyOk
    <2> QED BY <1>1, <2>1, <2>2, EndtimeIs
  <1>3. AtMostOne(renewTill)
    <2>1. \A p \in {client} \cup {server} : p.maxRenew \in Nat
      BY DEF EntryOk
    <2> QED BY <1>1, <2>1, RenewtimeIs
  <1> HIDE DEF start, end
  <1> DEFINE pac == IF IncludePac(server, wantPac, flags)
                    THEN MitTicketPac({}, {}, <<>>, {}, FALSE, client.id[1], now, CurrentKvno(Tgt(realm)))
                    ELSE {}
             tkt == [sname |-> body.sname, srealm |-> realm, kvno |-> CurrentKvno(server),
                     cname |-> client.id[1],
                     crealm |-> IF "ANONYMOUS" \in body.opts THEN AnonymousRealm ELSE realm,
                     flags |-> flags, authtime |-> now, start |-> EffectiveStart(start, now),
                     end |-> PolicyEnd(now, end), renewTill |-> PolicyRenew(now, renewTill),
                     transited |-> <<>>, caddr |-> caddr, pac |-> pac,
                     cammac |-> IF noAd THEN {} ELSE AddAuthIndicators(inds, Tgt(realm)),
                     ad |-> {}, parent |-> 0, evidence |-> 0, chain |-> {}, sources |-> {},
                     via |-> <<realm>>, born |-> now, proof |-> {},
                     ckey |-> <<client.id, CurrentKvno(client)>>]
  <1>4. reply.tkt = {} \/ reply.tkt = {tkt}
    BY Zenon DEF FinishProcessAsReq, Refused, start, end
  <1> HIDE DEF renewTill, flags, inds, noAd, pac
  <1>5. reply.tkt = {t} /\ t = tkt
    <2> HIDE DEF tkt, reply
    <2>1. t \in reply.tkt
      BY DEF reply
    <2> QED BY <1>4, <2>1
  <1>6. /\ t.parent = 0 /\ t.chain = {} /\ t.sources = {} /\ t.born = now
        /\ t.ckey = <<client.id, CurrentKvno(client)>> /\ t.cname = client.id[1]
        /\ t.flags = flags /\ t.authtime = now /\ t.start = EffectiveStart(start, now)
        /\ t.end = PolicyEnd(now, end) /\ t.renewTill = PolicyRenew(now, renewTill)
        /\ t.srealm = realm
        /\ t.cammac = IF noAd THEN {} ELSE AddAuthIndicators(inds, Tgt(realm))
    BY <1>5
  <1>13. t = [f \in DOMAIN t |-> t[f]] /\ "proof" \in DOMAIN t
    BY <1>5, ZenonT(20)
  <1> HIDE DEF tkt, reply
  <1>7. t.start \in Nat /\ t.authtime \in Nat /\ t.end \in Nat
    <2>1. PolicyEnd(now, end) \in Nat
      BY <1>1, <1>2, PolicyIs
    <2> QED BY <1>1, <1>6, <2>1 DEF EffectiveStart
  <1>8. AtMostOne(t.renewTill) /\ (t.renewTill = {} => renewTill = {})
    BY <1>1, <1>3, <1>6, PolicyRenewIs
  <1>9. "RENEWABLE" \in flags => renewTill # {}
    <2> DEFINE base == WithRenewable(GetTicketFlags(body.opts, {client}, server, {}), renewTill)
    <2>1. "RENEWABLE" \in base => renewTill # {}
      BY Renewable
    <2>2. flags = base \cup (IF done.kind = "None" THEN {} ELSE {"PRE_AUTHENT"})
      BY DEF flags
    <2> HIDE DEF base
    <2> QED BY <2>1, <2>2
  <1>10. "PRE_AUTHENT" \in flags => done.kind # "None"
    <2> DEFINE first == GetTicketFlags(body.opts, {client}, server, {})
               base == WithRenewable(first, renewTill)
    <2>1. "PRE_AUTHENT" \notin first
      BY FlagsFirst
    <2> HIDE DEF first
    <2>2. "PRE_AUTHENT" \notin base
      BY <2>1, Renewable
    <2>3. flags = base \cup (IF done.kind = "None" THEN {} ELSE {"PRE_AUTHENT"})
      BY DEF flags, first
    <2> HIDE DEF base
    <2> QED BY <2>2, <2>3
  <1>11. \A c, d \in t.cammac : c = d /\ c.realm = t.srealm
    BY <1>6, IndicatorsOk
  <1>12. TicketOk(t)
    BY <1>1, <1>6, <1>7, <1>8, <1>9, <1>11 DEF TicketOk
  <1> QED BY <1>5, <1>6, <1>10, <1>12, <1>13 DEF reply

-----------------------------------------------------------------------------
(* Preauthentication. *)

(* What clients send: a one-time password comes with the verdicts on all   *)
(* tokens, cookies and freshness tokens are ones the KDC handed out.       *)
PadataOk(padata) ==
    \A p \in padata :
        /\ p.type = "OtpRequest" => p.timed /\ DOMAIN p.verdicts = 1 .. MaxTokens
        /\ p.type = "Cookie" => p \in cookies
        /\ p.type = "PkAsReq" => p.fresh \subseteq fresh

(* ProofHolds, before there is a ticket. *)
Proves(padata, client, cname) ==
    LET key == <<client.id, CurrentKvno(client)>>
    IN  \E p \in padata :
            \/ p.type \in {"EncTimestamp", "EncChallenge"} /\ p.key = key /\ InSkew(now, p.time)
            \/ /\ p.type = "Spake" /\ p.w = key /\ p.challenge.w = key
               /\ now - p.challenge.spake <= CookieLifetime
            \/ /\ p.type = "PkAsReq" /\ InSkew(now, p.time)
               /\ \/ p.cert = {} /\ cname = Anonymous
                  \/ /\ \E c \in p.cert : client.id \in c.sans \/ (c.sans = {} /\ c.match = "Yes")
                     /\ \A f \in p.fresh : now - f.time <= FreshnessLifetime
                     /\ RequireFreshness => p.fresh # {}
            \/ p.type = "OtpRequest" /\ InSkew(now, p.time) /\ "Accept" \in Range(p.verdicts)

LEMMA OnlyIs == ASSUME NEW S, S # {} PROVE Only(S) \in S
  BY DEF Only

LEMMA TimestampProves ==
    ASSUME NEW padata, NEW client, NEW cname,
           VerifyEncTimestamp(padata, client, now).kind = "Verified"
    PROVE  Proves(padata, client, cname)
  <1> DEFINE msg == OfType(padata, "EncTimestamp")
             p == Only(msg)
  <1>1. msg # {} /\ p.key = <<client.id, CurrentKvno(client)>> /\ InSkew(now, p.time)
    BY DEF VerifyEncTimestamp, NotMine, Failed
  <1>2. p \in padata /\ p.type = "EncTimestamp"
    BY <1>1, OnlyIs DEF OfType
  <1> HIDE DEF p
  <1> QED BY <1>1, <1>2 DEF Proves

LEMMA ChallengeProves ==
    ASSUME NEW padata, NEW client, NEW cname, NEW ikey, ikey \subseteq {<<client.id, CurrentKvno(client)>>},
           OfType(padata, "EncChallenge") # {},
           VerifyEncryptedChallenge(padata, ikey, now).kind = "Verified"
    PROVE  Proves(padata, client, cname)
  <1> DEFINE p == Only(OfType(padata, "EncChallenge"))
  <1>1. p.key \in ikey /\ InSkew(now, p.time)
    BY DEF VerifyEncryptedChallenge, Failed
  <1>2. p \in padata /\ p.type = "EncChallenge"
    BY OnlyIs DEF OfType
  <1>3. p.key = <<client.id, CurrentKvno(client)>>
    BY <1>1
  <1> HIDE DEF p
  <1> QED BY <1>1, <1>2, <1>3 DEF Proves

LEMMA SpakeProves ==
    ASSUME StateOk, NEW padata, PadataOk(padata), NEW client, NEW cname, NEW tgt,
           NEW ikey, ikey \subseteq {<<client.id, CurrentKvno(client)>>},
           ProcessSpake(padata, client, ikey, tgt, now).kind = "Verified"
    PROVE  Proves(padata, client, cname)
  <1> DEFINE msg == OfType(padata, "Spake")
             p == Only(msg)
             key == Only(ikey)
  <1>1. /\ msg # {} /\ ikey # {} /\ p.challenge \in OpenCookie(padata, client, tgt, now)
        /\ p.challenge.w = key /\ p.w = key
    BY DEF ProcessSpake, NotMine, Failed, Challenge
  <1>2. p \in padata /\ p.type = "Spake"
    BY <1>1, OnlyIs DEF OfType
  <1>3. key = <<client.id, CurrentKvno(client)>>
    BY <1>1, OnlyIs
  <1> HIDE DEF p, msg, key
  <1>4. PICK c \in padata : c.type = "Cookie" /\ p.challenge \in c.data /\ now - c.time <= CookieLifetime
    BY <1>1 DEF OpenCookie, OfType
  <1>5. p.challenge.spake = c.time
    BY <1>4 DEF PadataOk, StateOk
  <1> QED BY <1>1, <1>2, <1>3, <1>4, <1>5 DEF Proves

LEMMA OtpProves ==
    ASSUME NEW padata, PadataOk(padata), NEW client, NEW id, EntryOk(client, id), NEW cname, NEW armored,
           OtpVerify(padata, client, armored, now).kind = "Verified"
    PROVE  Proves(padata, client, cname)
  <1> DEFINE msg == OfType(padata, "OtpRequest")
             p == Only(msg)
             settled == {i \in DOMAIN client.tokens : p.verdicts[i] # "Reject"}
             checks == << <<~armored, "PREAUTH_FAILED">>,
                          <<p.timed /\ ~InSkew(now, p.time), "SKEW">>,
                          <<settled = {} \/ p.verdicts[Min(settled)] # "Accept", "PREAUTH_FAILED">> >>
  <1>1. msg # {} /\ FirstRefusal(checks) = Ok
    BY DEF OtpVerify, NotMine, Failed, Judged
  <1>2. p \in padata /\ p.type = "OtpRequest"
    BY <1>1, OnlyIs DEF OfType
  <1>3. p.timed /\ DOMAIN p.verdicts = 1 .. MaxTokens /\ DOMAIN client.tokens \subseteq 1 .. MaxTokens
    BY <1>2 DEF PadataOk, EntryOk
  <1> HIDE DEF p, msg
  <1>4. ~ checks[2][1] /\ ~ checks[3][1]
    <2>1. DOMAIN checks = 1 .. 3 /\ \A k \in 1 .. 3 : checks[k][2] # Ok
      BY DEF Ok
    <2> HIDE DEF checks
    <2> QED BY <1>1, <2>1, NoRefusal
  <1>5. InSkew(now, p.time) /\ settled # {} /\ p.verdicts[Min(settled)] = "Accept"
    BY <1>3, <1>4
  <1>6. Min(settled) \in settled
    <2>1. settled \in SUBSET Nat
      BY <1>3
    <2> HIDE DEF settled
    <2> QED BY <1>5, <2>1, LeastNat
  <1>7. "Accept" \in Range(p.verdicts)
    BY <1>3, <1>5, <1>6 DEF Range
  <1> QED BY <1>2, <1>5, <1>7 DEF Proves

LEMMA PkinitProves ==
    ASSUME StateOk, NEW padata, PadataOk(padata), NEW client, NEW cname, NEW opts, NEW ikey, NEW tgt,
           ProcessPkinit(padata, client, cname, opts, ikey, tgt, now).kind = "Verified"
    PROVE  Proves(padata, client, cname)
  <1> DEFINE msg == OfType(padata, "PkAsReq")
             p == Only(msg)
             signed == p.cert # {}
             anonymous == "ANONYMOUS" \in opts /\ cname = Anonymous
             read == FirstRefusal(<< <<ikey = {}, "ETYPE_NOSUPP">>, <<p.cms # Ok, p.cms>> >>)
             named == IF signed THEN AuthorizeCert(Only(p.cert), client) ELSE Ok
             checks == << <<~signed /\ ~anonymous, "PREAUTH_FAILED">>,
                          <<~InSkew(now, p.time), "SKEW">>,
                          <<p.dh = "Weak", "DH_KEY_PARAMETERS_NOT_ACCEPTED">>,
                          <<~signed /\ p.dh = "None", "PREAUTH_FAILED">>,
                          <<~p.bound, "PREAUTH_FAILED">>,
                          <<\E t \in p.fresh : ~CheckFreshnessToken(t, tgt, now), "PREAUTH_EXPIRED">>,
                          <<signed /\ RequireFreshness /\ p.fresh = {}, "PREAUTH_FAILED">>,
                          <<p.dh = "None", "PREAUTH_FAILED">> >>
  <1>1. msg # {} /\ Then(read, Then(named, FirstRefusal(checks))) = Ok
    BY DEF ProcessPkinit, NotMine, Failed, Judged
  <1>2. p \in padata /\ p.type = "PkAsReq"
    BY <1>1, OnlyIs DEF OfType
  <1>3. p.fresh \subseteq fresh /\ \A f \in p.fresh : f.time \in Nat
    BY <1>2 DEF PadataOk, StateOk
  <1>4. named = Ok /\ FirstRefusal(checks) = Ok
    <2> HIDE DEF read, named, checks
    <2> QED BY <1>1, ThenBoth
  <1> HIDE DEF p, msg, named
  <1>5. ~ checks[1][1] /\ ~ checks[2][1] /\ ~ checks[6][1] /\ ~ checks[7][1]
    <2>1. DOMAIN checks = 1 .. 8 /\ \A k \in 1 .. 8 : checks[k][2] # Ok
      BY DEF Ok
    <2> HIDE DEF checks
    <2> QED BY <1>4, <2>1, NoRefusal
  <1>6. /\ InSkew(now, p.time) /\ (signed \/ cname = Anonymous)
        /\ \A f \in p.fresh : CheckFreshnessToken(f, tgt, now)
        /\ signed /\ RequireFreshness => p.fresh # {}
    BY <1>5
  <1> HIDE DEF checks
  <1>7. \A f \in p.fresh : now - f.time <= FreshnessLifetime
    BY <1>3, <1>6, StampsNow, PreauthAssumption DEF CheckFreshnessToken
  <1>8. CASE ~signed
    BY <1>2, <1>6, <1>8 DEF Proves
  <1>9. CASE signed
    <2> DEFINE cert == Only(p.cert)
               rules == << <<cert.sans # {} /\ client.id \notin cert.sans, "CLIENT_NAME_MISMATCH">>,
                           <<~cert.eku, "INCONSISTENT_KEY_PURPOSE">>,
                           <<cert.match = "No", "CERTIFICATE_MISMATCH">>,
                           <<cert.sans = {} /\ cert.match # "Yes", "CLIENT_NAME_MISMATCH">> >>
    <2>1. cert \in p.cert /\ FirstRefusal(rules) = Ok
      BY <1>4, <1>9, OnlyIs DEF AuthorizeCert, named
    <2> HIDE DEF cert
    <2>2. ~ rules[1][1] /\ ~ rules[4][1]
      <3>1. DOMAIN rules = 1 .. 4 /\ \A k \in 1 .. 4 : rules[k][2] # Ok
        BY DEF Ok
      <3> HIDE DEF rules
      <3> QED BY <2>1, <3>1, NoRefusal
    <2>3. client.id \in cert.sans \/ (cert.sans = {} /\ cert.match = "Yes")
      BY <2>2
    <2> QED BY <1>2, <1>6, <1>7, <1>9, <2>1, <2>3 DEF Proves
  <1> QED BY <1>8, <1>9

LEMMA FirstSaidIs ==
    ASSUME NEW by, by = [m \in ModuleNames |-> by[m]]
    PROVE  \/ FirstSaid(by) = NotMine
           \/ \E m \in ModuleNames : by[m].kind # "None" /\ FirstSaid(by) = Filtered(by[m])
  <1> DEFINE mine == {i \in DOMAIN Modules : by[Modules[i]].kind # "None"}
  <1>1. mine \in SUBSET Nat /\ \A i \in mine : Modules[i] \in ModuleNames
    BY PreauthAssumption
  <1>2. CASE mine = {}
    BY <1>2 DEF FirstSaid, FirstOf
  <1>3. CASE mine # {}
    <2>1. Min(mine) \in mine
      BY <1>1, <1>3, LeastNat
    <2>2. FirstSaid(by) = Filtered(by[Modules[Min(mine)]])
      BY <1>3 DEF FirstSaid, FirstOf
    <2>3. Modules[Min(mine)] \in ModuleNames /\ by[Modules[Min(mine)]].kind # "None"
      BY <1>1, <2>1
    <2> QED BY <2>2, <2>3
  <1> QED BY <1>2, <1>3

(* A request that is let through without a refusal and with something to   *)
(* show for it proved the client.                                          *)
LEMMA PreauthProves ==
    ASSUME StateOk, NEW padata, PadataOk(padata), NEW client, NEW id, EntryOk(client, id), NEW body,
           NEW ikey, ikey \subseteq {<<client.id, CurrentKvno(client)>>}, NEW armored, NEW tgt,
           FinishPreauth(padata, client, body, ikey, armored, tgt, now).code = Ok
    PROVE  FinishPreauth(padata, client, body, ikey, armored, tgt, now).done.kind # "None"
               => Proves(padata, client, body.cname)
  <1> DEFINE mine == "encrypted_challenge" \in Range(Modules) /\ OfType(padata, "EncChallenge") # {}
             pk == ProcessPkinit(padata, client, body.cname, body.opts, ikey, tgt, now)
             otp == OtpVerify(padata, client, armored, now)
             spake == ProcessSpake(padata, client, ikey, tgt, now)
             stamp == VerifyEncTimestamp(padata, client, now)
             by == [pkinit |-> pk, otp |-> otp, spake |-> spake, encrypted_timestamp |-> stamp,
                    encrypted_challenge |-> NotMine]
             ran == FirstSaid(by)
             ec == IF mine THEN VerifyEncryptedChallenge(padata, ikey, now) ELSE NotMine
             done == IF ran.kind = "None" THEN ec ELSE ran
             hint == PreauthHint(padata, client, ikey, tgt, now)
             pre == FinishPreauth(padata, client, body, ikey, armored, tgt, now)
  <1>1. /\ pk.kind \in {"None", "Fail", "Verified"} /\ otp.kind \in {"None", "Fail", "Verified"}
        /\ spake.kind \in {"None", "Fail", "Verified", "Challenge"}
        /\ stamp.kind \in {"None", "Fail", "Verified"}
        /\ ec.kind \in {"None", "Fail", "Verified"}
    BY DEF ProcessPkinit, OtpVerify, ProcessSpake, VerifyEncTimestamp, VerifyEncryptedChallenge,
           NotMine, Failed, Verified, Judged, Challenge
  <1>2. pk.kind = "Verified" \/ otp.kind = "Verified" \/ spake.kind = "Verified"
        \/ stamp.kind = "Verified" \/ (mine /\ ec.kind = "Verified") => Proves(padata, client, body.cname)
    BY PkinitProves, OtpProves, SpakeProves, TimestampProves, ChallengeProves
  <1> HIDE DEF pk, otp, spake, stamp
  <1>3. by = [m \in ModuleNames |-> by[m]]
    BY DEF ModuleNames
  <1>4. \/ ran = NotMine
        \/ \E m \in ModuleNames : by[m].kind # "None" /\ ran = Filtered(by[m])
    <2> HIDE DEF by
    <2> QED BY <1>3, FirstSaidIs
  <1>5. \/ pre.code # Ok
        \/ pre = AfterModules(ran, ec, "ANONYMOUS" \in body.opts, client, hint, tgt, now)
    <2> HIDE DEF hint, ec, ran
    <2> QED BY DEF FinishPreauth, RunAsPreauth, RefusePreauth, Ok, hint, ec, ran, pk, otp, spake, stamp
  <1> HIDE DEF by, ran, ec, hint, pre
  <1>6. pre = AfterModules(ran, ec, "ANONYMOUS" \in body.opts, client, hint, tgt, now)
    BY <1>5 DEF pre
  <1>7. FilterPreauthError(ran.code) # Ok /\ FilterPreauthError(ec.code) # Ok
    BY DEF FilterPreauthError, PassThrough, Ok
  <1>8. ran.kind = "Fail" => ran.code # Ok
    BY <1>4 DEF Filtered, Failed, NotMine, FilterPreauthError, PassThrough, Ok
  <1>9. pre.code = Ok
    BY DEF pre
  <1>10. ran.kind # "Fail" /\ (ran.kind = "None" => ec.kind # "Fail") /\ done.kind # "Challenge" /\ pre.done = done
    BY <1>6, <1>7, <1>8, <1>9 DEF AfterModules, Accept, RefusePreauth, Ok
  <1>11. CASE ran.kind = "None"
    <2>1. done = ec
      BY <1>11
    <2>2. ec.kind # "None" => ec.kind = "Verified" /\ mine
      BY <1>1, <1>10, <1>11 DEF ec, NotMine
    <2> QED BY <1>2, <1>10, <2>1, <2>2 DEF pre
  <1>12. CASE ran.kind # "None"
    <2>1. ran # NotMine /\ ran.kind # "Challenge"
      BY <1>10, <1>12 DEF NotMine
    <2>2. PICK m \in ModuleNames : by[m].kind # "None" /\ ran = Filtered(by[m])
      BY <1>4, <2>1
    <2>3. by[m].kind # "Fail" /\ by[m].kind # "Challenge"
      BY <1>10, <2>1, <2>2 DEF Filtered, Failed
    <2>4. /\ by["pkinit"] = pk /\ by["otp"] = otp /\ by["spake"] = spake
          /\ by["encrypted_timestamp"] = stamp /\ by["encrypted_challenge"] = NotMine
      BY DEF by
    <2>5. m \in {"pkinit", "otp", "spake", "encrypted_timestamp", "encrypted_challenge"}
      BY DEF ModuleNames
    <2> QED BY <1>1, <1>2, <2>2, <2>3, <2>4, <2>5 DEF NotMine
  <1> QED BY <1>11, <1>12

(* What a refusal hands out: cookies and tokens of this moment. *)
HandedOk(h) ==
    /\ \A c \in h.cookie : c.type = "Cookie" /\ c.time = now /\ \A d \in c.data : d.spake = now
    /\ \A f \in h.fresh : f.time = now

LEMMA HintsOk ==
    ASSUME NEW padata, NEW client, NEW body, NEW ikey, NEW armored, NEW tgt,
           NEW h \in FinishPreauth(padata, client, body, ikey, armored, tgt, now).hint
    PROVE  HandedOk(h)
  <1> DEFINE hint == PreauthHint(padata, client, ikey, tgt, now)
             spake == ProcessSpake(padata, client, ikey, tgt, now)
             by == [pkinit |-> ProcessPkinit(padata, client, body.cname, body.opts, ikey, tgt, now),
                    otp |-> OtpVerify(padata, client, armored, now), spake |-> spake,
                    encrypted_timestamp |-> VerifyEncTimestamp(padata, client, now),
                    encrypted_challenge |-> NotMine]
             ran == FirstSaid(by)
             mine == "encrypted_challenge" \in Range(Modules) /\ OfType(padata, "EncChallenge") # {}
             ec == IF mine THEN VerifyEncryptedChallenge(padata, ikey, now) ELSE NotMine
             anonymous == "ANONYMOUS" \in body.opts
             pre == FinishPreauth(padata, client, body, ikey, armored, tgt, now)
  <1>1. \A g \in hint : HandedOk(g)
    BY DEF PreauthHint, MakeCookie, SendChallenge, MintFreshnessToken, HandedOk
  <1>2. spake.kind = "Challenge" => spake.data = {SendChallenge(Only(ikey), now)}
    BY DEF ProcessSpake, Challenge, NotMine, Failed, Verified
  <1>3. \A m \in ModuleNames \ {"spake"} : by[m].kind # "Challenge"
    <2>1. /\ by["pkinit"].kind # "Challenge" /\ by["otp"].kind # "Challenge"
          /\ by["encrypted_timestamp"].kind # "Challenge" /\ by["encrypted_challenge"].kind # "Challenge"
      BY DEF ProcessPkinit, OtpVerify, VerifyEncTimestamp, NotMine, Failed, Verified, Judged
    <2> HIDE DEF by
    <2> QED BY <2>1 DEF ModuleNames
  <1>4. ec.kind # "Challenge"
    BY DEF VerifyEncryptedChallenge, NotMine, Failed, Verified
  <1>5. ran.kind = "Challenge" => ran.data = {SendChallenge(Only(ikey), now)}
    <2>1. by = [m \in ModuleNames |-> by[m]] /\ by["spake"] = spake
      BY DEF ModuleNames
    <2> HIDE DEF by, spake
    <2>2. \/ ran = NotMine
          \/ \E m \in ModuleNames : by[m].kind # "None" /\ ran = Filtered(by[m])
      BY <2>1, FirstSaidIs
    <2> HIDE DEF ran
    <2>3. CASE ran = NotMine
      BY <2>3 DEF NotMine
    <2>4. ASSUME NEW m \in ModuleNames, ran = Filtered(by[m]) PROVE ran.kind = "Challenge" => m = "spake" /\ ran = by[m]
      BY <1>3, <2>4 DEF Filtered, Failed
    <2> QED BY <1>2, <2>1, <2>2, <2>3, <2>4
  <1>6. /\ "hint" \in DOMAIN pre
        /\ \/ pre.hint \in {{}, hint}
           \/ pre = AfterModules(ran, ec, anonymous, client, hint, tgt, now)
    <2> HIDE DEF hint, ec, ran
    <2> QED BY DEF FinishPreauth, RunAsPreauth, RefusePreauth, AfterModules, Accept, hint, ec, ran
  <1> HIDE DEF ran, ec, hint, pre
  <1>7. \/ pre.hint \in {{}, hint}
        \/ ran.kind = "Challenge" /\ pre.hint = {[cookie |-> MakeCookie(client, ran.data, tgt, now), fresh |-> {}]}
    <2>1. CASE ran.kind = "Challenge"
      BY <1>6, <2>1 DEF AfterModules, Accept, RefusePreauth
    <2>2. CASE ran.kind # "Challenge"
      BY <1>4, <1>6, <2>2 DEF AfterModules, Accept, RefusePreauth
    <2> QED BY <2>1, <2>2
  <1>8. h \in pre.hint
    BY DEF pre
  <1> QED BY <1>1, <1>5, <1>7, <1>8 DEF HandedOk, MakeCookie, SendChallenge

LEMMA PadataIs ==
    ASSUME NEW m \in Methods, NEW padata \in Padata(m), StateOk
    PROVE  PadataOk(padata)
  <1>1. CASE m = "none"
    BY <1>1 DEF Padata, PadataOk
  <1>2. CASE m = "timestamp"
    BY <1>2 DEF Padata, PadataOk
  <1>3. CASE m = "challenge"
    BY <1>3 DEF Padata, PadataOk
  <1>4. CASE m = "spake"
    <2>1. \/ padata = {Spake("Support", <<>>, <<>>)}
          \/ \E c \in cookies : \E ch, k : padata = {Spake("Response", ch, k), c}
      BY <1>4 DEF Padata
    <2>2. \A c \in cookies : c.type = "Cookie"
      BY DEF StateOk
    <2> QED BY <2>1, <2>2 DEF PadataOk, Spake
  <1>5. CASE m = "pkinit"
    BY <1>5 DEF Padata, PadataOk
  <1>6. CASE m = "otp"
    BY <1>6 DEF Padata, PadataOk
  <1> QED BY <1>1, <1>2, <1>3, <1>4, <1>5, <1>6 DEF Methods

(* An AS exchange: nothing, or one ticket whose proof is the padata. *)
LEMMA AsExchange ==
    ASSUME StateOk, NEW req \in scene.as, NEW fast, NEW padata, PadataOk(padata),
           NEW t \in IssueAs(req.realm, req, fast, padata).reply.tkt
    PROVE  /\ TicketOk(t) /\ t.parent = 0 /\ t.chain = {} /\ t.sources = {} /\ t.born = now
           /\ t.end \in Nat /\ IssueAs(req.realm, req, fast, padata).reply.tkt = {t}
           /\ t = [f \in DOMAIN t |-> t[f]] /\ "proof" \in DOMAIN t
           /\ "PRE_AUTHENT" \in t.flags => ProofHolds([t EXCEPT !.proof = padata])
  <1> DEFINE realm == req.realm
             client == db[realm][req.body.cname, realm]
             server == db[realm][req.body.sname, realm]
             cid == <<req.body.cname, realm>>
             sid == <<req.body.sname, realm>>
             ikey == SelectClientKey(client, req.body.etypes)
             known == Then(IF fast = {} THEN Ok ELSE KdcFindFast(Only(fast), FALSE, realm, db[realm], now),
                           LookupClient(realm, req.body))
             pre == FinishPreauth(padata, client, req.body, ikey, fast # {}, Tgt(realm), now)
             reply == FinishProcessAsReq(realm, req.body, client, server, ikey, pre.done, req.pac, req.body.caddr)
             out == IssueAs(realm, req, fast, padata)
  <1>1. realm \in DOMAIN db /\ BodyOk(req.body)
    BY DEF StateOk
  <1>2. out = AnswerAs(known, pre, realm, req, client, ikey)
    BY DEF IssueAs
  <1>3. t \in out.reply.tkt
    OBVIOUS
  <1> HIDE DEF out, known, pre, ikey, client
  <1>4. known = Ok /\ pre.code = Ok /\ out.reply = reply
    BY <1>2, <1>3 DEF AnswerAs, Refused
  <1>5. LookupClient(realm, req.body) = Ok
    BY <1>4, ThenBoth DEF known
  <1>6. EntryOk(client, cid) /\ EntryOk(server, sid)
    BY <1>1, <1>5, AsClient DEF client
  <1>7. ikey \subseteq {<<client.id, CurrentKvno(client)>>}
    BY DEF ikey, SelectClientKey
  <1>8. pre.done.kind # "None" => Proves(padata, client, req.body.cname)
    BY <1>4, <1>6, <1>7, PreauthProves DEF pre
  <1>9. t \in reply.tkt
    BY <1>3, <1>4
  <1>10. /\ TicketOk(t) /\ t.parent = 0 /\ t.chain = {} /\ t.sources = {} /\ t.born = now
         /\ t.ckey = <<client.id, CurrentKvno(client)>> /\ t.cname = client.id[1]
         /\ "PRE_AUTHENT" \in t.flags => pre.done.kind # "None"
         /\ reply.tkt = {t}
         /\ t = [f \in DOMAIN t |-> t[f]] /\ "proof" \in DOMAIN t
    <2> HIDE DEF server, cid, sid, realm
    <2> QED BY <1>1, <1>6, <1>9, AsTicket
  <1> HIDE DEF reply
  <1>11. t.cname = req.body.cname
    <2>1. client.id = <<req.body.cname, req.realm>>
      BY <1>6 DEF EntryOk
    <2> QED BY <1>10, <2>1
  <1>12. ASSUME Proves(padata, client, req.body.cname) PROVE ProofHolds([t EXCEPT !.proof = padata])
    <2> DEFINE u == [t EXCEPT !.proof = padata]
    <2>1. /\ u.proof = padata /\ u.born = now /\ u.ckey = <<client.id, CurrentKvno(client)>>
          /\ u.cname = req.body.cname
      BY <1>10, <1>11
    <2> HIDE DEF u
    <2>2. u.ckey[1] = client.id
      BY <2>1
    <2>3. ProofHolds(u)
      BY <1>12, <2>1, <2>2 DEF Proves, ProofHolds, InSkew
    <2> QED BY <2>3 DEF u
  <1> QED BY <1>4, <1>8, <1>10, <1>12 DEF TicketOk, out

-----------------------------------------------------------------------------
(* The ticket of a TGS exchange. *)

LEMMA SkeletonIs ==
    ASSUME NEW body, NEW h, CheckTgsConstraintsSkeleton(body, h, now) = Ok
    PROVE  /\ "RENEW" \in body.opts => "RENEWABLE" \in h.flags
           /\ "INVALID" \in h.flags => "VALIDATE" \in body.opts
           /\ "VALIDATE" \in body.opts => ~ (now < h.start)
           /\ NonTgt(body) => h.sname = body.sname /\ h.srealm = body.realm
  <1> DEFINE o == body.opts
             Lacks(opts, flag) == opts \cap o # {} /\ flag \notin h.flags
             checks == <<
                <<Lacks({"FORWARDED"}, "FORWARDABLE"), "BADOPTION">>,
                <<Lacks({"PROXY"}, "PROXIABLE"), "BADOPTION">>,
                <<Lacks({"MAY_POSTDATE", "POSTDATED"}, "MAY_POSTDATE"), "BADOPTION">>,
                <<Lacks({"VALIDATE"}, "INVALID"), "BADOPTION">>,
                <<Lacks({"RENEW"}, "RENEWABLE"), "BADOPTION">>,
                <<"INVALID" \in h.flags /\ "VALIDATE" \notin o, "TKT_NYV">>,
                <<"VALIDATE" \in o /\ now < h.start, "TKT_NYV">>,
                <<"RENEW" \in o /\ \A t \in h.renewTill : t <= now, "TKT_EXPIRED">>,
                <<NonTgt(body) /\ (h.sname # body.sname \/ h.srealm # body.realm), "SERVER_NOMATCH">>,
                <<"PROXY" \in o /\ IsKrbtgt(body.sname), "BADOPTION">>,
                <<~NonTgt(body) /\ h.sname # Krbtgt(body.realm), "NOT_US">> >>
  <1>1. FirstRefusal(checks) = Ok
    BY DEF CheckTgsConstraintsSkeleton
  <1>2. ~ checks[5][1] /\ ~ checks[6][1] /\ ~ checks[7][1] /\ ~ checks[9][1]
    <2>1. DOMAIN checks = 1 .. 11 /\ \A k \in 1 .. 11 : checks[k][2] # Ok
      BY DEF Ok
    <2> HIDE DEF checks
    <2> QED BY <1>1, <2>1, NoRefusal
  <1> QED BY <1>2

LEMMA PolicyFlagsIs ==
    ASSUME NEW server, NEW body, NEW h, CheckTgsPolicyFlags(server, body, h, now) = Ok
    PROVE  "REQUIRES_PRE_AUTH" \in server.attrs => "PRE_AUTHENT" \in h.flags
  <1> DEFINE Denies(attr, opt) == attr \in server.attrs /\ opt \in body.opts
             checks == <<
                <<Denies("DISALLOW_RENEWABLE", "RENEWABLE"), "POLICY">>,
                <<Denies("DISALLOW_POSTDATED", "MAY_POSTDATE"), "CANNOT_POSTDATE">>,
                <<Denies("DISALLOW_DUP_SKEY", "ENC_TKT_IN_SKEY"), "POLICY">>,
                <<"DISALLOW_ALL_TIX" \in server.attrs, "S_PRINCIPAL_UNKNOWN">>,
                <<"DISALLOW_SVR" \in server.attrs /\ "ENC_TKT_IN_SKEY" \notin body.opts,
                  "MUST_USE_USER2USER">>,
                <<"DISALLOW_TGT_BASED" \in server.attrs /\ IsKrbtgt(h.sname), "POLICY">>,
                <<"REQUIRES_HW_AUTH" \in server.attrs /\ "HW_AUTHENT" \notin h.flags, "GENERIC">>,
                <<"REQUIRES_PRE_AUTH" \in server.attrs /\ "PRE_AUTHENT" \notin h.flags, "GENERIC">>,
                <<Expired(server, now), "SERVICE_EXP">> >>
  <1>1. FirstRefusal(checks) = Ok
    BY DEF CheckTgsPolicyFlags
  <1>2. ~ checks[8][1]
    <2>1. DOMAIN checks = 1 .. 9 /\ \A k \in 1 .. 9 : checks[k][2] # Ok
      BY DEF Ok
    <2> HIDE DEF checks
    <2> QED BY <1>1, <2>1, NoRefusal
  <1> QED BY <1>2

(* Every principal search_sprinc finds is an entry of the realm; the one   *)
(* that was named is found when it exists, and no other for an operation   *)
(* on the ticket itself.                                                   *)
LEMMA FoundIs ==
    ASSUME NEW realm, NEW body, NEW p \in SearchSprinc(realm, body)
    PROVE  /\ \E n : p \in Fetch(realm, <<n, realm>>)
           /\ Fetch(realm, <<body.sname, realm>>) # {} \/ NonTgt(body)
                  => p \in Fetch(realm, <<body.sname, realm>>)
  <1> DEFINE direct == Fetch(realm, <<body.sname, realm>>)
             tgs == IF IsCrossTgs(<<body.sname, realm>>) THEN {body.sname} ELSE FindReferralTgs(realm, body)
             near == UNION {Fetch(realm, <<t, realm>>) : t \in tgs}
             far == UNION {FindAlternateTgs(realm, t[2]) : t \in tgs}
  <1>1. SearchSprinc(realm, body) =
            IF direct # {} THEN direct
            ELSE IF NonTgt(body) \/ "ENC_TKT_IN_SKEY" \in body.opts THEN {}
            ELSE IF near # {} THEN near ELSE far
    BY Zenon DEF SearchSprinc
  <1>2. \A q \in near : \E n : q \in Fetch(realm, <<n, realm>>)
    OBVIOUS
  <1>3. \A q \in far : \E n : q \in Fetch(realm, <<n, realm>>)
    BY DEF FindAlternateTgs, Nearest
  <1> HIDE DEF direct, near, far
  <1>4. \/ p \in direct
        \/ direct = {} /\ ~ NonTgt(body) /\ (p \in near \/ p \in far)
    BY <1>1
  <1> QED BY <1>2, <1>3, <1>4 DEF direct

(* tgs_flags_times_policy: what a ticket's times owe to its header. *)
LEMMA TimesFollow ==
    ASSUME StateOk, NEW realm \in DOMAIN db, NEW req, BodyOk(req.body), NEW h, TicketOk(h),
           NEW stkt, \A s \in stkt : TicketOk(s), NEW f, NEW checked,
           CheckTgsConstraintsSkeleton(req.body, h, now) = Ok,
           \A p \in {f.server} \cup (IF f.self THEN f.local ELSE {}) : {p.maxLife, p.maxRenew} \subseteq Nat
    PROVE  LET times == TgsTimes(realm, req, h, stkt, f, checked)
           IN  /\ {times.authtime, times.start} \subseteq Nat /\ times.end \in Int
               /\ times.end <= 0 \/ times.end <= h.end \/ \E x \in h.renewTill : times.end <= x
               /\ AtMostOne(times.renewTill)
               /\ \A x \in times.renewTill : \E y \in h.renewTill : x <= y
               /\ "RENEWABLE" \in times.flags => times.renewTill # {}
               /\ "PRE_AUTHENT" \in times.flags => "PRE_AUTHENT" \in h.flags
  <1> DEFINE body == req.body
             subject == IF stkt = {} THEN h ELSE Only(stkt)
             client == IF f.self THEN f.local
                       ELSE IF "NO_AUTH_DATA_REQUIRED" \in f.server.attrs \/ subject.crealm # realm THEN {}
                       ELSE Fetch(realm, <<subject.cname, realm>>)
             renew == "RENEW" \in body.opts
             validate == "VALIDATE" \in body.opts
             start == IF validate THEN h.start ELSE StartTime(body)
             span == Span(h.start, h.end)
             end == IF renew THEN Min({start + span} \cup h.renewTill)
                    ELSE IF validate THEN h.end
                    ELSE KdcGetTicketEndtime(start, {h.end}, body.till, client, f.server)
             renewTill == IF validate THEN h.renewTill
                          ELSE KdcGetTicketRenewtime(body, {h}, client, f.server, start, end)
             base == GetTicketFlags(body.opts, client, f.server, {h})
             flags == base \cup (IF checked THEN {"TRANSITED"} ELSE {})
             renewable == IF validate THEN flags ELSE WithRenewable(flags, renewTill)
             authtime == IF f.proxy /\ ~renew /\ ~validate THEN subject.authtime ELSE h.authtime
             times == TgsTimes(realm, req, h, stkt, f, checked)
  <1>1. /\ times.authtime = authtime /\ times.start = EffectiveStart(start, authtime)
        /\ times.end = PolicyEnd(now, end) /\ times.renewTill = PolicyRenew(now, renewTill)
        /\ times.flags = IF f.self /\ ~f.referral THEN S4u2selfForwardable(f.server, renewable) ELSE renewable
    BY DEF TgsTimes
  <1>2. \A p \in client \cup {f.server} : p.maxLife \in Nat /\ p.maxRenew \in Nat
    <2>1. \A p \in client : (f.self /\ p \in f.local) \/ p \in Fetch(realm, <<subject.cname, realm>>)
      OBVIOUS
    <2>2. \A p \in Fetch(realm, <<subject.cname, realm>>) : p.maxLife \in Nat /\ p.maxRenew \in Nat
      BY FetchOk DEF EntryOk
    <2> HIDE DEF client
    <2> QED BY <2>1, <2>2
  <1> HIDE DEF client, times
  <1>3. subject.authtime \in Nat /\ h.authtime \in Nat /\ h.start \in Nat /\ h.end \in Int
    BY OnlyIs DEF TicketOk
  <1>4. AtMostOne(h.renewTill) /\ ("RENEWABLE" \in h.flags => h.renewTill # {})
    BY DEF TicketOk
  <1> HIDE DEF subject
  <1>5. start \in Nat /\ authtime \in Nat /\ (~validate => start \in Stamps)
    BY <1>3, StartOk
  <1>6. times.authtime \in Nat /\ times.start \in Nat
    <2> HIDE DEF start, authtime
    <2> QED BY <1>1, <1>5 DEF EffectiveStart
  <1>7. end \in Int /\ (end <= 0 \/ end <= h.end \/ \E x \in h.renewTill : end <= x)
    <2>1. CASE renew
      <3>1. h.renewTill # {} /\ h.renewTill \in SUBSET Nat
        BY <1>4, <2>1, SkeletonIs DEF AtMostOne
      <3>2. start + span \in Int
        <4>1. span \in Int
          <5>1. h.start \in Int /\ h.end \in Int
            BY <1>3
          <5> QED BY <5>1, SpanInt
        <4> HIDE DEF span, start
        <4> QED BY <1>5, <4>1
      <3> DEFINE a == start + span
      <3> HIDE DEF a
      <3>3. Min({a} \cup h.renewTill) \in {a} \cup h.renewTill /\ \A y \in h.renewTill : Min({a} \cup h.renewTill) <= y
        BY <3>1, <3>2, LeastMixed DEF a
      <3>4. end = Min({a} \cup h.renewTill)
        BY <2>1 DEF a
      <3> HIDE DEF end
      <3>5. end \in Int
        BY <3>1, <3>2, <3>3, <3>4 DEF a
      <3>6. PICK x \in h.renewTill : TRUE
        BY <3>1
      <3>7. end <= x
        BY <3>3, <3>4
      <3> QED BY <3>5, <3>7
    <2>2. CASE ~renew /\ validate
      <3>1. end = h.end
        BY <2>2
      <3> HIDE DEF end
      <3> QED BY <1>3, <3>1
    <2>3. CASE ~renew /\ ~validate
      <3>1. {h.end} \in SUBSET Int /\ body.till \in Nat /\ start \in Stamps
        BY <1>3, <1>5, <2>3 DEF BodyOk
      <3> DEFINE e == KdcGetTicketEndtime(start, {h.end}, body.till, client, f.server)
      <3>2. e \in Nat /\ e <= Seconds(h.end)
        BY <1>2, <3>1, EndtimeIs
      <3>3. Seconds(h.end) \in Int /\ (h.end >= 0 => Seconds(h.end) <= h.end) /\ (h.end < 0 => Seconds(h.end) = 0)
        BY <1>3, SecondsIs
      <3>4. end = e
        BY <2>3
      <3> HIDE DEF e, end
      <3> QED BY <1>3, <3>2, <3>3, <3>4
    <2> QED BY <2>1, <2>2, <2>3
  <1> HIDE DEF end
  <1>8. times.end \in Int /\ times.end <= end
    BY <1>1, <1>7, StampsNow, PolicyIs
  <1>9. times.end <= 0 \/ times.end <= h.end \/ \E x \in h.renewTill : times.end <= x
    <2>1. h.renewTill \subseteq Nat
      BY <1>4 DEF AtMostOne
    <2> QED BY <1>3, <1>7, <1>8, <2>1
  <1>10. /\ AtMostOne(renewTill) /\ \A x \in renewTill : \E y \in h.renewTill : x <= y
    <2>1. CASE validate
      BY <1>4, <2>1 DEF AtMostOne
    <2>2. CASE ~validate
      <3> DEFINE r == KdcGetTicketRenewtime(body, {h}, client, f.server, start, end)
      <3>1. /\ AtMostOne(r) /\ (r # {} => "RENEWABLE" \in h.flags)
            /\ \A x \in r, y \in h.renewTill : x <= y
        <4>1. \A g \in {h} : AtMostOne(g.renewTill)
          BY <1>4
        <4> HIDE DEF start, body
        <4> QED BY <1>2, <1>5, <4>1, RenewtimeIs DEF body
      <3>2. renewTill = r
        BY <2>2
      <3> HIDE DEF r, renewTill
      <3> QED BY <1>4, <3>1, <3>2
    <2> QED BY <2>1, <2>2
  <1>11. "RENEWABLE" \in renewable => renewTill # {}
    <2>1. CASE validate
      <3>1. "RENEWABLE" \in base => "RENEWABLE" \in h.flags
        BY <2>1, FlagsCarried
      <3> HIDE DEF base
      <3> QED BY <1>4, <2>1, <3>1
    <2>2. CASE ~validate
      <3> HIDE DEF flags, renewTill
      <3> QED BY <2>2, Renewable
    <2> QED BY <2>1, <2>2
  <1>12. "PRE_AUTHENT" \in renewable => "PRE_AUTHENT" \in h.flags
    <2>1. "PRE_AUTHENT" \in base => "PRE_AUTHENT" \in h.flags
      BY FlagsCarried
    <2> HIDE DEF base
    <2>2. "PRE_AUTHENT" \in flags => "PRE_AUTHENT" \in h.flags
      BY <2>1
    <2> HIDE DEF flags, renewTill
    <2> QED BY <2>2, Renewable
  <1>13. times.flags \subseteq renewable
    <2> HIDE DEF renewable
    <2> QED BY <1>1 DEF S4u2selfForwardable
  <1> HIDE DEF renewable, renewTill
  <1>14. /\ AtMostOne(times.renewTill) /\ (times.renewTill = {} => renewTill = {})
         /\ \A x \in times.renewTill : \E y \in renewTill : x <= y
    <2> DEFINE r == PolicyRenew(now, renewTill)
    <2>1. now \in Nat /\ AtMostOne(renewTill)
      BY <1>10, StampsNow
    <2>2. AtMostOne(r) /\ (r = {} => renewTill = {}) /\ \A x \in r : \E y \in renewTill : x <= y
      BY <2>1, PolicyRenewIs
    <2>3. times.renewTill = r
      BY <1>1
    <2> HIDE DEF r
    <2> QED BY <2>2, <2>3
  <1>15. \A x \in times.renewTill : \E y \in h.renewTill : x <= y
    <2>1. /\ times.renewTill \subseteq Nat /\ renewTill \subseteq Nat /\ h.renewTill \subseteq Nat
      BY <1>4, <1>10, <1>14 DEF AtMostOne
    <2>2. TAKE x \in times.renewTill
    <2>3. PICK z \in renewTill : x <= z
      BY <1>14
    <2>4. PICK y \in h.renewTill : z <= y
      BY <1>10
    <2>5. x <= y
      BY <2>1, <2>3, <2>4
    <2> QED BY <2>5
  <1> QED BY <1>6, <1>8, <1>9, <1>11, <1>12, <1>13, <1>14, <1>15 DEF times

(* The additional ticket, if the request uses one, and what is found out   *)
(* of the request.                                                         *)
Second(req, j) ==
    IF j = 0 \/ {"CNAME_IN_ADDL_TKT", "ENC_TKT_IN_SKEY"} \cap req.body.opts = {} THEN {}
    ELSE {tickets[j]}

Found(req) == Only(SearchSprinc(req.realm, req.body))

Facts(req, i, j) == TgsFacts(req.realm, req, tickets[i], Second(req, j), Found(req))

Granted(req, i, j) ==
    LET f == Facts(req, i, j)
        transit == TgsTransit(req.realm, req, tickets[i], f)
    IN  TgsIssueTicket(req.realm, req, i, j, tickets[i], Second(req, j), f, transit.fields,
                       TgsTimes(req.realm, req, tickets[i], Second(req, j), f, transit.checked),
                       HandleAuthdata(req.ad, tickets[i].ad).ad)

LEMMA TgsAccepted ==
    ASSUME NEW req, NEW i, NEW j, NEW t \in IssueTgs(req.realm, req, i, j).tkt
    PROVE  /\ req.body.realm = req.realm
           /\ Found(req) \in SearchSprinc(req.realm, req.body)
           /\ CheckTgsConstraintsSkeleton(req.body, tickets[i], now) = Ok
           /\ req.s4u # {} => ProcessS4u2selfReq(Only(req.s4u), req.realm, db[req.realm]) = Ok
           /\ CheckTgsPolicyFlags(Facts(req, i, j).server, req.body, tickets[i], now) = Ok
           /\ IssueTgs(req.realm, req, i, j).tkt = {Granted(req, i, j)}
  <1> DEFINE realm == req.realm
             h == tickets[i]
             stkt == Second(req, j)
             f == Facts(req, i, j)
             transit == TgsTransit(realm, req, h, f)
             checks == << <<{"RENEW", "VALIDATE"} \subseteq req.body.opts, "BADOPTION">>,
                          <<req.body.realm # realm, "GENERIC">> >>
             pac == GetVerifiedPac(h, Tgt(realm))
             header == Then(ProcessTgsHeader(realm, h, req.addr), Then(FirstRefusal(checks), pac))
             found == SearchSprinc(realm, req.body)
             skeleton == CheckTgsConstraintsSkeleton(req.body, h, now)
             s4u == IF req.s4u = {} THEN Ok ELSE ProcessS4u2selfReq(Only(req.s4u), realm, db[realm])
             self == CheckS4u2self(realm, req, h, f)
             second == Decrypt2ndtkt(realm, stkt)
             checked == CheckSecond(realm, req, h, stkt, f)
             policy == CheckPolicy(realm, req, h, stkt, f)
             ad == HandleAuthdata(req.ad, h.ad)
             code == Then(skeleton, Then(s4u, Then(self, Then(second, Then(checked, Then(policy,
                         Then(transit.code, ad.code)))))))
             tkt == TgsIssueTicket(realm, req, i, j, h, stkt, f, transit.fields,
                        TgsTimes(realm, req, h, stkt, f, transit.checked), ad.ad)
             reply == IssueTgs(realm, req, i, j)
  <1>1. reply = IF header # Ok THEN Refused(header)
                ELSE IF found = {} THEN Refused("S_PRINCIPAL_UNKNOWN")
                ELSE IF code # Ok THEN Refused(code) ELSE [code |-> Ok, tkt |-> {tkt}]
    BY Zenon DEF IssueTgs, AnswerTgs, WithFacts, CheckTgsReq, Issued, Facts, Found, Second
  <1>2. t \in reply.tkt
    OBVIOUS
  <1> HIDE DEF header, found, code, tkt, reply
  <1>3. header = Ok /\ found # {} /\ code = Ok /\ reply.tkt = {tkt}
    BY <1>1, <1>2 DEF Refused
  <1>4. reply.tkt = {Granted(req, i, j)}
    BY <1>3 DEF tkt, Granted
  <1>5. FirstRefusal(checks) = Ok
    <2> HIDE DEF checks, pac
    <2> QED BY <1>3, ThenBoth DEF header
  <1>6. req.body.realm = realm
    <2>1. DOMAIN checks = 1 .. 2 /\ \A k \in 1 .. 2 : checks[k][2] # Ok
      BY DEF Ok
    <2>2. ~ checks[2][1]
      <3> HIDE DEF checks
      <3> QED BY <1>5, <2>1, NoRefusal
    <2> QED BY <2>2
  <1>7. skeleton = Ok /\ s4u = Ok /\ policy = Ok
    <2> HIDE DEF skeleton, s4u, self, second, checked, policy, transit, ad
    <2>1. skeleton = Ok /\ Then(s4u, Then(self, Then(second, Then(checked, Then(policy,
                                Then(transit.code, ad.code)))))) = Ok
      BY <1>3, ThenBoth DEF code
    <2>2. s4u = Ok /\ Then(self, Then(second, Then(checked, Then(policy, Then(transit.code, ad.code))))) = Ok
      BY <2>1, ThenBoth
    <2>3. Then(second, Then(checked, Then(policy, Then(transit.code, ad.code)))) = Ok
      BY <2>2, ThenBoth
    <2>4. Then(checked, Then(policy, Then(transit.code, ad.code))) = Ok
      BY <2>3, ThenBoth
    <2>5. Then(policy, Then(transit.code, ad.code)) = Ok
      BY <2>4, ThenBoth
    <2> QED BY <2>1, <2>2, <2>5, ThenBoth
  <1>8. CheckTgsPolicyFlags(f.server, req.body, h, now) = Ok
    BY <1>7, ThenBoth DEF CheckPolicy
  <1>9. Found(req) \in found
    BY <1>3, OnlyIs DEF Found, found
  <1> QED BY <1>4, <1>6, <1>7, <1>8, <1>9 DEF tkt, reply, found

(* The principals of a TGS exchange are entries of the realm, up to the    *)
(* attributes that do not matter to times and preauthentication.           *)
LEMMA FactsAre ==
    ASSUME StateOk, NEW req \in scene.tgs, NEW i, NEW j, NEW t \in IssueTgs(req.realm, req, i, j).tkt
    PROVE  LET f == Facts(req, i, j)
           IN  /\ \A p \in {f.server} \cup (IF f.self THEN f.local ELSE {}) : {p.maxLife, p.maxRenew} \subseteq Nat
               /\ f.server.id = Found(req).id
               /\ "REQUIRES_PRE_AUTH" \in Found(req).attrs => "REQUIRES_PRE_AUTH" \in f.server.attrs
               /\ \E n : Found(req) \in Fetch(req.realm, <<n, req.realm>>) /\ EntryOk(Found(req), <<n, req.realm>>)
  <1> DEFINE f == Facts(req, i, j)
             realm == req.realm
             server == Found(req)
             user == Only(req.s4u)
  <1>1. realm \in DOMAIN db
    BY DEF StateOk
  <1>2. server \in SearchSprinc(realm, req.body)
    BY TgsAccepted
  <1>3. PICK n : server \in Fetch(realm, <<n, realm>>)
    BY <1>2, FoundIs
  <1>4. EntryOk(server, <<n, realm>>)
    BY <1>1, <1>3, FetchOk
  <1>5. /\ f.server = (IF req.s4u # {} THEN [server EXCEPT !.attrs = @ \ {"NO_AUTH_DATA_REQUIRED"}] ELSE server)
        /\ f.self = (req.s4u # {})
        /\ f.local = (IF req.s4u # {} THEN S4uLocal(user, realm, db[realm]) ELSE {})
    BY DEF Facts, TgsFacts
  <1> HIDE DEF f, server
  <1>6. server = [x \in PrincipalFields |-> server[x]] /\ server.maxLife \in Nat /\ server.maxRenew \in Nat
    BY <1>4 DEF EntryOk
  <1>7. /\ f.server.maxLife = server.maxLife /\ f.server.maxRenew = server.maxRenew
        /\ f.server.id = server.id
        /\ "REQUIRES_PRE_AUTH" \in server.attrs => "REQUIRES_PRE_AUTH" \in f.server.attrs
    BY <1>5, <1>6 DEF PrincipalFields
  <1>8. ASSUME f.self, NEW p \in f.local PROVE p.maxLife \in Nat /\ p.maxRenew \in Nat
    <2> DEFINE q == db[realm][user.name, realm]
               known == <<user.name, realm>> \in DOMAIN db[realm]
               checks == << <<user.fault # Ok, user.fault>>,
                            <<user.name = <<>> /\ ~user.cert, "C_PRINCIPAL_UNKNOWN">>,
                            <<user.realm = realm /\ user.cert, "GENERIC">>,
                            <<user.realm = realm /\ ~known, "C_PRINCIPAL_UNKNOWN">> >>
    <2>1. req.s4u # {}
      BY <1>5, <1>8
    <2>2. user.realm = realm /\ p = [q EXCEPT !.pwExpire = 0, !.attrs = @ \ {"REQUIRES_PWCHANGE"}]
      BY <1>5, <1>8, <2>1 DEF S4uLocal
    <2>3. FirstRefusal(checks) = Ok
      BY <2>1, TgsAccepted DEF ProcessS4u2selfReq
    <2>4. ~ checks[4][1]
      <3>1. DOMAIN checks = 1 .. 4 /\ \A k \in 1 .. 4 : checks[k][1] => checks[k][2] # Ok
        <4> HIDE DEF user, known
        <4>1. DOMAIN checks = 1 .. 4
          OBVIOUS
        <4>2. checks[1][1] => checks[1][2] # Ok
          OBVIOUS
        <4>3. checks[2][2] # Ok /\ checks[3][2] # Ok /\ checks[4][2] # Ok
          BY DEF Ok
        <4> HIDE DEF checks
        <4> QED BY <4>1, <4>2, <4>3
      <3> HIDE DEF checks
      <3> QED BY <2>3, <3>1, NoRefusal
    <2>5. known
      <3> HIDE DEF known
      <3> QED BY <2>2, <2>4
    <2>6. EntryOk(q, <<user.name, realm>>)
      BY <1>1, <2>5 DEF StateOk, DbOk, RealmOk
    <2> HIDE DEF q
    <2>7. q = [x \in PrincipalFields |-> q[x]] /\ q.maxLife \in Nat /\ q.maxRenew \in Nat
      BY <2>6 DEF EntryOk
    <2> QED BY <2>2, <2>7 DEF PrincipalFields
  <1> QED BY <1>3, <1>4, <1>6, <1>7, <1>8 DEF f, server

(* A TGS exchange: nothing, or one ticket that owes its times, its proof   *)
(* and its indicators to the tickets of the request.                       *)
Derived(t, req, i, j) ==
    LET h == tickets[i]
        server == Fetch(t.srealm, <<t.sname, t.srealm>>)
    IN  /\ TicketOk(t) /\ t.parent = i /\ t.srealm = req.realm /\ t.born = now
        /\ t.chain = h.chain \cup {i} /\ h.sources \cup {i} \subseteq t.sources
        /\ t.sources \subseteq h.sources \cup {i} \cup (IF j = 0 THEN {} ELSE tickets[j].sources \cup {j})
        /\ t.end <= 0 \/ t.end <= h.end \/ \E x \in h.renewTill : t.end <= x
        /\ \A x \in t.renewTill : \E y \in h.renewTill : x <= y
        /\ "INVALID" \in h.flags => ~ (now < h.start)
        /\ "PRE_AUTHENT" \in t.flags \/ (\E p \in server : "REQUIRES_PRE_AUTH" \in p.attrs)
               => "PRE_AUTHENT" \in h.flags
        /\ \A c \in t.cammac : \E k \in {i, j} \ {0} :
               /\ {k} \cup tickets[k].sources \subseteq t.sources
               /\ \E d \in tickets[k].cammac : d.realm = req.realm /\ c.inds = d.inds

LEMMA TgsExchange ==
    ASSUME StateOk, NEW req \in scene.tgs, NEW i \in Nat \ {0}, NEW j \in Nat, TicketOk(tickets[i]),
           j # 0 => TicketOk(tickets[j]), NEW t \in IssueTgs(req.realm, req, i, j).tkt
    PROVE  Derived(t, req, i, j) /\ IssueTgs(req.realm, req, i, j).tkt = {t}
  <1> DEFINE realm == req.realm
             body == req.body
             h == tickets[i]
             stkt == Second(req, j)
             f == Facts(req, i, j)
             transit == TgsTransit(realm, req, h, f)
             times == TgsTimes(realm, req, h, stkt, f, transit.checked)
             basis == IF stkt = {} THEN h ELSE Only(stkt)
             inds == IF f.self THEN {} ELSE GetAuthIndicators(basis, Tgt(realm))
  <1>1. /\ body.realm = realm /\ Found(req) \in SearchSprinc(realm, body)
        /\ CheckTgsConstraintsSkeleton(body, h, now) = Ok
        /\ CheckTgsPolicyFlags(f.server, body, h, now) = Ok
        /\ IssueTgs(realm, req, i, j).tkt = {t}
        /\ t = TgsIssueTicket(realm, req, i, j, h, stkt, f, transit.fields, times,
                              HandleAuthdata(req.ad, h.ad).ad)
    <2>1. body.realm = realm /\ Found(req) \in SearchSprinc(realm, body)
      BY TgsAccepted
    <2>2. CheckTgsConstraintsSkeleton(body, h, now) = Ok
      BY TgsAccepted
    <2>3. CheckTgsPolicyFlags(f.server, body, h, now) = Ok
      BY TgsAccepted
    <2>4. IssueTgs(realm, req, i, j).tkt = {Granted(req, i, j)}
      BY TgsAccepted
    <2>5. t = Granted(req, i, j)
      BY <2>4
    <2> HIDE DEF realm, body, h, stkt, f, transit, times
    <2> QED BY <2>1, <2>2, <2>3, <2>4, <2>5 DEF Granted, realm, h, stkt, f, transit, times
  <1>2. realm \in DOMAIN db /\ BodyOk(body)
    BY DEF StateOk
  <1> HIDE DEF f, stkt, times, transit
  <1>3. /\ \A p \in {f.server} \cup (IF f.self THEN f.local ELSE {}) : {p.maxLife, p.maxRenew} \subseteq Nat
        /\ f.server.id = Found(req).id
        /\ "REQUIRES_PRE_AUTH" \in Found(req).attrs => "REQUIRES_PRE_AUTH" \in f.server.attrs
    BY FactsAre DEF f
  <1>4. PICK n : Found(req) \in Fetch(realm, <<n, realm>>) /\ EntryOk(Found(req), <<n, realm>>)
    BY FactsAre
  <1>5. stkt = {} \/ (j # 0 /\ stkt = {tickets[j]})
    BY DEF stkt, Second
  <1>6. /\ {times.authtime, times.start} \subseteq Nat /\ times.end \in Int
        /\ times.end <= 0 \/ times.end <= h.end \/ \E x \in h.renewTill : times.end <= x
        /\ AtMostOne(times.renewTill)
        /\ \A x \in times.renewTill : \E y \in h.renewTill : x <= y
        /\ "RENEWABLE" \in times.flags => times.renewTill # {}
        /\ "PRE_AUTHENT" \in times.flags => "PRE_AUTHENT" \in h.flags
    <2>1. \A s \in stkt : TicketOk(s)
      BY <1>5
    <2> HIDE DEF h, body, realm
    <2> QED BY <1>1, <1>2, <1>3, <2>1, TimesFollow DEF h, body, realm, times
  <1> HIDE DEF inds, basis
  <1>7. /\ t.srealm = realm /\ t.authtime = times.authtime /\ t.start = times.start /\ t.end = times.end
        /\ t.renewTill = times.renewTill /\ t.flags = times.flags
        /\ t.parent = i /\ t.born = now /\ t.chain = h.chain \cup {i}
        /\ t.sources = h.sources \cup {i} \cup (IF stkt = {} THEN {} ELSE Only(stkt).sources \cup {j})
        /\ t.sname = (IF {"RENEW", "VALIDATE"} \cap body.opts # {} THEN h.sname
                      ELSE IF f.referral THEN f.server.id[1] ELSE body.sname)
        /\ t.cammac = (IF "NO_AUTH_DATA_REQUIRED" \in f.server.attrs THEN {}
                       ELSE AddAuthIndicators(inds, Tgt(realm)))
    BY <1>1 DEF TgsIssueTicket, inds, basis
  <1>8. \A c, d \in t.cammac : c = d /\ c.realm = t.srealm
    BY <1>2, <1>7, IndicatorsOk
  <1>9. TicketOk(t)
    <2>1. now \in Nat
      BY StampsNow
    <2> HIDE DEF h
    <2> QED BY <1>6, <1>7, <1>8, <2>1 DEF TicketOk
  <1>10. stkt = {} \/ (j # 0 /\ Only(stkt) = tickets[j])
    BY <1>5 DEF Only
  <1>11. /\ h.sources \cup {i} \subseteq t.sources
         /\ t.sources \subseteq h.sources \cup {i} \cup (IF j = 0 THEN {} ELSE tickets[j].sources \cup {j})
         /\ stkt # {} => {j} \cup tickets[j].sources \subseteq t.sources
    <2> HIDE DEF h
    <2> QED BY <1>7, <1>10
  <1>12. "INVALID" \in h.flags => ~ (now < h.start)
    BY <1>1, SkeletonIs
  <1>13. ASSUME NEW p \in Fetch(realm, <<t.sname, realm>>), "REQUIRES_PRE_AUTH" \in p.attrs
         PROVE  "PRE_AUTHENT" \in h.flags
    <2>1. p = Found(req)
      <3>1. CASE {"RENEW", "VALIDATE"} \cap body.opts # {}
        <4>1. NonTgt(body)
          BY <3>1 DEF NonTgt, NonTgtOptions
        <4>2. h.sname = body.sname
          BY <1>1, <4>1, SkeletonIs
        <4>3. t.sname = h.sname
          BY <1>7, <3>1
        <4> QED BY <1>1, <1>13, <4>1, <4>2, <4>3, FoundIs DEF Fetch
      <3>2. CASE {"RENEW", "VALIDATE"} \cap body.opts = {} /\ f.referral
        <4>1. Found(req).id = <<n, realm>>
          BY <1>4 DEF EntryOk
        <4>2. t.sname = n
          BY <1>3, <1>7, <3>2, <4>1
        <4> QED BY <1>4, <1>13, <4>2 DEF Fetch
      <3>3. CASE {"RENEW", "VALIDATE"} \cap body.opts = {} /\ ~f.referral
        <4>1. t.sname = body.sname
          BY <1>7, <3>3
        <4> QED BY <1>1, <1>13, <4>1, FoundIs DEF Fetch
      <3> QED BY <3>1, <3>2, <3>3
    <2> QED BY <1>1, <1>3, <1>13, <2>1, PolicyFlagsIs
  <1>14. ASSUME NEW c \in t.cammac
         PROVE  \E k \in {i, j} \ {0} : /\ {k} \cup tickets[k].sources \subseteq t.sources
                                        /\ \E d \in tickets[k].cammac : d.realm = realm /\ c.inds = d.inds
    <2>1. inds # {} /\ c.inds = inds
      BY <1>2, <1>7, <1>14, IndicatorsOk DEF AddAuthIndicators
    <2>2. inds = GetAuthIndicators(basis, Tgt(realm))
      BY <2>1 DEF inds
    <2>3. PICK d \in basis.cammac : d.realm = Tgt(realm).id[2]
      BY <2>1, <2>2 DEF GetAuthIndicators
    <2>4. d.realm = realm
      BY <1>2, <2>3, TgtOk
    <2>5. PICK k \in {i, j} \ {0} : basis = tickets[k] /\ {k} \cup tickets[k].sources \subseteq t.sources
      <3>1. CASE stkt = {}
        BY <1>11, <3>1 DEF basis
      <3>2. CASE stkt # {}
        BY <1>10, <1>11, <3>2 DEF basis
      <3> QED BY <3>1, <3>2
    <2>6. \A e \in basis.cammac : e = d
      BY <1>10, <2>3 DEF TicketOk, basis
    <2>7. inds = d.inds
      <3>1. inds \subseteq d.inds
        BY <2>2, <2>6 DEF GetAuthIndicators
      <3>2. d.inds \subseteq inds
        BY <2>1, <2>2, <2>3, <2>6 DEF GetAuthIndicators
      <3> QED BY <3>1, <3>2
    <2> QED BY <2>1, <2>3, <2>4, <2>5, <2>7
  <1> HIDE DEF h
  <1>15. "PRE_AUTHENT" \in t.flags \/ (\E p \in Fetch(t.srealm, <<t.sname, t.srealm>>) : "REQUIRES_PRE_AUTH" \in p.attrs)
            => "PRE_AUTHENT" \in h.flags
    BY <1>6, <1>7, <1>13
  <1>16. Derived(t, req, i, j)
    BY <1>6, <1>7, <1>9, <1>11, <1>12, <1>14, <1>15 DEF Derived, h
  <1> QED BY <1>1, <1>16

-----------------------------------------------------------------------------
(* What the theorems say of a ticket, with what carries it from the header *)
(* to the ticket issued from it: the tickets of a chain come before it, it *)
(* was issued by now, and the first of the chain has a time to end.        *)
TicketInv(k) ==
    LET t == tickets[k]
        first == tickets[Root(k)]
    IN  /\ TicketOk(t) /\ t.born <= now
        /\ t.chain \subseteq 1 .. k - 1 /\ t.sources \subseteq 1 .. k - 1
        /\ Root(k) \in 1 .. k /\ first.end \in Nat /\ AtMostOne(first.renewTill)
        /\ t.end <= Max({first.end} \cup first.renewTill)
        /\ \A x \in t.renewTill : \E y \in first.renewTill : x <= y
        /\ \A a \in t.chain : "INVALID" \in tickets[a].flags => t.born >= tickets[a].start
        /\ t.parent # 0 => t.srealm \in DOMAIN db
        /\ \/ "PRE_AUTHENT" \in t.flags
           \/ t.parent # 0 /\ \E p \in Fetch(t.srealm, <<t.sname, t.srealm>>) : "REQUIRES_PRE_AUTH" \in p.attrs
           => ProofHolds(first)
        /\ \A c \in t.cammac : \E a \in Sources(k) :
               /\ tickets[a].parent = 0 /\ tickets[a].srealm = t.srealm
               /\ c.inds \subseteq UNION {d.inds : d \in tickets[a].cammac}

IInv ==
    /\ StateOk
    /\ tickets \in Seq({tickets[k] : k \in DOMAIN tickets})
    /\ \A k \in DOMAIN tickets : TicketInv(k)

(* The first ticket of a chain. *)
FirstTicket(k) ==
    LET t == tickets[k]
    IN  /\ k \in Nat \ {0} /\ TicketOk(t) /\ t.end \in Nat /\ t.born <= now
        /\ t.parent = 0 /\ t.chain = {} /\ t.sources = {}
        /\ "PRE_AUTHENT" \in t.flags => ProofHolds(t)

LEMMA FirstHolds == \A k : FirstTicket(k) => TicketInv(k)
  <1> SUFFICES ASSUME NEW k, FirstTicket(k) PROVE TicketInv(k)
    OBVIOUS
  <1> DEFINE t == tickets[k]
  <1>1. /\ k \in Nat \ {0} /\ TicketOk(t) /\ t.end \in Nat /\ t.born <= now
        /\ t.parent = 0 /\ t.chain = {} /\ t.sources = {}
        /\ "PRE_AUTHENT" \in t.flags => ProofHolds(t)
    BY DEF FirstTicket
  <1>2. Root(k) = k
    <2>1. Chain(k) = {k}
      BY <1>1 DEF Chain
    <2>2. {k} \in SUBSET Nat /\ {k} # {}
      BY <1>1
    <2>3. Min({k}) \in {k}
      BY <2>2, LeastNat
    <2> QED BY <2>1, <2>3 DEF Root
  <1>3. AtMostOne(t.renewTill)
    BY <1>1 DEF TicketOk
  <1>4. t.end <= Max({t.end} \cup t.renewTill)
    BY <1>1, <1>3, GreatestOfTwo
  <1>5. \A x \in t.renewTill : \E y \in t.renewTill : x <= y
    BY <1>3 DEF AtMostOne
  <1>6. \A c \in t.cammac : \E a \in Sources(k) :
            /\ tickets[a].parent = 0 /\ tickets[a].srealm = t.srealm
            /\ c.inds \subseteq UNION {d.inds : d \in tickets[a].cammac}
    <2>1. k \in Sources(k)
      BY DEF Sources
    <2>2. \A c \in t.cammac : c.inds \subseteq UNION {d.inds : d \in t.cammac}
      OBVIOUS
    <2> QED BY <1>1, <2>1, <2>2
  <1> QED BY <1>1, <1>2, <1>3, <1>4, <1>5, <1>6 DEF TicketInv

(* Steps add tickets at the end, and keep the attributes of the principals. *)
Grows ==
    /\ \A k \in DOMAIN tickets : tickets'[k] = tickets[k]
    /\ now' \in Int /\ now <= now' /\ DOMAIN db' = DOMAIN db
    /\ \A r \in DOMAIN db : \A id : \A q \in Fetch(r, id)' : \E p \in Fetch(r, id) : q.attrs = p.attrs

LEMMA TicketsAre ==
    ASSUME IInv
    PROVE  Len(tickets) \in Nat /\ DOMAIN tickets = 1 .. Len(tickets)
  BY DEF IInv

LEMMA Earlier ==
    ASSUME IInv, Grows, NEW k \in DOMAIN tickets
    PROVE  TicketInv(k)'
  <1> DEFINE t == tickets[k]
             r == Root(k)
             first == tickets[r]
  <1>1. TicketInv(k) /\ tickets'[k] = t /\ k \in Nat \ {0} /\ 1 .. k \subseteq DOMAIN tickets
    BY TicketsAre DEF IInv, Grows
  <1>2. /\ TicketOk(t) /\ t.born <= now
        /\ t.chain \subseteq 1 .. k - 1 /\ t.sources \subseteq 1 .. k - 1
        /\ r \in 1 .. k /\ first.end \in Nat /\ AtMostOne(first.renewTill)
        /\ t.end <= Max({first.end} \cup first.renewTill)
        /\ \A x \in t.renewTill : \E y \in first.renewTill : x <= y
    BY <1>1 DEF TicketInv
  <1>3. /\ \A a \in t.chain : "INVALID" \in tickets[a].flags => t.born >= tickets[a].start
        /\ t.parent # 0 => t.srealm \in DOMAIN db
        /\ "PRE_AUTHENT" \in t.flags => ProofHolds(first)
        /\ t.parent # 0 => \A p \in Fetch(t.srealm, <<t.sname, t.srealm>>) :
                               "REQUIRES_PRE_AUTH" \in p.attrs => ProofHolds(first)
    BY <1>1 DEF TicketInv
  <1>4. \A c \in t.cammac : \E a \in Sources(k) :
            /\ tickets[a].parent = 0 /\ tickets[a].srealm = t.srealm
            /\ c.inds \subseteq UNION {d.inds : d \in tickets[a].cammac}
    BY <1>1 DEF TicketInv
  <1>5. Root(k)' = r /\ Sources(k)' = Sources(k) /\ tickets'[r] = first
    BY <1>1, <1>2 DEF Root, Chain, Sources, Grows
  <1>6. \A a \in 1 .. k - 1 : tickets'[a] = tickets[a]
    BY <1>1 DEF Grows
  <1>7. t.born <= now'
    <2>1. t.born \in Int /\ now \in Int
      BY <1>2, StampsNow DEF TicketOk, IInv
    <2> QED BY <1>2, <2>1 DEF Grows
  <1>8. \A a \in t.chain : "INVALID" \in tickets'[a].flags => t.born >= tickets'[a].start
    BY <1>2, <1>3, <1>6
  <1>9. t.parent # 0 => t.srealm \in DOMAIN db'
    BY <1>3 DEF Grows
  <1>10. \/ "PRE_AUTHENT" \in t.flags
         \/ t.parent # 0 /\ \E p \in Fetch(t.srealm, <<t.sname, t.srealm>>)' : "REQUIRES_PRE_AUTH" \in p.attrs
         => ProofHolds(first)
    BY <1>1, <1>3 DEF Grows
  <1>11. \A c \in t.cammac : \E a \in Sources(k) :
            /\ tickets'[a].parent = 0 /\ tickets'[a].srealm = t.srealm
            /\ c.inds \subseteq UNION {d.inds : d \in tickets'[a].cammac}
    <2>1. \A a \in Sources(k) : tickets'[a] = tickets[a]
      BY <1>1, <1>2, <1>6 DEF Sources
    <2> QED BY <1>4, <2>1
  <1> QED BY <1>1, <1>2, <1>5, <1>7, <1>8, <1>9, <1>10, <1>11, ZenonT(20) DEF TicketInv

LEMMA Appended ==
    ASSUME IInv, NEW u, tickets' = Append(tickets, u)
    PROVE  /\ Len(tickets) \in Nat /\ DOMAIN tickets' = 1 .. Len(tickets) + 1
           /\ tickets'[Len(tickets) + 1] = u /\ \A k \in DOMAIN tickets : tickets'[k] = tickets[k]
           /\ tickets' \in Seq({tickets'[k] : k \in DOMAIN tickets'})
  <1> DEFINE S == {tickets[k] : k \in DOMAIN tickets}
             n == Len(tickets)
  <1>1. tickets \in Seq(S)
    BY DEF IInv
  <1>2. n \in Nat /\ DOMAIN tickets = 1 .. n
    BY TicketsAre
  <1>3. DOMAIN tickets' = 1 .. n + 1 /\ tickets'[n + 1] = u /\ \A k \in 1 .. n : tickets'[k] = tickets[k]
    <2> HIDE DEF S
    <2> QED BY <1>1
  <1>4. tickets' \in Seq(S \cup {u})
    <2> HIDE DEF S
    <2>1. tickets \in Seq(S \cup {u})
      BY <1>1
    <2> QED BY <2>1
  <1>5. tickets' \in Seq({tickets'[k] : k \in DOMAIN tickets'})
    <2> DEFINE T == {tickets'[k] : k \in DOMAIN tickets'}
    <2>1. S \cup {u} \subseteq T
      BY <1>2, <1>3
    <2>2. T \subseteq S \cup {u}
      BY <1>2, <1>3
    <2>3. T = S \cup {u}
      BY <2>1, <2>2
    <2> HIDE DEF S, T
    <2> QED BY <1>4, <2>3 DEF T
  <1> QED BY <1>2, <1>3, <1>5

(* A step that issues one ticket and keeps the database. *)
LEMMA OneMore ==
    ASSUME IInv, StateOk', NEW u, tickets' = Append(tickets, u), now' = now, db' = db,
           NEW n, n = Len(tickets) + 1, TicketInv(n)'
    PROVE  IInv'
  <1>1. /\ Len(tickets) \in Nat /\ DOMAIN tickets' = 1 .. Len(tickets) + 1
        /\ \A k \in DOMAIN tickets : tickets'[k] = tickets[k]
        /\ tickets' \in Seq({tickets'[k] : k \in DOMAIN tickets'})
    BY Appended
  <1>2. Grows
    BY <1>1, StampsNow DEF Grows, Fetch, IInv
  <1>3. \A k \in DOMAIN tickets : TicketInv(k)'
    BY <1>2, Earlier
  <1>4. DOMAIN tickets = 1 .. Len(tickets)
    BY TicketsAre
  <1>5. \A k \in DOMAIN tickets' : TicketInv(k)'
    <2>1. \A k \in DOMAIN tickets' : k \in DOMAIN tickets \/ k = n
      BY <1>1, <1>4
    <2> QED BY <1>3, <2>1
  <1> QED BY <1>1, <1>5 DEF IInv

LEMMA NoMore ==
    ASSUME IInv, StateOk', tickets' = tickets, Grows
    PROVE  IInv'
  <1>1. \A k \in DOMAIN tickets : TicketInv(k)'
    BY Earlier
  <1> QED BY <1>1 DEF IInv

LEMMA AsReqStep ==
    ASSUME IInv, NEW req \in scene.as, AsReq(req.realm, req)
    PROVE  IInv'
  <1>1. PICK padata \in UNION {Padata(m) : m \in req.methods}, fast \in Armor(req.armored) :
           LET out == IssueAs(req.realm, req, fast, padata)
           IN  /\ tickets' = With({[t EXCEPT !.proof = padata] : t \in out.reply.tkt})
               /\ cookies' = cookies \cup UNION {h.cookie : h \in out.hint}
               /\ fresh' = fresh \cup UNION {h.fresh : h \in out.hint}
    BY DEF AsReq
  <1> DEFINE out == IssueAs(req.realm, req, fast, padata)
             realm == req.realm
             client == db[realm][req.body.cname, realm]
             ikey == SelectClientKey(client, req.body.etypes)
             pre == FinishPreauth(padata, client, req.body, ikey, fast # {}, Tgt(realm), now)
  <1>2. StateOk /\ now' = now /\ scene' = scene /\ db' = db
    BY DEF IInv, AsReq
  <1>3. PadataOk(padata)
    <2>1. req.methods \subseteq Methods
      BY <1>2 DEF StateOk
    <2> QED BY <1>2, <2>1, PadataIs
  <1>4. \A h \in out.hint : HandedOk(h)
    <2>1. out.hint \in {{}, pre.hint}
      BY DEF IssueAs, AnswerAs
    <2>2. \A h \in pre.hint : HandedOk(h)
      BY HintsOk
    <2> HIDE DEF pre, out
    <2> QED BY <2>1, <2>2
  <1> HIDE DEF out
  <1>5. StateOk'
    <2>1. now \in Nat
      BY <1>2, StampsNow
    <2>2. /\ \A c \in cookies' : c.type = "Cookie" /\ c.time \in Nat /\ \A d \in c.data : d.spake = c.time
          /\ \A g \in fresh' : g.time \in Nat
      <3>1. /\ \A c \in cookies : c.type = "Cookie" /\ c.time \in Nat /\ \A d \in c.data : d.spake = c.time
            /\ \A g \in fresh : g.time \in Nat
        BY <1>2 DEF StateOk
      <3>2. /\ cookies' = cookies \cup UNION {h.cookie : h \in out.hint}
            /\ fresh' = fresh \cup UNION {h.fresh : h \in out.hint}
        BY <1>1 DEF out
      <3> QED BY <1>4, <2>1, <3>1, <3>2 DEF HandedOk
    <2> QED BY <1>2, <2>2 DEF StateOk, DbOk, RealmOk
  <1>6. tickets' = With({[t EXCEPT !.proof = padata] : t \in out.reply.tkt})
    BY <1>1 DEF out
  <1>7. CASE out.reply.tkt = {}
    <2>1. tickets' = tickets
      BY <1>6, <1>7 DEF With
    <2>2. Grows
      BY <1>2, <2>1, StampsNow DEF Grows, Fetch
    <2> QED BY <1>5, <2>1, <2>2, NoMore
  <1>8. CASE out.reply.tkt # {}
    <2>1. PICK t \in out.reply.tkt : TRUE
      BY <1>8
    <2> DEFINE u == [t EXCEPT !.proof = padata]
    <2>0. PICK n : n = Len(tickets) + 1
      OBVIOUS
    <2>2. /\ TicketOk(t) /\ t.parent = 0 /\ t.chain = {} /\ t.sources = {} /\ t.born = now
          /\ t.end \in Nat /\ out.reply.tkt = {t}
          /\ t = [f \in DOMAIN t |-> t[f]] /\ "proof" \in DOMAIN t
          /\ "PRE_AUTHENT" \in t.flags => ProofHolds(u)
      BY <1>2, <1>3, <2>1, AsExchange DEF out
    <2>3. tickets' = Append(tickets, u)
      <3>1. {[s EXCEPT !.proof = padata] : s \in out.reply.tkt} = {u}
        BY <2>2
      <3> HIDE DEF u
      <3> QED BY <1>6, <3>1 DEF With, Only
    <2>4. /\ u.parent = t.parent /\ u.chain = t.chain /\ u.sources = t.sources /\ u.born = t.born
          /\ u.end = t.end /\ u.flags = t.flags /\ u.authtime = t.authtime /\ u.start = t.start
          /\ u.renewTill = t.renewTill /\ u.cammac = t.cammac /\ u.srealm = t.srealm
      BY <2>2
    <2> HIDE DEF u
    <2>5. TicketOk(u)
      BY <2>2, <2>4 DEF TicketOk
    <2>6. Len(tickets) \in Nat /\ tickets'[n] = u
      BY <2>0, <2>3, Appended
    <2>7. now \in Nat /\ n \in Nat \ {0}
      BY <1>2, <2>0, <2>6, StampsNow
    <2>8. FirstTicket(n)'
      BY <1>2, <2>2, <2>4, <2>5, <2>6, <2>7 DEF FirstTicket
    <2>9. (\A k : FirstTicket(k) => TicketInv(k))'
      BY FirstHolds, PTL
    <2>10. TicketInv(n)'
      BY <2>8, <2>9
    <2> QED BY <1>2, <1>5, <2>0, <2>3, <2>10, OneMore
  <1> QED BY <1>7, <1>8

LEMMA TgsReqStep ==
    ASSUME IInv, NEW req \in scene.tgs, TgsReq(req.realm, req)
    PROVE  IInv'
  <1>1. StateOk /\ now' = now /\ scene' = scene /\ db' = db /\ cookies' = cookies /\ fresh' = fresh
    BY DEF IInv, TgsReq
  <1>2. StateOk'
    BY <1>1 DEF StateOk, DbOk, RealmOk
  <1>3. PICK i \in DOMAIN tickets, j \in {0} \cup DOMAIN tickets :
           tickets' = With(IssueTgs(req.realm, req, i, j).tkt)
    BY DEF TgsReq
  <1> DEFINE reply == IssueTgs(req.realm, req, i, j)
  <1>4. Len(tickets) \in Nat /\ DOMAIN tickets = 1 .. Len(tickets)
    BY TicketsAre
  <1>5. i \in Nat \ {0} /\ j \in Nat
    BY <1>3, <1>4
  <1>6. TicketInv(i) /\ (j # 0 => TicketInv(j))
    BY <1>3 DEF IInv
  <1>7. CASE reply.tkt = {}
    <2>1. tickets' = tickets
      BY <1>3, <1>7 DEF With
    <2>2. Grows
      BY <1>1, <2>1, StampsNow DEF Grows, Fetch
    <2> QED BY <1>2, <2>1, <2>2, NoMore
  <1>8. CASE reply.tkt # {}
    <2>1. PICK t \in reply.tkt : TRUE
      BY <1>8
    <2>2. TicketOk(tickets[i]) /\ (j # 0 => TicketOk(tickets[j]))
      BY <1>6 DEF TicketInv
    <2>3. Derived(t, req, i, j) /\ reply.tkt = {t}
      BY <1>1, <1>5, <2>1, <2>2, TgsExchange
    <2> HIDE DEF reply
    <2>4. tickets' = Append(tickets, t)
      BY <1>3, <2>3 DEF With, Only, reply
    <2>5. PICK n : n = Len(tickets) + 1
      OBVIOUS
    <2>6. /\ tickets'[n] = t /\ n \in Nat \ {0} /\ DOMAIN tickets = 1 .. n - 1
          /\ \A k \in DOMAIN tickets : tickets'[k] = tickets[k]
      BY <1>4, <2>4, <2>5, Appended
    <2> DEFINE h == tickets[i]
               first == tickets[Root(i)]
               server == Fetch(t.srealm, <<t.sname, t.srealm>>)
    <2>7. /\ h.born <= now /\ h.chain \subseteq 1 .. i - 1 /\ h.sources \subseteq 1 .. i - 1
          /\ Root(i) \in 1 .. i /\ first.end \in Nat /\ AtMostOne(first.renewTill)
          /\ h.end <= Max({first.end} \cup first.renewTill)
          /\ \A x \in h.renewTill : \E y \in first.renewTill : x <= y
          /\ \A a \in h.chain : "INVALID" \in tickets[a].flags => h.born >= tickets[a].start
          /\ "PRE_AUTHENT" \in h.flags => ProofHolds(first)
      BY <1>6 DEF TicketInv
    <2>8. /\ TicketOk(t) /\ t.parent = i /\ t.srealm = req.realm /\ t.born = now
          /\ t.chain = h.chain \cup {i} /\ h.sources \cup {i} \subseteq t.sources
          /\ t.sources \subseteq h.sources \cup {i} \cup (IF j = 0 THEN {} ELSE tickets[j].sources \cup {j})
          /\ t.end <= 0 \/ t.end <= h.end \/ \E x \in h.renewTill : t.end <= x
          /\ \A x \in t.renewTill : \E y \in h.renewTill : x <= y
          /\ "INVALID" \in h.flags => ~ (now < h.start)
          /\ "PRE_AUTHENT" \in t.flags \/ (\E p \in server : "REQUIRES_PRE_AUTH" \in p.attrs)
                 => "PRE_AUTHENT" \in h.flags
      BY <2>3 DEF Derived
    <2>9. t.chain \subseteq 1 .. n - 1 /\ t.sources \subseteq 1 .. n - 1
      <3>1. i \in 1 .. n - 1 /\ (j # 0 => j \in 1 .. n - 1)
        BY <1>3, <2>6
      <3>2. j # 0 => tickets[j].sources \subseteq 1 .. j - 1
        BY <1>6 DEF TicketInv
      <3> QED BY <2>6, <2>7, <2>8, <3>1, <3>2
    <2>10. Root(n)' = Root(i) /\ Root(i) \in 1 .. n - 1 /\ tickets'[Root(i)] = first
      <3>1. Root(n)' = Min(Chain(i) \cup {n})
        BY <2>6, <2>8 DEF Root, Chain
      <3>2. Chain(i) \in SUBSET Nat /\ Chain(i) # {} /\ \A y \in Chain(i) : y < n
        BY <1>3, <2>6, <2>7 DEF Chain
      <3>3. Root(n)' = Root(i)
        BY <2>6, <3>1, <3>2, LeastStays DEF Root
      <3>4. Root(i) \in 1 .. n - 1
        BY <1>3, <2>6, <2>7
      <3> QED BY <2>6, <3>3, <3>4
    <2>11. t.end <= Max({first.end} \cup first.renewTill)
      <3> DEFINE m == Max({first.end} \cup first.renewTill)
      <3>1. m \in Int /\ first.end <= m /\ \A y \in first.renewTill : y <= m
        <4>1. first.end \in Int /\ AtMostOne(first.renewTill)
          BY <2>7
        <4> HIDE DEF first
        <4> QED BY <4>1, GreatestOfTwo
      <3>2. t.end \in Int /\ h.end \in Int /\ h.renewTill \subseteq Nat /\ first.renewTill \subseteq Nat
        BY <2>2, <2>7, <2>8 DEF TicketOk, AtMostOne
      <3>3. h.end <= m
        BY <2>7
      <3> SUFFICES t.end <= m
        OBVIOUS
      <3> HIDE DEF m, first, h
      <3>4. CASE t.end <= 0
        BY <2>7, <3>1, <3>2, <3>4
      <3>5. CASE t.end <= h.end
        BY <3>1, <3>2, <3>3, <3>5
      <3>6. CASE \E x \in h.renewTill : t.end <= x
        <4>1. PICK x \in h.renewTill : t.end <= x
          BY <3>6
        <4>2. PICK y \in first.renewTill : x <= y
          BY <2>7
        <4>3. y <= m /\ x \in Int /\ y \in Int
          BY <3>1, <3>2
        <4> QED BY <3>1, <3>2, <4>1, <4>2, <4>3
      <3> QED BY <2>8, <3>4, <3>5, <3>6
    <2>12. \A x \in t.renewTill : \E y \in first.renewTill : x <= y
      <3>1. t.renewTill \subseteq Nat /\ h.renewTill \subseteq Nat /\ first.renewTill \subseteq Nat
        BY <2>2, <2>7, <2>8 DEF TicketOk, AtMostOne
      <3> HIDE DEF h, first
      <3> SUFFICES ASSUME NEW x \in t.renewTill PROVE \E y \in first.renewTill : x <= y
        OBVIOUS
      <3>2. PICK z \in h.renewTill : x <= z
        BY <2>8
      <3>3. PICK y \in first.renewTill : z <= y
        BY <2>7
      <3> QED BY <3>1, <3>2, <3>3
    <2>13. \A a \in t.chain : "INVALID" \in tickets'[a].flags => t.born >= tickets'[a].start
      <3> SUFFICES ASSUME NEW a \in t.chain, "INVALID" \in tickets'[a].flags PROVE t.born >= tickets'[a].start
        OBVIOUS
      <3>1. a \in 1 .. n - 1 /\ tickets'[a] = tickets[a]
        BY <2>6, <2>9
      <3>2. tickets[a].start \in Nat /\ h.born \in Nat /\ now \in Nat
        BY <1>1, <2>2, <2>6, <3>1, StampsNow DEF IInv, TicketInv, TicketOk
      <3>3. CASE a = i
        BY <2>8, <3>1, <3>2, <3>3
      <3>4. CASE a \in h.chain
        BY <2>7, <2>8, <3>1, <3>2, <3>4
      <3> QED BY <2>8, <3>3, <3>4
    <2>14. t.parent # 0 => t.srealm \in DOMAIN db'
      BY <1>1, <2>8 DEF StateOk
    <2>15. Fetch(t.srealm, <<t.sname, t.srealm>>)' = server
      BY <1>1 DEF Fetch
    <2>16. \/ "PRE_AUTHENT" \in t.flags
           \/ t.parent # 0 /\ \E p \in Fetch(t.srealm, <<t.sname, t.srealm>>)' : "REQUIRES_PRE_AUTH" \in p.attrs
           => ProofHolds(first)
      <3> HIDE DEF h, first, server
      <3> QED BY <2>7, <2>8, <2>15
    <2>17. \A c \in t.cammac : \E a \in Sources(n)' :
             /\ tickets'[a].parent = 0 /\ tickets'[a].srealm = t.srealm
             /\ c.inds \subseteq UNION {d.inds : d \in tickets'[a].cammac}
      <3> SUFFICES ASSUME NEW c \in t.cammac
                   PROVE  \E a \in Sources(n)' :
                             /\ tickets'[a].parent = 0 /\ tickets'[a].srealm = t.srealm
                             /\ c.inds \subseteq UNION {d.inds : d \in tickets'[a].cammac}
        OBVIOUS
      <3>1. PICK k \in {i, j} \ {0} :
               /\ {k} \cup tickets[k].sources \subseteq t.sources
               /\ \E d \in tickets[k].cammac : d.realm = req.realm /\ c.inds = d.inds
        BY <2>3 DEF Derived
      <3>2. PICK d \in tickets[k].cammac : d.realm = req.realm /\ c.inds = d.inds
        BY <3>1
      <3>3. TicketInv(k)
        BY <1>6, <3>1
      <3>4. tickets[k].srealm = req.realm
        BY <3>2, <3>3 DEF TicketInv, TicketOk
      <3>5. PICK a \in Sources(k) :
               /\ tickets[a].parent = 0 /\ tickets[a].srealm = tickets[k].srealm
               /\ d.inds \subseteq UNION {e.inds : e \in tickets[a].cammac}
        BY <3>2, <3>3 DEF TicketInv
      <3>6. a \in t.sources
        BY <3>1, <3>5 DEF Sources
      <3>7. tickets'[a] = tickets[a] /\ a \in Sources(n)'
        BY <2>6, <2>9, <3>6 DEF Sources
      <3> QED BY <2>8, <3>2, <3>4, <3>5, <3>7
    <2>18. t.born <= now'
      BY <1>1, <2>8, StampsNow
    <2>19. Root(n)' \in 1 .. n
      BY <2>6, <2>10
    <2>20. TicketInv(n)'
      <3> DEFINE r == Root(i)
      <3> HIDE DEF h, first, server
      <3> QED BY <2>6, <2>7, <2>8, <2>9, <2>10, <2>11, <2>12, <2>13, <2>14, <2>16, <2>17, <2>18, <2>19 DEF TicketInv
    <2> QED BY <1>1, <1>2, <2>4, <2>5, <2>20, OneMore
  <1> QED BY <1>7, <1>8

LEMMA RekeyStep ==
    ASSUME IInv, NEW realm, NEW id, NEW keepold, Rekey(realm, id, keepold)
    PROVE  IInv'
  <1> DEFINE New(p) == [p EXCEPT !.keys = (IF keepold THEN p.keys ELSE {}) \cup {Max(p.keys) + 1}]
  <1>1. /\ StateOk /\ now' = now /\ scene' = scene /\ tickets' = tickets /\ cookies' = cookies /\ fresh' = fresh
        /\ db' = [db EXCEPT ![realm][id].keys = (IF keepold THEN @ ELSE {}) \cup {Max(@) + 1}]
    BY DEF IInv, Rekey
  <1>2. db = [r \in DOMAIN db |-> db[r]] /\ \A r \in DOMAIN db : RealmOk(db[r], r)
    BY <1>1 DEF StateOk, DbOk
  <1>3. /\ db' = [r \in DOMAIN db |-> db'[r]] /\ DOMAIN db' = DOMAIN db
        /\ \A r \in DOMAIN db : db'[r] = IF r = realm THEN [db[r] EXCEPT ![id] = New(db[r][id])] ELSE db[r]
    BY <1>1, <1>2
  <1>4. ASSUME NEW r \in DOMAIN db
        PROVE  /\ RealmOk(db'[r], r) /\ DOMAIN db'[r] = DOMAIN db[r]
               /\ \A x \in DOMAIN db[r] : db'[r][x].attrs = db[r][x].attrs
    <2>1. /\ <<Krbtgt(r), r>> \in DOMAIN db[r] /\ db[r] = [x \in DOMAIN db[r] |-> db[r][x]]
          /\ \A x \in DOMAIN db[r] : EntryOk(db[r][x], x)
      BY <1>2 DEF RealmOk
    <2>2. CASE r # realm
      BY <1>2, <1>3, <2>2
    <2>3. CASE r = realm
      <3> DEFINE d == db[r]
                 e == db'[r]
      <3>1. e = [d EXCEPT ![id] = New(d[id])]
        BY <1>3, <2>3
      <3> HIDE DEF d, e, New
      <3>2. /\ DOMAIN e = DOMAIN d /\ e = [x \in DOMAIN e |-> e[x]]
            /\ \A x \in DOMAIN d : e[x] = IF x = id THEN New(d[x]) ELSE d[x]
        BY <2>1, <3>1 DEF d
      <3>3. ASSUME NEW x \in DOMAIN d PROVE EntryOk(e[x], x) /\ e[x].attrs = d[x].attrs
        <4> DEFINE p == d[x]
        <4>1. EntryOk(p, x)
          BY <2>1, <3>3 DEF d
        <4> HIDE DEF p
        <4>2. p = [f \in PrincipalFields |-> p[f]]
          BY <4>1 DEF EntryOk
        <4> DEFINE q == New(p)
        <4>3. /\ q = [f \in PrincipalFields |-> q[f]] /\ q.id = p.id /\ q.maxLife = p.maxLife
              /\ q.maxRenew = p.maxRenew /\ q.tokens = p.tokens /\ q.attrs = p.attrs
          BY <4>2 DEF New, PrincipalFields
        <4> HIDE DEF q
        <4>4. EntryOk(q, x)
          BY <4>1, <4>3 DEF EntryOk
        <4> QED BY <3>2, <4>1, <4>3, <4>4 DEF p, q
      <3> QED BY <2>1, <3>2, <3>3 DEF RealmOk, d, e
    <2> QED BY <2>2, <2>3
  <1>5. StateOk'
    <2>1. DbOk(db)'
      BY <1>3, <1>4 DEF DbOk
    <2> QED BY <1>1, <1>3, <2>1 DEF StateOk
  <1>6. Grows
    <2>1. \A r \in DOMAIN db : \A x : \A q \in Fetch(r, x)' : \E p \in Fetch(r, x) : q.attrs = p.attrs
      BY <1>4 DEF Fetch
    <2>2. now' \in Int /\ now <= now'
      BY <1>1, StampsNow
    <2> QED BY <1>1, <1>3, <2>1, <2>2 DEF Grows
  <1> QED BY <1>1, <1>5, <1>6, NoMore

LEMMA TickStep ==
    ASSUME IInv, Tick
    PROVE  IInv'
  <1>1. /\ StateOk /\ now < MaxTime /\ now' = now + 1 /\ scene' = scene /\ db' = db /\ tickets' = tickets
        /\ cookies' = cookies /\ fresh' = fresh
    BY DEF IInv, Tick
  <1>2. now \in Nat /\ MaxTime \in Nat
    BY <1>1, StampsNow, IssueAssumption
  <1>3. StateOk'
    BY <1>1, <1>2 DEF StateOk, DbOk, RealmOk
  <1>4. Grows
    BY <1>1, <1>2 DEF Grows, Fetch
  <1> QED BY <1>1, <1>3, <1>4, NoMore

LEMMA StutterStep ==
    ASSUME IInv, UNCHANGED vars
    PROVE  IInv'
  <1>1. /\ StateOk /\ now' = now /\ scene' = scene /\ db' = db /\ tickets' = tickets
        /\ cookies' = cookies /\ fresh' = fresh
    BY DEF IInv, vars
  <1>2. StateOk'
    BY <1>1 DEF StateOk, DbOk, RealmOk
  <1>3. Grows
    BY <1>1, StampsNow DEF Grows, Fetch
  <1> QED BY <1>1, <1>2, <1>3, NoMore

LEMMA InitHolds == Init => IInv
  <1> SUFFICES ASSUME Init PROVE IInv
    OBVIOUS
  <1>1. PICK s \in Scenes : /\ now = s.now /\ scene = s /\ db = s.db /\ tickets = s.tickets
                            /\ cookies = {} /\ fresh = {}
    BY DEF Init
  <1>2. /\ now \in 0 .. MaxTime /\ DbOk(db)
        /\ tickets \in Seq({tickets[k] : k \in DOMAIN tickets})
        /\ \A k \in DOMAIN tickets : ForeignOk(tickets[k], now)
        /\ \A r \in scene.as \cup scene.tgs : r.realm \in DOMAIN db /\ BodyOk(r.body)
        /\ \A r \in scene.as : r.methods \subseteq Methods
    BY <1>1, SceneAssumption
  <1>3. StateOk
    BY <1>1, <1>2 DEF StateOk
  <1>4. ASSUME NEW k \in DOMAIN tickets PROVE TicketInv(k)
    <2>1. k \in Nat \ {0}
      <3> DEFINE S == {tickets[m] : m \in DOMAIN tickets}
      <3>1. tickets \in Seq(S)
        BY <1>2
      <3> HIDE DEF S
      <3> QED BY <3>1
    <2>2. ForeignOk(tickets[k], now) /\ now \in Nat
      BY <1>2, <1>3, StampsNow
    <2>3. FirstTicket(k)
      BY <2>1, <2>2 DEF FirstTicket, TicketOk, ForeignOk
    <2> QED BY <2>3, FirstHolds
  <1> QED BY <1>2, <1>3, <1>4 DEF IInv

LEMMA StepHolds == IInv /\ [Next]_vars => IInv'
  <1> SUFFICES ASSUME IInv, [Next]_vars PROVE IInv'
    OBVIOUS
  <1>1. ASSUME NEW r \in scene.as, AsReq(r.realm, r) PROVE IInv'
    BY <1>1, AsReqStep
  <1>2. ASSUME NEW r \in scene.tgs, TgsReq(r.realm, r) PROVE IInv'
    BY <1>2, TgsReqStep
  <1>3. ASSUME NEW k \in scene.rekey, Rekey(k.realm, k.id, k.keepold) PROVE IInv'
    BY <1>3, RekeyStep
  <1>4. ASSUME Tick PROVE IInv'
    BY <1>4, TickStep
  <1>5. ASSUME UNCHANGED vars PROVE IInv'
    BY <1>5, StutterStep
  <1> QED BY <1>1, <1>2, <1>3, <1>4, <1>5 DEF Next

-----------------------------------------------------------------------------
(* Whatever the policies, the databases and the requests, and however long *)
(* the chain: no ticket ends after the time the first one of its chain     *)
(* ends or may be renewed to, none may be renewed past the first one, and  *)
(* none comes out of a postdated ticket before its start time.             *)
THEOREM TimesAreCarried == Spec => []TimesCarryOver
  <1>1. Init => IInv
    BY InitHolds
  <1>2. IInv /\ [Next]_vars => IInv'
    BY StepHolds
  <1>3. IInv => TimesCarryOver
    BY DEF IInv, TicketInv, TimesCarryOver, NeverOutlives, PostdatedWaits
  <1> QED BY <1>1, <1>2, <1>3, PTL DEF Spec

(* A ticket that says its client preauthenticated, or whose server asks    *)
(* for it, goes back to an AS exchange in which the client proved itself   *)
(* with the key of that moment; authentication indicators go back to an AS *)
(* exchange of the realm that vouches for them.                            *)
THEOREM ProofsAreCarried == Spec => []ProofsCarryOver
  <1>1. Init => IInv
    BY InitHolds
  <1>2. IInv /\ [Next]_vars => IInv'
    BY StepHolds
  <1>3. IInv => ProofsCarryOver
    BY DEF IInv, TicketInv, ProofsCarryOver, PreauthIsProved, IndicatorsAreEarned
  <1> QED BY <1>1, <1>2, <1>3, PTL DEF Spec
=============================================================================
