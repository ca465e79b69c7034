---------------------------- MODULE KadminProofs ----------------------------
(***************************************************************************)
(* A call on a connection to kadmind is carried out once, whatever the     *)
(* messages are, however they are repeated and reordered, and over however *)
(* many connections.                                                       *)
(***************************************************************************)
EXTENDS Kadmin, TLAPS

(* Zenon first, Z3 for what needs arithmetic. *)
USE ZenonT(5), SMTT(20)

Tokens == UNION {{m.token : m \in sc.messages} : sc \in Scenes}
Services == {"none", "integrity", "privacy"}

(* The contexts a session may hold, and the calls that ran. *)
GssCtx == [token : Tokens, seqlast : Nat, mask : SUBSET Int, svc : Services]
Numbers == 0 .. SeqBits - 1
AgssCtx == [token : SUBSET Tokens, isn : Numbers, seq : Numbers, expires : Nat]
Calls == {"gss", "agss"} \X Tokens \X Nat

OfSession(sess) ==
    /\ sess \in [gss : SUBSET GssCtx, agss : SUBSET AgssCtx]
    /\ sess.gss = {} \/ \E gd \in GssCtx : sess.gss = {gd}
    /\ sess.agss = {} \/ \E st \in AgssCtx : sess.agss = {st}

Types ==
    /\ scene \in Scenes /\ now \in Nat
    /\ spent \in [requests : Nat, tokens : SUBSET Tokens]
    /\ ran \in Seq(Calls)
    /\ OfSession(rpc)

(* What a window remembers of the calls r: none is past its last number,   *)
(* and those within it are in the mask.                                    *)
Remembers(r, gd) ==
    \A i \in 1 .. Len(r) : (r[i][1] = "gss" /\ r[i][2] = gd.token) =>
        /\ r[i][3] <= gd.seqlast
        /\ gd.seqlast - r[i][3] < SeqWindow => gd.seqlast - r[i][3] \in gd.mask

(* How far a number is from the first of an AUTH_GSSAPI context. *)
Pos(isn, n) == IF n >= isn THEN n - isn ELSE n - isn + SeqBits

(* The numbers of the calls r are behind the next one of an AUTH_GSSAPI    *)
(* context.                                                                *)
Behind(r, st) ==
    \A i \in 1 .. Len(r) : (r[i][1] = "agss" /\ r[i][2] \in st.token) =>
        r[i][3] \in Numbers /\ Pos(st.isn, r[i][3]) < Pos(st.isn, st.seq)

(* No AUTH_GSSAPI context goes all the way round its 2^32 numbers: it      *)
(* would take 2^31 calls on one connection before the context expires.     *)
NoLap ==
    \A st \in rpc.agss, next \in rpc'.agss :
        next.token = st.token => Pos(st.isn, st.seq) <= Pos(st.isn, next.seq)

(* The calls r of a flavor ran once. *)
Once(r, flavor) ==
    \A i, j \in 1 .. Len(r) : (r[i] = r[j] /\ r[i][1] = flavor) => i = j

(* A token that set a context up is used up. *)
TokensUsed ==
    /\ \A i \in 1 .. Len(ran) : ran[i][2] \in spent.tokens
    /\ \A gd \in rpc.gss : gd.token \in spent.tokens
    /\ \A st \in rpc.agss : st.token \subseteq spent.tokens

GssInv == Once(ran, "gss") /\ \A gd \in rpc.gss : Remembers(ran, gd)

AgssInv == Once(ran, "agss") /\ \A st \in rpc.agss : Behind(ran, st)

IInv == Types /\ TokensUsed /\ GssInv

-----------------------------------------------------------------------------
(* The window. *)
LEMMA WindowMoves ==
  ASSUME NEW gd \in GssCtx, NEW n \in Nat, gd.seqlast < n
  PROVE  LET w == SeqWindowOk(gd, n)
         IN  /\ w.gd \in GssCtx /\ w.gd.token = gd.token /\ w.ok
             /\ w.gd.seqlast = n
             /\ w.gd.mask = {0} \cup ({b - (gd.seqlast - n) : b \in gd.mask} \cap 0 .. (SeqWindow - 1))
  <1> DEFINE off == gd.seqlast - n
             mask == {0} \cup ({b - off : b \in gd.mask} \cap 0 .. (SeqWindow - 1))
  <1>1. off \in Int /\ off < 0
    BY DEF GssCtx
  <1>2. SeqWindowOk(gd, n) = [ok |-> TRUE, gd |-> [gd EXCEPT !.seqlast = n, !.mask = mask]]
    BY <1>1 DEF SeqWindowOk
  <1>3. mask \in SUBSET Int
    BY NumbersAssumption
  <1> HIDE DEF mask
  <1>4. /\ [gd EXCEPT !.seqlast = n, !.mask = mask] \in GssCtx
        /\ [gd EXCEPT !.seqlast = n, !.mask = mask].token = gd.token
        /\ [gd EXCEPT !.seqlast = n, !.mask = mask].seqlast = n
        /\ [gd EXCEPT !.seqlast = n, !.mask = mask].mask = mask
    BY <1>3 DEF GssCtx
  <1>5. mask = {0} \cup ({b - (gd.seqlast - n) : b \in gd.mask} \cap 0 .. (SeqWindow - 1))
    BY DEF mask
  <1>6. SeqWindowOk(gd, n).ok /\ SeqWindowOk(gd, n).gd = [gd EXCEPT !.seqlast = n, !.mask = mask]
    BY <1>2
  <1> QED BY <1>4, <1>5, <1>6

LEMMA WindowStays ==
  ASSUME NEW gd \in GssCtx, NEW n \in Nat, ~ (gd.seqlast < n)
  PROVE  LET w == SeqWindowOk(gd, n)
             off == gd.seqlast - n
         IN  /\ w.gd \in GssCtx /\ w.gd.token = gd.token
             /\ w.gd.seqlast = gd.seqlast
             /\ gd.mask \subseteq w.gd.mask
             /\ w.ok => off < SeqWindow /\ off \notin gd.mask /\ off \in w.gd.mask
  <1> DEFINE off == gd.seqlast - n
             next == IF off >= SeqWindow THEN gd ELSE [gd EXCEPT !.mask = @ \cup {off}]
  <1>1. off \in Int /\ ~ (off < 0) /\ gd.mask \in SUBSET Int
    BY DEF GssCtx
  <1> DEFINE fits == off < SeqWindow /\ off \notin gd.mask
  <1>2. SeqWindowOk(gd, n) = [ok |-> fits, gd |-> next]
    BY <1>1 DEF SeqWindowOk
  <1>3. /\ next \in GssCtx /\ next.token = gd.token /\ next.seqlast = gd.seqlast
        /\ gd.mask \subseteq next.mask /\ (off < SeqWindow => off \in next.mask)
    <2>1. CASE off >= SeqWindow
      BY <1>1, <2>1, NumbersAssumption
    <2>2. CASE ~ (off >= SeqWindow)
      <3>1. next = [gd EXCEPT !.mask = gd.mask \cup {off}] /\ gd.mask \cup {off} \in SUBSET Int
        BY <1>1, <2>2
      <3> QED BY <3>1 DEF GssCtx
    <2> QED BY <2>1, <2>2
  <1>4. fits \in BOOLEAN
    OBVIOUS
  <1> HIDE DEF next, fits
  <1>5. SeqWindowOk(gd, n).gd = next /\ SeqWindowOk(gd, n).ok = fits
    BY <1>2, <1>4
  <1> QED BY <1>3, <1>5 DEF fits

(* seq_window_ok takes a number once, and forgets none it took. *)
LEMMA WindowHolds ==
  ASSUME NEW r \in Seq(Calls), NEW gd \in GssCtx, NEW n \in Nat, Remembers(r, gd)
  PROVE  LET w == SeqWindowOk(gd, n)
         IN  /\ w.gd \in GssCtx /\ w.gd.token = gd.token /\ Remembers(r, w.gd)
             /\ w.ok => /\ \A i \in 1 .. Len(r) : r[i] # <<"gss", gd.token, n>>
                        /\ n <= w.gd.seqlast
                        /\ w.gd.seqlast - n < SeqWindow => w.gd.seqlast - n \in w.gd.mask
  <1> DEFINE w == SeqWindowOk(gd, n)
  <1>1. /\ gd.seqlast \in Nat /\ gd.mask \in SUBSET Int /\ SeqWindow \in Nat
        /\ \A i \in 1 .. Len(r) : r[i][3] \in Nat
    BY NumbersAssumption DEF GssCtx, Calls
  <1>2. CASE gd.seqlast < n
    <2>1. /\ w.gd \in GssCtx /\ w.gd.token = gd.token /\ w.ok
          /\ w.gd.seqlast = n
          /\ w.gd.mask = {0} \cup ({b - (gd.seqlast - n) : b \in gd.mask} \cap 0 .. (SeqWindow - 1))
      BY <1>2, WindowMoves
    <2> HIDE DEF w
    <2>2. Remembers(r, w.gd)
      <3> SUFFICES ASSUME NEW i \in 1 .. Len(r), r[i][1] = "gss", r[i][2] = gd.token
                   PROVE  r[i][3] <= n /\ (n - r[i][3] < SeqWindow => n - r[i][3] \in w.gd.mask)
        BY <2>1 DEF Remembers
      <3> DEFINE k == r[i][3]
      <3>1. k \in Nat /\ k <= gd.seqlast /\ (gd.seqlast - k < SeqWindow => gd.seqlast - k \in gd.mask)
        BY <1>1 DEF Remembers
      <3> HIDE DEF k
      <3>2. k <= n
        BY <1>1, <1>2, <3>1
      <3>3. ASSUME n - k < SeqWindow PROVE n - k \in w.gd.mask
        <4>1. gd.seqlast - k \in gd.mask
          BY <1>1, <1>2, <3>1, <3>3
        <4>2. n - k = (gd.seqlast - k) - (gd.seqlast - n) /\ n - k \in 0 .. (SeqWindow - 1)
          BY <1>1, <1>2, <3>1, <3>2, <3>3
        <4> QED BY <2>1, <4>1, <4>2
      <3> QED BY <3>2, <3>3 DEF k
    <2>3. \A i \in 1 .. Len(r) : r[i] # <<"gss", gd.token, n>>
      BY <1>1, <1>2 DEF Remembers
    <2>4. n <= n /\ n - n = 0 /\ 0 \in w.gd.mask
      BY <2>1
    <2> QED BY <2>1, <2>2, <2>3, <2>4 DEF w
  <1>3. CASE ~ (gd.seqlast < n)
    <2>1. /\ w.gd \in GssCtx /\ w.gd.token = gd.token
          /\ w.gd.seqlast = gd.seqlast
          /\ gd.mask \subseteq w.gd.mask
          /\ w.ok => gd.seqlast - n < SeqWindow /\ gd.seqlast - n \notin gd.mask /\ gd.seqlast - n \in w.gd.mask
      BY <1>3, WindowStays
    <2> HIDE DEF w
    <2>2. Remembers(r, w.gd)
      BY <2>1 DEF Remembers
    <2>3. ASSUME w.ok, NEW i \in 1 .. Len(r), r[i] = <<"gss", gd.token, n>> PROVE FALSE
      BY <2>1, <2>3 DEF Remembers
    <2>4. n <= gd.seqlast
      BY <1>1, <1>3
    <2> QED BY <2>1, <2>2, <2>3, <2>4 DEF w
  <1> QED BY <1>2, <1>3

-----------------------------------------------------------------------------
(* RPCSEC_GSS. *)

(* What a message is made of. *)
OfMessage(m) == m.token \in Tokens /\ m.seq \in Nat

Declined(a) == ~ a.ran /\ a.reply # "accepted"
Accepted(a) == ~ a.ran /\ a.reply = "accepted"
Carried(a) == a.ran /\ a.reply = "done"

LEMMA AnswerIs ==
  ASSUME NEW reply, NEW sess
  PROVE  /\ Answer(reply, sess).reply = reply /\ Answer(reply, sess).sess = sess /\ ~ Answer(reply, sess).ran
         /\ Ran(sess).reply = "done" /\ Ran(sess).sess = sess /\ Ran(sess).ran
  BY DEF Answer, Ran

SetGss(sess, g) == [sess EXCEPT !.gss = g]
SetAgss(sess, g) == [sess EXCEPT !.agss = g]

LEMMA WithGss ==
  ASSUME NEW sess, OfSession(sess), NEW g
  PROVE  /\ SetGss(sess, g).gss = g /\ SetGss(sess, g).agss = sess.agss
         /\ SetAgss(sess, g).agss = g /\ SetAgss(sess, g).gss = sess.gss
  BY DEF OfSession, SetGss, SetAgss

(* A session with another context in the place of its RPCSEC_GSS one. *)
LEMMA GssSession ==
  ASSUME NEW sess, OfSession(sess), NEW g, g = {} \/ \E gd \in GssCtx : g = {gd}
  PROVE  OfSession(SetGss(sess, g))
  <1>1. SetGss(sess, g) = [gss |-> g, agss |-> sess.agss]
    BY DEF OfSession, SetGss
  <1>2. sess.agss = {} \/ \E st \in AgssCtx : sess.agss = {st}
    BY DEF OfSession
  <1> QED BY <1>1, <1>2 DEF OfSession

LEMMA AgssSession ==
  ASSUME NEW sess, OfSession(sess), NEW g, g = {} \/ \E st \in AgssCtx : g = {st}
  PROVE  OfSession(SetAgss(sess, g))
  <1>1. SetAgss(sess, g) = [gss |-> sess.gss, agss |-> g]
    BY DEF OfSession, SetAgss
  <1>2. sess.gss = {} \/ \E gd \in GssCtx : sess.gss = {gd}
    BY DEF OfSession
  <1> QED BY <1>1, <1>2 DEF OfSession

(* The context an INIT leaves. *)
FreshGss(m) == [token |-> m.token, seqlast |-> 0, mask |-> {}, svc |-> m.service]

(* What becomes of a call once the window has taken its number. *)
CallOutcome(a, sess, m, used) ==
    \/ Declined(a) /\ (a.sess = sess \/ a.sess = SetGss(sess, {}))
    \/ Accepted(a) /\ m.token \notin used /\ a.sess = SetGss(sess, {FreshGss(m)})
    \/ Carried(a) /\ a.sess = sess /\ \E gd \in GssCtx : sess.gss = {gd} /\ gd.token = m.token

LEMMA GssCallAnswers ==
  ASSUME NEW sess, OfSession(sess), NEW m, NEW used, NEW realm
  PROVE  CallOutcome(GssCall(sess, m, used, realm), sess, m, used)
  <1> DEFINE a == GssCall(sess, m, used, realm)
  <1> USE DEF CallOutcome
  <1>1. CASE m.proc = "init"
    <2>1. a = GssInit(sess, m, used)
      BY <1>1 DEF GssCall
    <2>2. CASE m.token \in used
      BY <2>1, <2>2, AnswerIs DEF GssInit, Declined
    <2>3. CASE m.token \notin used
      BY <2>1, <2>3, AnswerIs DEF GssInit, Accepted, FreshGss, SetGss
    <2> QED BY <2>2, <2>3
  <1>2. CASE m.proc # "init" /\ sess.gss = {}
    BY <1>2, AnswerIs DEF GssCall, Declined
  <1>3. CASE m.proc # "init" /\ sess.gss # {}
    <2> DEFINE gd == CHOOSE g \in sess.gss : TRUE
    <2>1. gd \in GssCtx /\ sess.gss = {gd}
      BY <1>3 DEF OfSession
    <2> HIDE DEF gd
    <2>2. CASE m.proc = "data"
      <3>1. a = GssData(sess, gd, m, realm)
        BY <1>3, <2>2 DEF GssCall, gd
      <3>2. CASE m.token = gd.token
        <4>1. a.sess = sess /\ (Declined(a) \/ Carried(a))
          BY <3>1, <3>2, AnswerIs DEF GssData, RpcsecDispatch, Declined, Carried
        <4> QED BY <2>1, <3>2, <4>1
      <3>3. CASE m.token # gd.token
        BY <3>1, <3>3, AnswerIs DEF GssData, Declined
      <3> QED BY <3>2, <3>3
    <2>3. CASE m.proc = "destroy"
      <3>1. a = GssDestroy(sess, gd, m)
        BY <1>3, <2>3 DEF GssCall, gd
      <3> QED BY <3>1, AnswerIs DEF GssDestroy, Declined, SetGss
    <2>4. CASE m.proc # "data" /\ m.proc # "destroy"
      BY <1>3, <2>4, AnswerIs DEF GssCall, Declined
    <2> QED BY <2>2, <2>3, <2>4
  <1> QED BY <1>1, <1>2, <1>3

(* The window that took the number n of a call that ran. *)
Took(r, gd, n) ==
    /\ \A i \in 1 .. Len(r) : r[i] # <<"gss", gd.token, n>>
    /\ n <= gd.seqlast
    /\ gd.seqlast - n < SeqWindow => gd.seqlast - n \in gd.mask

(* What the answer a to a call of RPCSEC_GSS leaves of the session. *)
GssOutcome(a, sess, m, used, r) ==
    /\ OfSession(a.sess) /\ a.sess.agss = sess.agss
    /\ \/ /\ Declined(a)
          /\ \A gd \in a.sess.gss : Remembers(r, gd) /\ \E g \in sess.gss : g.token = gd.token
       \/ Accepted(a) /\ m.token \notin used /\ a.sess.gss = {FreshGss(m)}
       \/ /\ Carried(a)
          /\ \E gd \in GssCtx : /\ a.sess.gss = {gd} /\ gd.token = m.token
                                /\ \E g \in sess.gss : g.token = m.token
                                /\ Remembers(r, gd) /\ Took(r, gd, m.seq)

LEMMA GssAnswers ==
  ASSUME NEW sess, OfSession(sess), NEW m, OfMessage(m), NEW used, NEW realm,
         NEW r \in Seq(Calls), \A gd \in sess.gss : Remembers(r, gd)
  PROVE  GssOutcome(HandleRpcsecGss(sess, m, used, realm), sess, m, used, r)
  <1> DEFINE a == HandleRpcsecGss(sess, m, used, realm)
             window == {SeqWindowOk(gd, m.seq) : gd \in sess.gss}
  <1>1. CASE m.service \notin Services
    <2>1. a = Answer("badCred", sess)
      BY <1>1 DEF HandleRpcsecGss, Services
    <2>2. Declined(a) /\ a.sess = sess
      BY <2>1, AnswerIs DEF Declined
    <2> QED BY <2>2 DEF GssOutcome
  <1>2. CASE m.service \in Services
    <2>1. a = InWindow(window, sess, m, used, realm)
      BY <1>2 DEF HandleRpcsecGss, Services
    <2>2. FreshGss(m) \in GssCtx
      BY <1>2 DEF FreshGss, GssCtx, OfMessage
    <2> SUFFICES GssOutcome(a, sess, m, used, r)
      OBVIOUS
    <2> HIDE DEF a
    <2>3. CASE sess.gss = {}
      <3>1. window = {} /\ SetGss(sess, {}) = sess
        BY <2>3 DEF OfSession, SetGss
      <3>2. a = GssCall(sess, m, used, realm)
        BY <2>1, <3>1 DEF InWindow, SetGss
      <3>3. \/ Declined(a) /\ a.sess = sess
            \/ Accepted(a) /\ m.token \notin used /\ a.sess = SetGss(sess, {FreshGss(m)})
        <4>1. CallOutcome(a, sess, m, used)
          BY <3>2, GssCallAnswers
        <4> QED BY <2>3, <3>1, <4>1 DEF CallOutcome
      <3>4. /\ OfSession(SetGss(sess, {FreshGss(m)}))
            /\ SetGss(sess, {FreshGss(m)}).agss = sess.agss
            /\ SetGss(sess, {FreshGss(m)}).gss = {FreshGss(m)}
        BY <2>2, GssSession, WithGss
      <3> QED BY <2>3, <3>3, <3>4 DEF GssOutcome
    <2>4. ASSUME NEW gd \in GssCtx, sess.gss = {gd} PROVE GssOutcome(a, sess, m, used, r)
      <3> DEFINE w == SeqWindowOk(gd, m.seq)
                 sess1 == SetGss(sess, {w.gd})
      <3>1. window = {w} /\ {x.gd : x \in window} = {w.gd}
        BY <2>4
      <3>2. /\ w.gd \in GssCtx /\ w.gd.token = gd.token /\ Remembers(r, w.gd)
            /\ w.ok => Took(r, w.gd, m.seq)
        BY <2>4, WindowHolds DEF OfMessage, Took
      <3>3. OfSession(sess1) /\ sess1.agss = sess.agss /\ sess1.gss = {w.gd}
        <4>1. {w.gd} = {} \/ \E g \in GssCtx : {w.gd} = {g}
          BY <3>2
        <4> QED BY <4>1, GssSession, WithGss
      <3> HIDE DEF w
      <3>31. sess1 = SetGss(sess, {w.gd}) /\ w = SeqWindowOk(gd, m.seq)
        BY DEF w
      <3> HIDE DEF sess1
      <3>4. /\ OfSession(SetGss(sess1, {FreshGss(m)})) /\ OfSession(SetGss(sess1, {}))
            /\ SetGss(sess1, {FreshGss(m)}).agss = sess.agss
            /\ SetGss(sess1, {FreshGss(m)}).gss = {FreshGss(m)}
            /\ SetGss(sess1, {}).agss = sess.agss
            /\ SetGss(sess1, {}).gss = {}
        BY <2>2, <3>3, GssSession, WithGss
      <3>5. \/ Declined(a) /\ (a.sess = sess \/ a.sess = sess1)
            \/ w.ok /\ a = GssCall(sess1, m, used, realm)
        <4> HIDE DEF window
        <4>1. window # {} /\ ((\E x \in window : ~ x.ok) <=> ~ w.ok)
          BY <3>1
        <4>2. a = IF m.seq > MaxSeq THEN Answer("ctxProblem", sess)
                  ELSE IF ~ w.ok THEN Answer("ctxProblem", sess1)
                  ELSE GssCall(sess1, m, used, realm)
          BY <2>1, <3>1, <3>31, <4>1 DEF InWindow, SetGss
        <4> QED BY <4>2, AnswerIs DEF Declined
      <3>6. CASE Declined(a) /\ (a.sess = sess \/ a.sess = sess1)
        BY <2>4, <3>2, <3>3, <3>6 DEF GssOutcome
      <3>7. CASE w.ok /\ a = GssCall(sess1, m, used, realm)
        <4>1. \/ Declined(a) /\ (a.sess = sess1 \/ a.sess = SetGss(sess1, {}))
              \/ Accepted(a) /\ m.token \notin used /\ a.sess = SetGss(sess1, {FreshGss(m)})
              \/ Carried(a) /\ a.sess = sess1 /\ w.gd.token = m.token
          <5>1. CallOutcome(a, sess1, m, used)
            BY <3>3, <3>7, GssCallAnswers
          <5> QED BY <3>3, <5>1 DEF CallOutcome
        <4>2. CASE Declined(a)
          BY <2>4, <3>2, <3>3, <3>4, <4>1, <4>2 DEF GssOutcome, Declined, Accepted, Carried
        <4>3. CASE Accepted(a)
          BY <3>4, <4>1, <4>3 DEF GssOutcome, Declined, Accepted, Carried
        <4>4. CASE Carried(a)
          BY <2>4, <3>2, <3>3, <3>7, <4>1, <4>4 DEF GssOutcome, Declined, Accepted, Carried
        <4> QED BY <4>1, <4>2, <4>3, <4>4
      <3> QED BY <3>5, <3>6, <3>7
    <2> QED BY <2>3, <2>4 DEF OfSession, a
  <1> QED BY <1>1, <1>2

-----------------------------------------------------------------------------
(* AUTH_GSSAPI. *)

Advanced(st, m) == [st EXCEPT !.seq = WrappingNext(m.seq)]

FreshAgss(m, isn, expires) == [token |-> {m.token}, isn |-> isn, seq |-> isn, expires |-> expires]

LEMMA WrappingNextIs ==
  ASSUME NEW n \in Numbers
  PROVE  WrappingNext(n) \in Numbers
  BY NumbersAssumption DEF WrappingNext, Numbers

LEMMA AdvancedIs ==
  ASSUME NEW st \in AgssCtx, NEW m, m.seq \in Numbers
  PROVE  /\ Advanced(st, m) \in AgssCtx
         /\ Advanced(st, m).token = st.token /\ Advanced(st, m).isn = st.isn
         /\ Advanced(st, m).seq = WrappingNext(m.seq)
  <1> DEFINE n == WrappingNext(m.seq)
  <1>1. n \in Numbers
    BY WrappingNextIs
  <1> HIDE DEF n
  <1>2. /\ [st EXCEPT !.seq = n] \in AgssCtx
        /\ [st EXCEPT !.seq = n].token = st.token /\ [st EXCEPT !.seq = n].isn = st.isn
        /\ [st EXCEPT !.seq = n].seq = n
    BY <1>1 DEF AgssCtx
  <1> QED BY <1>2 DEF Advanced, n

(* What becomes of a call on the context st that is set up. *)
EstablishedOutcome(a, sess, st, m) ==
    \/ Declined(a) /\ (a.sess = sess \/ a.sess = SetAgss(sess, {}))
    \/ /\ Declined(a) \/ Carried(a)
       /\ {m.token} = st.token /\ m.seq = WrappingNext(st.seq)
       /\ a.sess = SetAgss(sess, {Advanced(st, m)})

LEMMA EstablishedAnswers ==
  ASSUME NEW sess, NEW st, NEW m
  PROVE  EstablishedOutcome(AgssEstablished(sess, st, m), sess, st, m)
  <1> DEFINE a == AgssEstablished(sess, st, m)
             next == SetAgss(sess, {Advanced(st, m)})
             none == SetAgss(sess, {})
  <1>1. a = IF {m.token} # st.token THEN Answer("badVerf", sess)
            ELSE IF m.seq # WrappingNext(st.seq) THEN Answer("rejectedVerf", sess)
            ELSE IF m.proc = "destroy" THEN Answer("destroyed", none)
            ELSE IF m.proc # "data" THEN Answer("authFailed", next)
            ELSE IF ~ m.served THEN Answer("procUnavail", next)
            ELSE IF m.bodySeq # m.seq THEN Answer("garbage", next)
            ELSE Ran(next)
    BY Zenon DEF AgssEstablished, Advanced, SetAgss
  <1> HIDE DEF a, next, none
  <1>2. \/ Declined(a) /\ (a.sess = sess \/ a.sess = none)
        \/ /\ Declined(a) \/ Carried(a)
           /\ {m.token} = st.token /\ m.seq = WrappingNext(st.seq) /\ a.sess = next
    <2>1. \/ \E reply \in {"badVerf", "rejectedVerf"} : a = Answer(reply, sess)
          \/ /\ {m.token} = st.token /\ m.seq = WrappingNext(st.seq)
             /\ \/ a = Answer("destroyed", none)
                \/ \E reply \in {"authFailed", "procUnavail", "garbage"} : a = Answer(reply, next)
                \/ a = Ran(next)
      BY <1>1, Zenon
    <2> QED BY <2>1, AnswerIs DEF Declined, Carried
  <1> QED BY <1>2 DEF EstablishedOutcome, a, next, none

(* The context st goes on as t. *)
GoesOn(st, t) == t.token = st.token /\ t.isn = st.isn

(* What the answer a to a call of AUTH_GSSAPI leaves of the session. *)
AgssOutcome(a, sess, m, used, isn) ==
    /\ OfSession(a.sess) /\ a.sess.gss = sess.gss
    /\ \/ /\ Declined(a)
          /\ \A t \in a.sess.agss : t.token = {} \/ \E st \in sess.agss : GoesOn(st, t)
       \/ /\ Accepted(a) /\ m.token \notin used
          /\ \A t \in a.sess.agss : t.token = {m.token}
       \/ /\ Carried(a)
          /\ \E st \in sess.agss, t \in AgssCtx :
                /\ a.sess.agss = {t} /\ GoesOn(st, t)
                /\ st.token = {m.token} /\ m.seq = WrappingNext(st.seq) /\ t.seq = WrappingNext(m.seq)

LEMMA AgssCallAnswers ==
  ASSUME NEW sess, OfSession(sess), NEW m, OfMessage(m), NEW used, NEW realm,
         NEW isn \in Numbers, NEW expires \in Nat
  PROVE  AgssOutcome(AgssCall(sess, m, used, realm, isn, expires), sess, m, used, isn)
  <1> DEFINE a == AgssCall(sess, m, used, realm, isn, expires)
  <1> SUFFICES AgssOutcome(a, sess, m, used, isn)
    OBVIOUS
  <1>0. ASSUME Declined(a), a.sess = sess PROVE AgssOutcome(a, sess, m, used, isn)
    BY <1>0 DEF AgssOutcome, GoesOn
  <1>1. CASE sess.agss = {}
    <2>1. a = Answer("badCred", sess)
      BY <1>1 DEF AgssCall
    <2> QED BY <1>0, <2>1, AnswerIs DEF Declined
  <1>2. ASSUME NEW st \in AgssCtx, sess.agss = {st} PROVE AgssOutcome(a, sess, m, used, isn)
    <2>1. /\ sess.agss # {} /\ (CHOOSE x \in sess.agss : TRUE) = st
          /\ (\A x \in sess.agss : x.token # {}) <=> st.token # {}
      BY <1>2
    <2>2. CASE st.token # {}
      <3>1. a = AgssEstablished(sess, st, m)
        BY <2>1, <2>2 DEF AgssCall
      <3>2. EstablishedOutcome(a, sess, st, m)
        BY <3>1, EstablishedAnswers
      <3> HIDE DEF a
      <3>3. CASE Declined(a) /\ a.sess = sess
        BY <1>0, <3>3
      <3>4. CASE Declined(a) /\ a.sess = SetAgss(sess, {})
        BY <3>4, AgssSession, WithGss DEF AgssOutcome
      <3>5. CASE /\ Declined(a) \/ Carried(a)
                 /\ {m.token} = st.token /\ m.seq = WrappingNext(st.seq)
                 /\ a.sess = SetAgss(sess, {Advanced(st, m)})
        <4> DEFINE t == Advanced(st, m)
        <4>1. m.seq \in Numbers
          BY <3>5, WrappingNextIs DEF AgssCtx
        <4>2. t \in AgssCtx /\ GoesOn(st, t) /\ t.seq = WrappingNext(m.seq)
          BY <4>1, AdvancedIs DEF GoesOn
        <4> HIDE DEF t
        <4>3. {t} = {} \/ \E x \in AgssCtx : {t} = {x}
          BY <4>2
        <4>4. OfSession(a.sess) /\ a.sess.gss = sess.gss /\ a.sess.agss = {t}
          BY <3>5, <4>3, AgssSession, WithGss DEF t
        <4>5. st \in sess.agss
          BY <1>2
        <4> QED BY <3>5, <4>2, <4>4, <4>5 DEF AgssOutcome
      <3> QED BY <3>2, <3>3, <3>4, <3>5 DEF EstablishedOutcome
    <2>3. CASE st.token = {} /\ m.proc = "init"
      <3>1. a = AgssInit(sess, m, used, realm, isn, expires)
        BY <2>1, <2>3 DEF AgssCall
      <3>2. \/ a = Answer("rejectedCred", sess)
            \/ m.token \notin used /\ a = Answer("accepted", SetAgss(sess, {FreshAgss(m, isn, expires)}))
        BY <3>1 DEF AgssInit, SetAgss, FreshAgss
      <3> HIDE DEF a
      <3>3. CASE a = Answer("rejectedCred", sess)
        BY <1>0, <3>3, AnswerIs DEF Declined
      <3>4. CASE m.token \notin used /\ a = Answer("accepted", SetAgss(sess, {FreshAgss(m, isn, expires)}))
        <4> DEFINE t == FreshAgss(m, isn, expires)
        <4>1. t \in AgssCtx /\ t.token = {m.token}
          BY DEF FreshAgss, AgssCtx, OfMessage
        <4> HIDE DEF t
        <4>2. {t} = {} \/ \E x \in AgssCtx : {t} = {x}
          BY <4>1
        <4>3. OfSession(SetAgss(sess, {t})) /\ SetAgss(sess, {t}).gss = sess.gss /\ SetAgss(sess, {t}).agss = {t}
          BY <4>2, AgssSession, WithGss
        <4>4. Accepted(a) /\ a.sess = SetAgss(sess, {t})
          BY <3>4, AnswerIs DEF Accepted, t
        <4> QED BY <3>4, <4>1, <4>3, <4>4 DEF AgssOutcome
      <3> QED BY <3>2, <3>3, <3>4
    <2>4. CASE st.token = {} /\ m.proc # "init"
      <3>1. a = Answer("authFailed", sess)
        BY <2>1, <2>4 DEF AgssCall
      <3> QED BY <1>0, <3>1, AnswerIs DEF Declined
    <2> QED BY <2>2, <2>3, <2>4
  <1> QED BY <1>1, <1>2 DEF OfSession

LEMMA HeldIs ==
  ASSUME NEW sess, OfSession(sess), NEW m, NEW at \in Nat
  PROVE  LET held == SetAgss(sess, AgssHeld(sess.agss, m, at))
         IN  /\ OfSession(held) /\ held.gss = sess.gss
             /\ \A st \in held.agss : st \in sess.agss \/ st.token = {}
  <1> DEFINE agss == AgssHeld(sess.agss, m, at)
             first == [token |-> {}, isn |-> 0, seq |-> 0, expires |-> at + 900]
  <1>1. first \in AgssCtx /\ first.token = {}
    BY NumbersAssumption DEF AgssCtx, Numbers
  <1>2. agss = {first} \/ agss \subseteq sess.agss
    BY DEF AgssHeld
  <1> HIDE DEF first, agss
  <1>3. agss = {} \/ \E st \in AgssCtx : agss = {st}
    BY <1>1, <1>2 DEF OfSession
  <1>4. \A st \in agss : st \in sess.agss \/ st.token = {}
    BY <1>1, <1>2
  <1>5. OfSession(SetAgss(sess, agss)) /\ SetAgss(sess, agss).gss = sess.gss /\ SetAgss(sess, agss).agss = agss
    BY <1>3, AgssSession, WithGss
  <1> QED BY <1>4, <1>5 DEF agss

LEMMA AgssAnswers ==
  ASSUME NEW sess, OfSession(sess), NEW m, OfMessage(m), NEW used, NEW realm,
         NEW at \in Nat, NEW isn \in Numbers, NEW expires \in Nat
  PROVE  AgssOutcome(SvcauthGssapi(sess, m, used, realm, at, isn, expires), sess, m, used, isn)
  <1> DEFINE held == SetAgss(sess, AgssHeld(sess.agss, m, at))
             a == SvcauthGssapi(sess, m, used, realm, at, isn, expires)
  <1>1. a = AgssCall(held, m, used, realm, isn, expires)
    BY Zenon DEF SvcauthGssapi, SetAgss
  <1>2. /\ OfSession(held) /\ held.gss = sess.gss
        /\ \A st \in held.agss : st \in sess.agss \/ st.token = {}
    BY HeldIs
  <1> HIDE DEF held, a
  <1>3. AgssOutcome(a, held, m, used, isn)
    BY <1>1, <1>2, AgssCallAnswers
  <1>4. /\ OfSession(a.sess) /\ a.sess.gss = sess.gss
    BY <1>2, <1>3 DEF AgssOutcome
  <1>5. CASE Declined(a) /\ \A t \in a.sess.agss : t.token = {} \/ \E st \in held.agss : GoesOn(st, t)
    BY <1>2, <1>4, <1>5 DEF AgssOutcome, GoesOn, a
  <1>6. CASE Accepted(a)
    BY <1>3, <1>4, <1>6 DEF AgssOutcome, Declined, Accepted, Carried, a
  <1>7. CASE /\ Carried(a)
             /\ \E st \in held.agss, t \in AgssCtx :
                   /\ a.sess.agss = {t} /\ GoesOn(st, t)
                   /\ st.token = {m.token} /\ m.seq = WrappingNext(st.seq) /\ t.seq = WrappingNext(m.seq)
    <2>1. PICK st \in held.agss, t \in AgssCtx :
                   /\ a.sess.agss = {t} /\ GoesOn(st, t)
                   /\ st.token = {m.token} /\ m.seq = WrappingNext(st.seq) /\ t.seq = WrappingNext(m.seq)
      BY <1>7
    <2>2. st \in sess.agss
      BY <1>2, <2>1
    <2> QED BY <1>4, <1>7, <2>1, <2>2 DEF AgssOutcome, a
  <1> QED BY <1>3, <1>5, <1>6, <1>7 DEF AgssOutcome

(* AUTH_GSSAPI carries out the calls of the kadm5 program alone. *)
LEMMA OfKadmAnswers ==
  ASSUME NEW sess, NEW m, NEW used, NEW isn, NEW a, NEW prog, AgssOutcome(a, sess, m, used, isn)
  PROVE  AgssOutcome(OfKadm(a, prog), sess, m, used, isn)
  <1> DEFINE b == OfKadm(a, prog)
  <1>1. CASE ~ (a.ran /\ prog # "kadm")
    BY <1>1 DEF OfKadm
  <1>2. CASE a.ran /\ prog # "kadm"
    <2>1. b = Answer("progUnavail", a.sess)
      BY <1>2 DEF OfKadm
    <2>2. Declined(b) /\ b.sess = a.sess
      BY <2>1, AnswerIs DEF Declined
    <2> HIDE DEF b
    <2>3. PICK st \in sess.agss, t \in AgssCtx : a.sess.agss = {t} /\ GoesOn(st, t)
      BY <1>2 DEF AgssOutcome, Declined, Accepted
    <2>4. \A x \in b.sess.agss : \E y \in sess.agss : GoesOn(y, x)
      BY <2>2, <2>3
    <2> QED BY <2>2, <2>4 DEF AgssOutcome, b
  <1> QED BY <1>1, <1>2

-----------------------------------------------------------------------------
(* One more call. *)

LEMMA AppendIs ==
  ASSUME NEW r \in Seq(Calls), NEW c \in Calls
  PROVE  /\ Append(r, c) \in Seq(Calls) /\ Len(Append(r, c)) = Len(r) + 1 /\ Len(r) \in Nat
         /\ Append(r, c)[Len(r) + 1] = c
         /\ \A i \in 1 .. Len(r) : Append(r, c)[i] = r[i]
         /\ \A i \in 1 .. Len(r) + 1 : i \in 1 .. Len(r) \/ i = Len(r) + 1
  OBVIOUS

LEMMA OnceAppend ==
  ASSUME NEW r \in Seq(Calls), NEW c \in Calls, NEW flavor, Once(r, flavor),
         c[1] = flavor => \A i \in 1 .. Len(r) : r[i] # c
  PROVE  Once(Append(r, c), flavor)
  <1> DEFINE q == Append(r, c)
             n == Len(r)
  <1>1. /\ Len(q) = n + 1 /\ q[n + 1] = c /\ \A i \in 1 .. n : q[i] = r[i]
        /\ \A i \in 1 .. n + 1 : i \in 1 .. n \/ i = n + 1
    BY AppendIs
  <1> HIDE DEF q
  <1>2. \A i, j \in 1 .. n : (r[i] = r[j] /\ r[i][1] = flavor) => i = j
    BY DEF Once
  <1> HIDE DEF n
  <1>3. \A i, j \in 1 .. n + 1 : (q[i] = q[j] /\ q[i][1] = flavor) => i = j
    BY <1>1, <1>2 DEF n
  <1> QED BY <1>1, <1>3 DEF Once, q

LEMMA RemembersAppend ==
  ASSUME NEW r \in Seq(Calls), NEW c \in Calls, NEW gd, Remembers(r, gd),
         (c[1] = "gss" /\ c[2] = gd.token) =>
             c[3] <= gd.seqlast /\ (gd.seqlast - c[3] < SeqWindow => gd.seqlast - c[3] \in gd.mask)
  PROVE  Remembers(Append(r, c), gd)
  <1> DEFINE q == Append(r, c)
             n == Len(r)
  <1>1. /\ Len(q) = n + 1 /\ q[n + 1] = c /\ \A i \in 1 .. n : q[i] = r[i]
        /\ \A i \in 1 .. n + 1 : i \in 1 .. n \/ i = n + 1
    BY AppendIs
  <1> HIDE DEF q
  <1> QED BY <1>1 DEF Remembers, q

LEMMA BehindAppend ==
  ASSUME NEW r \in Seq(Calls), NEW c \in Calls, NEW st, Behind(r, st),
         (c[1] = "agss" /\ c[2] \in st.token) => c[3] \in Numbers /\ Pos(st.isn, c[3]) < Pos(st.isn, st.seq)
  PROVE  Behind(Append(r, c), st)
  <1> DEFINE q == Append(r, c)
             n == Len(r)
  <1>1. /\ Len(q) = n + 1 /\ q[n + 1] = c /\ \A i \in 1 .. n : q[i] = r[i]
        /\ \A i \in 1 .. n + 1 : i \in 1 .. n \/ i = n + 1
    BY AppendIs
  <1> HIDE DEF q
  <1> QED BY <1>1 DEF Behind, q

(* Two numbers on, unless that goes past the first. *)
LEMMA PosMoves ==
  ASSUME NEW isn \in Numbers, NEW n \in Numbers,
         Pos(isn, n) <= Pos(isn, WrappingNext(WrappingNext(n)))
  PROVE  /\ Pos(isn, n) < Pos(isn, WrappingNext(n))
         /\ Pos(isn, WrappingNext(n)) < Pos(isn, WrappingNext(WrappingNext(n)))
  BY NumbersAssumption, SMTT(60) DEF Numbers, Pos, WrappingNext

-----------------------------------------------------------------------------
(* The steps that are no calls. *)
Quietly ==
    /\ scene' = scene /\ now' \in Nat /\ ran' = ran
    /\ spent' \in [requests : Nat, tokens : SUBSET Tokens] /\ spent'.tokens = spent.tokens
    /\ rpc' = rpc \/ rpc' = NoSession

LEMMA OthersAreQuiet ==
  ASSUME Types, [Next]_vars
  PROVE  Call \/ Quietly
  <1>0. /\ now \in Nat /\ now + 1 \in Nat
        /\ spent \in [requests : Nat, tokens : SUBSET Tokens]
        /\ [spent EXCEPT !.requests = @ + 1] \in [requests : Nat, tokens : SUBSET Tokens]
        /\ [spent EXCEPT !.requests = @ + 1].tokens = spent.tokens
    BY DEF Types
  <1> DEFINE more == [spent EXCEPT !.requests = @ + 1]
  <1> HIDE DEF more
  <1>1. ASSUME scene' = scene, ran' = ran, now' = now \/ now' = now + 1,
               spent' = spent \/ spent' = more, rpc' = rpc \/ rpc' = NoSession
        PROVE  Quietly
    BY <1>0, <1>1 DEF Quietly, more
  <1>2. ASSUME NEW p \in Procs, Begin(p) PROVE Quietly
    <2>1. scene' = scene /\ ran' = ran /\ now' = now /\ spent' = more /\ rpc' = rpc
      BY <1>2, Zenon DEF Begin, more
    <2> QED BY <1>1, <2>1
  <1>3. ASSUME NEW p \in Procs, Apply(p) PROVE Quietly
    <2>1. scene' = scene /\ ran' = ran /\ now' = now /\ spent' = spent /\ rpc' = rpc
      BY <1>3, Zenon DEF Apply
    <2> QED BY <1>1, <2>1
  <1>4. ASSUME NEW p \in Procs, Recheck(p) PROVE Quietly
    <2>1. scene' = scene /\ ran' = ran /\ now' = now /\ spent' = spent /\ rpc' = rpc
      BY <1>4, Zenon DEF Recheck
    <2> QED BY <1>1, <2>1
  <1>5. ASSUME NEW p \in Procs, Commit(p) PROVE Quietly
    <2>1. scene' = scene /\ ran' = ran /\ now' = now /\ spent' = spent /\ rpc' = rpc
      BY <1>5, Zenon DEF Commit
    <2> QED BY <1>1, <2>1
  <1>6. ASSUME NEW p \in Procs, Kill(p) PROVE Quietly
    <2>1. scene' = scene /\ ran' = ran /\ now' = now /\ spent' = spent /\ rpc' = rpc
      BY <1>6, Zenon DEF Kill
    <2> QED BY <1>1, <2>1
  <1>7. CASE Login
    <2>1. scene' = scene /\ ran' = ran /\ now' = now /\ spent' = more /\ rpc' = rpc
      BY <1>7, Zenon DEF Login, more
    <2> QED BY <1>1, <2>1
  <1>8. CASE Record
    <2>1. scene' = scene /\ ran' = ran /\ now' = now /\ spent' = spent /\ rpc' = rpc
      BY <1>8, Zenon DEF Record
    <2> QED BY <1>1, <2>1
  <1>9. CASE Connect \/ Tick \/ UNCHANGED vars
    <2>1. /\ scene' = scene /\ ran' = ran /\ (now' = now \/ now' = now + 1) /\ spent' = spent
          /\ rpc' = rpc \/ rpc' = NoSession
      BY <1>9, Zenon DEF Connect, Tick, vars
    <2> QED BY <1>1, <2>1
  <1> QED BY <1>2, <1>3, <1>4, <1>5, <1>6, <1>7, <1>8, <1>9 DEF Next

LEMMA QuietKeeps ==
  ASSUME Types, TokensUsed, Quietly
  PROVE  /\ Types' /\ TokensUsed'
         /\ GssInv => GssInv'
         /\ AgssInv => AgssInv'
  <1>1. rpc'.gss \subseteq rpc.gss /\ rpc'.agss \subseteq rpc.agss
    BY DEF Quietly, NoSession
  <1>2. OfSession(rpc')
    BY DEF Quietly, NoSession, OfSession, Types
  <1>3. Types'
    BY <1>2 DEF Quietly, Types
  <1>4. TokensUsed'
    BY <1>1 DEF Quietly, TokensUsed
  <1>5. (GssInv => GssInv') /\ (AgssInv => AgssInv')
    BY <1>1 DEF Quietly, GssInv, AgssInv
  <1> QED BY <1>3, <1>4, <1>5

-----------------------------------------------------------------------------
(* A call. *)

(* What Call does with the answer a. *)
Answered(a, m) ==
    /\ scene' = scene /\ now' = now /\ rpc' = a.sess
    /\ ran' = IF a.ran THEN Append(ran, <<m.flavor, m.token, m.seq>>) ELSE ran
    /\ spent' = IF a.reply = "accepted" THEN [spent EXCEPT !.tokens = @ \cup {m.token}] ELSE spent

LEMMA AnsweredTypes ==
  ASSUME Types, NEW m, OfMessage(m), m.flavor \in {"gss", "agss"}, NEW a, OfSession(a.sess),
         Declined(a) \/ Accepted(a) \/ Carried(a), Answered(a, m)
  PROVE  /\ Types' /\ rpc' = a.sess
         /\ Declined(a) => ran' = ran /\ spent' = spent
         /\ Accepted(a) => ran' = ran /\ spent'.tokens = spent.tokens \cup {m.token}
         /\ Carried(a) => ran' = Append(ran, <<m.flavor, m.token, m.seq>>) /\ spent' = spent
  <1> DEFINE c == <<m.flavor, m.token, m.seq>>
             more == [spent EXCEPT !.tokens = @ \cup {m.token}]
  <1>1. c \in Calls
    BY DEF Calls, OfMessage
  <1>2. Append(ran, c) \in Seq(Calls) /\ ran \in Seq(Calls)
    BY <1>1, AppendIs DEF Types
  <1>3. /\ more \in [requests : Nat, tokens : SUBSET Tokens]
        /\ more.tokens = spent.tokens \cup {m.token}
    BY DEF Types, OfMessage
  <1>4. /\ Declined(a) => ran' = ran /\ spent' = spent
        /\ Accepted(a) => ran' = ran /\ spent' = more
        /\ Carried(a) => ran' = Append(ran, c) /\ spent' = spent
    BY DEF Answered, Declined, Accepted, Carried
  <1> HIDE DEF c, more
  <1>5. ran' \in Seq(Calls) /\ spent' \in [requests : Nat, tokens : SUBSET Tokens]
    BY <1>2, <1>3, <1>4 DEF Types
  <1>6. Types'
    BY <1>5 DEF Types, Answered
  <1> QED BY <1>3, <1>4, <1>6 DEF Answered, c

LEMMA GssStep ==
  ASSUME Types, TokensUsed, GssInv, NEW m, OfMessage(m), m.flavor = "gss", NEW a,
         GssOutcome(a, rpc, m, spent.tokens, ran), Answered(a, m)
  PROVE  /\ Types' /\ TokensUsed' /\ GssInv'
         /\ AgssInv => AgssInv'
  <1>1. /\ OfSession(a.sess) /\ (Declined(a) \/ Accepted(a) \/ Carried(a)) /\ m.flavor \in {"gss", "agss"}
        /\ a.sess.agss = rpc.agss
    BY DEF GssOutcome
  <1>2. /\ Types' /\ rpc' = a.sess /\ rpc'.agss = rpc.agss
        /\ Declined(a) => ran' = ran /\ spent' = spent
        /\ Accepted(a) => ran' = ran /\ spent'.tokens = spent.tokens \cup {m.token}
        /\ Carried(a) => ran' = Append(ran, <<"gss", m.token, m.seq>>) /\ spent' = spent
    BY <1>1, AnsweredTypes
  <1>3. ran \in Seq(Calls)
    BY DEF Types
  <1>4. CASE /\ Declined(a)
             /\ \A gd \in a.sess.gss : Remembers(ran, gd) /\ \E g \in rpc.gss : g.token = gd.token
    <2>1. TokensUsed'
      BY <1>2, <1>4 DEF TokensUsed
    <2>2. GssInv' /\ (AgssInv => AgssInv')
      BY <1>2, <1>4 DEF GssInv, AgssInv
    <2> QED BY <1>2, <2>1, <2>2
  <1>5. CASE Accepted(a) /\ m.token \notin spent.tokens /\ a.sess.gss = {FreshGss(m)}
    <2>1. rpc'.gss = {FreshGss(m)} /\ FreshGss(m).token = m.token
      BY <1>2, <1>5 DEF FreshGss
    <2>2. TokensUsed'
      BY <1>2, <1>5, <2>1 DEF TokensUsed
    <2>3. Remembers(ran, FreshGss(m))
      BY <1>5, <2>1 DEF TokensUsed, Remembers
    <2>4. GssInv' /\ (AgssInv => AgssInv')
      BY <1>2, <1>5, <2>1, <2>3 DEF GssInv, AgssInv
    <2> QED BY <1>2, <2>2, <2>4
  <1>6. ASSUME Carried(a), NEW gd \in GssCtx, a.sess.gss = {gd}, gd.token = m.token,
               \E g \in rpc.gss : g.token = m.token, Remembers(ran, gd), Took(ran, gd, m.seq)
        PROVE  Types' /\ TokensUsed' /\ GssInv' /\ (AgssInv => AgssInv')
    <2> DEFINE c == <<"gss", m.token, m.seq>>
    <2>1. c \in Calls /\ c[1] = "gss" /\ c[2] = m.token /\ c[3] = m.seq
      BY DEF Calls, OfMessage
    <2>2. ran' = Append(ran, c) /\ spent' = spent /\ rpc'.gss = {gd}
      BY <1>2, <1>6
    <2>21. /\ \A i \in 1 .. Len(ran) : ran[i] # c
           /\ m.seq <= gd.seqlast
           /\ gd.seqlast - m.seq < SeqWindow => gd.seqlast - m.seq \in gd.mask
      BY <1>6 DEF Took
    <2> HIDE DEF c
    <2>3. TokensUsed'
      <3>1. m.token \in spent.tokens
        BY <1>6 DEF TokensUsed
      <3>2. \A i \in 1 .. Len(ran') : ran'[i][2] \in spent.tokens
        BY <1>3, <2>1, <2>2, <3>1, AppendIs DEF TokensUsed
      <3> QED BY <1>2, <1>6, <2>2, <3>1, <3>2 DEF TokensUsed
    <2>4. Once(ran', "gss") /\ Once(ran, "gss")
      BY <1>3, <2>1, <2>2, <2>21, OnceAppend DEF GssInv
    <2>5. Remembers(ran', gd)
      BY <1>3, <1>6, <2>1, <2>2, <2>21, RemembersAppend
    <2>6. GssInv'
      BY <2>2, <2>4, <2>5 DEF GssInv
    <2>7. ASSUME AgssInv PROVE AgssInv'
      <3>1. Once(ran', "agss")
        BY <1>3, <2>1, <2>2, <2>7, OnceAppend DEF AgssInv
      <3>2. ASSUME NEW st \in rpc.agss PROVE Behind(ran', st)
        BY <1>3, <2>1, <2>2, <2>7, BehindAppend DEF AgssInv
      <3> QED BY <1>2, <3>1, <3>2 DEF AgssInv
    <2> QED BY <1>2, <2>3, <2>6, <2>7
  <1> QED BY <1>4, <1>5, <1>6 DEF GssOutcome

LEMMA AgssStep ==
  ASSUME Types, TokensUsed, GssInv, NEW m, OfMessage(m), m.flavor = "agss", NEW a, NEW isn,
         AgssOutcome(a, rpc, m, spent.tokens, isn), Answered(a, m)
  PROVE  /\ Types' /\ TokensUsed' /\ GssInv'
         /\ AgssInv /\ NoLap => AgssInv'
  <1>1. /\ OfSession(a.sess) /\ (Declined(a) \/ Accepted(a) \/ Carried(a)) /\ m.flavor \in {"gss", "agss"}
        /\ a.sess.gss = rpc.gss
    BY DEF AgssOutcome
  <1>2. /\ Types' /\ rpc' = a.sess /\ rpc'.gss = rpc.gss
        /\ Declined(a) => ran' = ran /\ spent' = spent
        /\ Accepted(a) => ran' = ran /\ spent'.tokens = spent.tokens \cup {m.token}
        /\ Carried(a) => ran' = Append(ran, <<"agss", m.token, m.seq>>) /\ spent' = spent
    BY <1>1, AnsweredTypes
  <1>3. ran \in Seq(Calls) /\ rpc.agss \subseteq AgssCtx
    BY DEF Types, OfSession
  <1>4. CASE /\ Declined(a)
             /\ \A t \in a.sess.agss : t.token = {} \/ \E st \in rpc.agss : GoesOn(st, t)
    <2>1. TokensUsed'
      BY <1>2, <1>4 DEF TokensUsed, GoesOn
    <2>2. GssInv'
      BY <1>2, <1>4 DEF GssInv
    <2>3. ASSUME AgssInv, NoLap PROVE AgssInv'
      <3>1. ASSUME NEW t \in rpc'.agss PROVE Behind(ran, t)
        <4>1. CASE t.token = {}
          BY <4>1 DEF Behind
        <4>2. ASSUME NEW st \in rpc.agss, GoesOn(st, t) PROVE Behind(ran, t)
          <5>1. Pos(st.isn, st.seq) <= Pos(st.isn, t.seq) /\ t.isn = st.isn /\ t.token = st.token
            BY <2>3, <4>2 DEF NoLap, GoesOn
          <5>2. st.isn \in Numbers /\ st.seq \in Numbers /\ t.seq \in Numbers
            BY <1>2, <1>3, <3>1 DEF AgssCtx, Types, OfSession
          <5> DEFINE from == Pos(st.isn, st.seq)
                     to == Pos(st.isn, t.seq)
          <5>3. from \in Int /\ to \in Int /\ \A n \in Numbers : Pos(st.isn, n) \in Int
            BY <5>2, NumbersAssumption DEF Pos, Numbers
          <5>4. Behind(ran, st)
            BY <2>3 DEF AgssInv
          <5>5. from <= to
            BY <5>1
          <5> HIDE DEF from, to
          <5>6. ASSUME NEW i \in 1 .. Len(ran), ran[i][1] = "agss", ran[i][2] \in t.token
                PROVE  ran[i][3] \in Numbers /\ Pos(t.isn, ran[i][3]) < Pos(t.isn, t.seq)
            <6>1. ran[i][3] \in Numbers /\ Pos(st.isn, ran[i][3]) < from
              BY <5>1, <5>4, <5>6 DEF Behind, from
            <6>2. Pos(st.isn, ran[i][3]) < to
              BY <5>3, <5>5, <6>1
            <6> QED BY <5>1, <6>1, <6>2 DEF to
          <5> QED BY <5>6 DEF Behind
        <4> QED BY <1>2, <1>4, <3>1, <4>1, <4>2
      <3> QED BY <1>2, <1>4, <2>3, <3>1 DEF AgssInv
    <2> QED BY <1>2, <2>1, <2>2, <2>3
  <1>5. CASE /\ Accepted(a) /\ m.token \notin spent.tokens
             /\ \A t \in a.sess.agss : t.token = {m.token}
    <2>1. TokensUsed'
      BY <1>2, <1>5 DEF TokensUsed
    <2>2. GssInv'
      BY <1>2, <1>5 DEF GssInv
    <2>3. \A t \in rpc'.agss : Behind(ran, t)
      BY <1>2, <1>5 DEF TokensUsed, Behind
    <2>4. AgssInv => AgssInv'
      BY <1>2, <1>5, <2>3 DEF AgssInv
    <2> QED BY <1>2, <2>1, <2>2, <2>4
  <1>6. ASSUME Carried(a), NEW st \in rpc.agss, NEW t \in AgssCtx, a.sess.agss = {t}, GoesOn(st, t),
               st.token = {m.token}, m.seq = WrappingNext(st.seq), t.seq = WrappingNext(m.seq)
        PROVE  Types' /\ TokensUsed' /\ GssInv' /\ (AgssInv /\ NoLap => AgssInv')
    <2> DEFINE c == <<"agss", m.token, m.seq>>
    <2>1. c \in Calls /\ c[1] = "agss" /\ c[2] = m.token /\ c[3] = m.seq
      BY DEF Calls, OfMessage
    <2>2. ran' = Append(ran, c) /\ spent' = spent /\ rpc'.agss = {t}
      BY <1>2, <1>6
    <2> HIDE DEF c
    <2>3. TokensUsed'
      <3>1. m.token \in spent.tokens /\ t.token = {m.token}
        BY <1>6 DEF TokensUsed, GoesOn
      <3>2. \A i \in 1 .. Len(ran') : ran'[i][2] \in spent.tokens
        BY <1>3, <2>1, <2>2, <3>1, AppendIs DEF TokensUsed
      <3> QED BY <1>2, <2>2, <3>1, <3>2 DEF TokensUsed
    <2>4. GssInv'
      <3>1. Once(ran', "gss")
        BY <1>3, <2>1, <2>2, OnceAppend DEF GssInv
      <3>2. ASSUME NEW gd \in rpc.gss PROVE Remembers(ran', gd)
        BY <1>3, <2>1, <2>2, RemembersAppend DEF GssInv
      <3> QED BY <1>2, <3>1, <3>2 DEF GssInv
    <2>5. ASSUME AgssInv, NoLap PROVE AgssInv'
      <3>1. st.isn \in Numbers /\ st.seq \in Numbers /\ t.isn = st.isn /\ t.token = st.token
        BY <1>3, <1>6 DEF AgssCtx, GoesOn
      <3>2. Pos(st.isn, st.seq) <= Pos(st.isn, t.seq)
        BY <1>6, <2>2, <2>5, <3>1 DEF NoLap
      <3>3. /\ Pos(st.isn, st.seq) < Pos(st.isn, m.seq)
            /\ Pos(st.isn, m.seq) < Pos(st.isn, t.seq)
        BY <1>6, <3>1, <3>2, PosMoves
      <3>4. m.seq \in Numbers /\ t.seq \in Numbers
        BY <1>6, <3>1, WrappingNextIs
      <3>5. \A n \in Numbers : Pos(st.isn, n) \in Int
        BY <3>1, NumbersAssumption DEF Pos, Numbers
      <3>6. Behind(ran, st)
        BY <2>5 DEF AgssInv
      <3>7. \A i \in 1 .. Len(ran) : ran[i] # c
        <4> SUFFICES ASSUME NEW i \in 1 .. Len(ran), ran[i] = c PROVE FALSE
          OBVIOUS
        <4>1. Pos(st.isn, m.seq) < Pos(st.isn, st.seq)
          BY <1>6, <2>1, <3>6 DEF Behind
        <4> QED BY <3>1, <3>3, <3>4, <3>5, <4>1
      <3>8. Once(ran', "agss")
        BY <1>3, <2>1, <2>2, <2>5, <3>7, OnceAppend DEF AgssInv
      <3>9. Behind(ran, t)
        <4> SUFFICES ASSUME NEW i \in 1 .. Len(ran), ran[i][1] = "agss", ran[i][2] \in t.token
                     PROVE  ran[i][3] \in Numbers /\ Pos(t.isn, ran[i][3]) < Pos(t.isn, t.seq)
          BY DEF Behind
        <4>1. ran[i][3] \in Numbers /\ Pos(st.isn, ran[i][3]) < Pos(st.isn, st.seq)
          BY <3>1, <3>6 DEF Behind
        <4>2. Pos(st.isn, ran[i][3]) < Pos(st.isn, t.seq)
          BY <3>1, <3>2, <3>4, <3>5, <4>1
        <4> QED BY <3>1, <4>1, <4>2
      <3>10. Behind(ran', t)
        <4>1. c[3] \in Numbers /\ Pos(t.isn, c[3]) < Pos(t.isn, t.seq)
          BY <2>1, <3>1, <3>3, <3>4
        <4> QED BY <1>3, <2>1, <2>2, <3>9, <4>1, BehindAppend
      <3> QED BY <2>2, <3>8, <3>10 DEF AgssInv
    <2> QED BY <1>2, <2>3, <2>4, <2>5
  <1> QED BY <1>4, <1>5, <1>6 DEF AgssOutcome

LEMMA CallKeeps ==
  ASSUME Types, TokensUsed, GssInv, Call
  PROVE  /\ Types' /\ TokensUsed' /\ GssInv'
         /\ AgssInv /\ NoLap => AgssInv'
  <1>1. PICK m \in scene.messages, isn \in scene.numbers :
            \E a \in {HandleRpc(rpc, m, spent.tokens, Realm, now, isn, now + 1)} :
               /\ rpc' = a.sess
               /\ ran' = IF a.ran THEN Append(ran, <<m.flavor, m.token, m.seq>>) ELSE ran
               /\ spent' = IF a.reply = "accepted" THEN [spent EXCEPT !.tokens = @ \cup {m.token}] ELSE spent
    BY Zenon DEF Call
  <1> DEFINE a == HandleRpc(rpc, m, spent.tokens, Realm, now, isn, now + 1)
  <1>2. scene' = scene /\ now' = now
    BY Zenon DEF Call
  <1>3. Answered(a, m)
    BY <1>1, <1>2, Zenon DEF Answered
  <1>4. OfMessage(m) /\ isn \in Numbers /\ now \in Nat /\ now + 1 \in Nat /\ OfSession(rpc) /\ ran \in Seq(Calls)
    BY NumbersAssumption DEF Types, OfMessage, Tokens, Numbers
  <1>5. CASE m.flavor = "gss"
    <2>1. a = HandleRpcsecGss(rpc, m, spent.tokens, Realm)
      BY <1>5 DEF HandleRpc
    <2> HIDE DEF a
    <2>2. GssOutcome(a, rpc, m, spent.tokens, ran)
      BY <1>4, <2>1, GssAnswers DEF GssInv
    <2> QED BY <1>3, <1>4, <1>5, <2>2, GssStep
  <1>6. CASE m.flavor = "agss"
    <2>1. a = OfKadm(SvcauthGssapi(rpc, m, spent.tokens, Realm, now, isn, now + 1), m.prog)
      BY <1>6 DEF HandleRpc
    <2> HIDE DEF a
    <2>2. AgssOutcome(a, rpc, m, spent.tokens, isn)
      BY <1>4, <2>1, AgssAnswers, OfKadmAnswers
    <2> QED BY <1>3, <1>4, <1>6, <2>2, AgssStep
  <1>7. CASE m.flavor # "gss" /\ m.flavor # "agss"
    <2>1. a = Answer("weakauth", rpc)
      BY <1>7 DEF HandleRpc
    <2>2. ~ a.ran /\ a.reply # "accepted" /\ a.sess = rpc
      BY <2>1, AnswerIs
    <2> HIDE DEF a
    <2>3. Quietly
      BY <1>2, <1>3, <1>4, <2>2 DEF Answered, Quietly, Types
    <2> QED BY <2>3, QuietKeeps
  <1> QED BY <1>5, <1>6, <1>7

-----------------------------------------------------------------------------
LEMMA InitHolds ==
  ASSUME Init
  PROVE  IInv /\ AgssInv
  <1>1. /\ scene \in Scenes /\ now = 1 /\ rpc = NoSession /\ ran = <<>>
        /\ spent = [requests |-> 0, tokens |-> {}]
    BY DEF Init
  <1>2. rpc.gss = {} /\ rpc.agss = {} /\ OfSession(rpc) /\ Len(ran) = 0 /\ ran \in Seq(Calls)
    BY <1>1 DEF NoSession, OfSession
  <1>3. Types
    BY <1>1, <1>2 DEF Types
  <1>4. TokensUsed /\ GssInv /\ AgssInv
    BY <1>2 DEF TokensUsed, GssInv, AgssInv, Once
  <1> QED BY <1>3, <1>4 DEF IInv

LEMMA NextKeeps ==
  ASSUME IInv, [Next]_vars
  PROVE  IInv' /\ (AgssInv /\ [NoLap]_vars => AgssInv')
  <1>1. Types /\ TokensUsed /\ GssInv
    BY DEF IInv
  <1>2. CASE Quietly
    BY <1>1, <1>2, QuietKeeps DEF IInv
  <1>3. CASE Call
    <2>1. Types' /\ TokensUsed' /\ GssInv' /\ (AgssInv /\ NoLap => AgssInv')
      BY <1>1, <1>3, CallKeeps
    <2>2. ASSUME UNCHANGED vars, AgssInv PROVE AgssInv'
      BY <2>2 DEF vars, AgssInv
    <2> QED BY <2>1, <2>2 DEF IInv
  <1> QED BY <1>1, <1>2, <1>3, OthersAreQuiet

(* Every call of RPCSEC_GSS was carried out once. *)
GssCallsRunOnce == Once(ran, "gss")

(* No call of RPCSEC_GSS is carried out twice, however the messages are    *)
(* repeated and reordered, over however many connections, and whatever the *)
(* other administrators do meanwhile (seq_window_ok takes a number before  *)
(* anything is verified, and a token sets one context up).                 *)
THEOREM WindowIsEnough == Spec => []GssCallsRunOnce
  <1>1. Init => IInv
    BY InitHolds
  <1>2. IInv /\ [Next]_vars => IInv'
    BY NextKeeps
  <1>3. IInv => GssCallsRunOnce
    BY DEF IInv, GssInv, GssCallsRunOnce
  <1> QED BY <1>1, <1>2, <1>3, PTL DEF Spec

(* No call of either flavor is carried out twice, as long as no context of *)
(* AUTH_GSSAPI goes all the way round its 2^32 numbers: agss_established   *)
(* compares a number with the next one alone, which wraps.                 *)
THEOREM NumbersAreEnough == Spec /\ [][NoLap]_vars => []CallsRunOnce
  <1>1. Init => IInv /\ AgssInv
    BY InitHolds
  <1>2. IInv /\ AgssInv /\ [Next]_vars /\ [NoLap]_vars => IInv' /\ AgssInv'
    BY NextKeeps
  <1>3. IInv /\ AgssInv => CallsRunOnce
    <2> SUFFICES ASSUME IInv, AgssInv, NEW i \in DOMAIN ran, NEW j \in DOMAIN ran, ran[i] = ran[j] PROVE i = j
      BY DEF CallsRunOnce, IsInjective
    <2>1. i \in 1 .. Len(ran) /\ j \in 1 .. Len(ran) /\ ran[i][1] \in {"gss", "agss"}
      BY DEF IInv, Types, Calls
    <2>2. Once(ran, "gss") /\ Once(ran, "agss")
      BY DEF IInv, GssInv, AgssInv
    <2> QED BY <2>1, <2>2 DEF Once
  <1> QED BY <1>1, <1>2, <1>3, PTL DEF Spec
=============================================================================
