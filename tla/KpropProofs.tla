----------------------------- MODULE KpropProofs -----------------------------
(***************************************************************************)
(* A sender that reports success has had its dump loaded, whole, for any   *)
(* number of senders, blocks and faults.                                   *)
(***************************************************************************)
EXTENDS Kprop, TLAPS

(* Zenon first, Z3 for what needs arithmetic. *)
USE ZenonT(5), SMTT(20)

Callers == Peers \cup {Primary}
Sent == {p.vers : p \in Callers} \cup {"apreq", "size", "block", "error"}
Told == {"zero", "badvers", "aprep", "error", "size"}
Texts == [from : Senders \cup {Nobody}, ver : Nat, whole : BOOLEAN]

Stages == {"idle", "open", "versions", "apreq", "send", "answer", "done", "failed"}

SndType == snd \in [Senders -> [pc : Stages, runs : Nat, ver : Nat, sent : Nat, peer : Callers]]
NetType == net \in [Senders -> [up : BOOLEAN, toR : Seq(Sent), toS : Seq(Told)]]
HndType ==
    hnd \in [Senders -> [pc : {"none", "queued", "versions", "apreq", "size", "blocks", "loading"},
                         want : {0, Blocks}, got : Nat, lost : BOOLEAN]]
LoadsType == loads \in [Senders -> [pc : {"none", "begun", "read", "ok", "failed"}, text : Texts]]

Types ==
    /\ primary \in [ver : Nat, start : Nat]
    /\ SndType /\ NetType /\ HndType /\ LoadsType
    /\ file \in Texts

(* A sender that still reads what comes. *)
Active(s) == snd[s].pc \in {"versions", "apreq", "send", "answer"}

Failed(c) == \E i \in 1 .. Len(c) : c[i] = "error"

(* A reply that says how much was received comes after the load of the     *)
(* whole dump, or after an error.                                          *)
Earned(c, ok) == \A i \in 1 .. Len(c) : c[i] = "size" => ok \/ \E j \in 1 .. i - 1 : c[j] = "error"

(* One thread at a time is past turn_within, and none serves a sender that *)
(* has yet to connect.                                                     *)
TurnInv(s) ==
    /\ hnd[s].pc \notin {"none", "queued"} => turn = s
    /\ snd[s].pc = "open" => hnd[s].pc = "none"

(* A block that was lost was reported. *)
LossInv(s) ==
    /\ hnd[s].pc = "none" => ~ hnd[s].lost
    /\ hnd[s].pc = "blocks" => hnd[s].want = Blocks
    /\ hnd[s].lost /\ net[s].up /\ Active(s) => Failed(net[s].toS)

(* The thread that waits for kdb5_util waits for the load of its own file. *)
LoadInv(s) ==
    hnd[s].pc = "loading" =>
        /\ file.from = s /\ file.whole = ~ hnd[s].lost
        /\ loads[s].pc = "read" => loads[s].text = file
        /\ loads[s].pc = "ok" /\ file.whole => s \in loaded

ReplyInv(s) ==
    /\ Active(s) => Earned(net[s].toS, s \in loaded)
    /\ snd[s].pc = "done" => s \in loaded

SenderInv(s) == TurnInv(s) /\ LossInv(s) /\ LoadInv(s) /\ ReplyInv(s)

IInv == Types /\ \A s \in Senders : SenderInv(s)

-----------------------------------------------------------------------------
(* What a step leaves alone for a sender q keeps its invariant. *)
LEMMA Kept ==
  ASSUME NEW q \in Senders, SenderInv(q),
         snd'[q] = snd[q], net'[q] = net[q], hnd'[q] = hnd[q], loads'[q] = loads[q],
         turn = q => turn' = q,
         hnd[q].pc = "loading" => file' = file,
         q \in loaded => q \in loaded'
  PROVE  SenderInv(q)'
  <1>1. TurnInv(q)'
    BY DEF SenderInv, TurnInv
  <1>2. LossInv(q)'
    BY DEF SenderInv, LossInv, Active
  <1>3. LoadInv(q)'
    BY DEF SenderInv, LoadInv
  <1>4. ReplyInv(q)'
    BY DEF SenderInv, ReplyInv, Active, Earned
  <1> QED BY <1>1, <1>2, <1>3, <1>4 DEF SenderInv

(* A message less, or one more, on the way to the sender. *)
LEMMA TailEarned ==
  ASSUME NEW c \in Seq(Told), c # <<>>, Head(c) # "error", NEW ok \in BOOLEAN
  PROVE  /\ Tail(c) \in Seq(Told)
         /\ Earned(c, ok) => Earned(Tail(c), ok)
         /\ Failed(c) => Failed(Tail(c))
  <1>1. /\ Tail(c) \in Seq(Told) /\ Len(Tail(c)) = Len(c) - 1 /\ Len(c) \in Nat \ {0}
        /\ \A i \in 1 .. Len(c) - 1 : Tail(c)[i] = c[i + 1]
        /\ Head(c) = c[1]
    OBVIOUS
  <1>2. ASSUME Earned(c, ok) PROVE Earned(Tail(c), ok)
    <2> SUFFICES ASSUME NEW i \in 1 .. Len(c) - 1, Tail(c)[i] = "size", ~ ok
                 PROVE  \E j \in 1 .. i - 1 : Tail(c)[j] = "error"
      BY <1>1 DEF Earned
    <2>1. i + 1 \in 1 .. Len(c) /\ c[i + 1] = "size"
      BY <1>1
    <2>2. PICK j \in 1 .. (i + 1) - 1 : c[j] = "error"
      BY <2>1, <1>2 DEF Earned
    <2>3. j # 1
      BY <2>2, <1>1
    <2>4. j - 1 \in 1 .. i - 1 /\ j - 1 \in 1 .. Len(c) - 1 /\ (j - 1) + 1 = j
      BY <2>3, <1>1
    <2>5. Tail(c)[j - 1] = "error"
      BY <2>4, <2>2, <1>1
    <2> QED BY <2>4, <2>5
  <1>3. ASSUME Failed(c) PROVE Failed(Tail(c))
    <2>1. PICK j \in 1 .. Len(c) : c[j] = "error"
      BY <1>3 DEF Failed
    <2>2. j # 1
      BY <2>1, <1>1
    <2>3. j - 1 \in 1 .. Len(c) - 1 /\ (j - 1) + 1 = j
      BY <2>2, <1>1
    <2>4. Tail(c)[j - 1] = "error"
      BY <2>3, <2>1, <1>1
    <2> QED BY <2>3, <2>4, <1>1 DEF Failed
  <1> QED BY <1>1, <1>2, <1>3

LEMMA AppendEarned ==
  ASSUME NEW c \in Seq(Told), NEW m \in Told, NEW ok \in BOOLEAN
  PROVE  /\ c \o <<m>> = Append(c, m)
         /\ Append(c, m) \in Seq(Told)
         /\ Earned(c, ok) /\ (m = "size" => ok \/ Failed(c)) => Earned(Append(c, m), ok)
         /\ Failed(c) \/ m = "error" => Failed(Append(c, m))
  <1>1. /\ Append(c, m) \in Seq(Told) /\ Len(Append(c, m)) = Len(c) + 1 /\ Len(c) \in Nat
        /\ \A i \in 1 .. Len(c) : Append(c, m)[i] = c[i]
        /\ Append(c, m)[Len(c) + 1] = m
    OBVIOUS
  <1>2. c \o <<m>> = Append(c, m)
    OBVIOUS
  <1>3. ASSUME Earned(c, ok), m = "size" => ok \/ Failed(c) PROVE Earned(Append(c, m), ok)
    <2> SUFFICES ASSUME NEW i \in 1 .. Len(c) + 1, Append(c, m)[i] = "size", ~ ok
                 PROVE  \E j \in 1 .. i - 1 : Append(c, m)[j] = "error"
      BY <1>1 DEF Earned
    <2>1. CASE i = Len(c) + 1
      <3>1. PICK j \in 1 .. Len(c) : c[j] = "error"
        BY <2>1, <1>1, <1>3 DEF Failed
      <3>2. j \in 1 .. i - 1
        BY <2>1, <1>1
      <3> QED BY <3>1, <3>2, <1>1
    <2>2. CASE i # Len(c) + 1
      <3>1. i \in 1 .. Len(c)
        BY <2>2, <1>1
      <3>2. PICK j \in 1 .. i - 1 : c[j] = "error"
        BY <3>1, <1>1, <1>3 DEF Earned
      <3>3. j \in 1 .. Len(c)
        BY <3>1, <1>1
      <3> QED BY <3>2, <3>3, <1>1
    <2> QED BY <2>1, <2>2
  <1>4. ASSUME Failed(c) \/ m = "error" PROVE Failed(Append(c, m))
    <2>1. CASE Failed(c)
      <3>1. PICK j \in 1 .. Len(c) : c[j] = "error"
        BY <2>1 DEF Failed
      <3>2. j \in 1 .. Len(c) + 1
        BY <1>1
      <3> QED BY <3>1, <3>2, <1>1 DEF Failed
    <2>2. CASE m = "error"
      <3>1. Len(c) + 1 \in 1 .. Len(c) + 1
        BY <1>1
      <3> QED BY <2>2, <3>1, <1>1 DEF Failed
    <2> QED BY <1>4, <2>1, <2>2
  <1> QED BY <1>1, <1>2, <1>3, <1>4

-----------------------------------------------------------------------------
(* What the parts of a step do to one sender, and that they leave every    *)
(* other one alone.                                                        *)
Apart(s) == \A q \in Senders \ {s} : snd'[q] = snd[q] /\ net'[q] = net[q] /\ hnd'[q] = hnd[q] /\ loads'[q] = loads[q]

LEMMA EndsIs ==
  ASSUME SndType, NEW s \in Senders, NEW how \in Stages, Ends(s, how)
  PROVE  SndType' /\ snd'[s].pc = how /\ \A q \in Senders \ {s} : snd'[q] = snd[q]
  BY DEF SndType, Ends

LEMMA HangsIs ==
  ASSUME NetType, NEW s \in Senders, Hangs(s)
  PROVE  /\ NetType' /\ net'[s].up = FALSE /\ net'[s].toS = net[s].toS
         /\ \A q \in Senders \ {s} : net'[q] = net[q]
  BY DEF NetType, Hangs

LEMMA ToReplicaIs ==
  ASSUME NetType, NEW s \in Senders, NEW m \in Sent, ToReplica(s, m)
  PROVE  /\ NetType' /\ net'[s].up = net[s].up /\ net'[s].toS = net[s].toS
         /\ \A q \in Senders \ {s} : net'[q] = net[q]
  <1>1. Append(net[s].toR, m) \in Seq(Sent)
    BY DEF NetType
  <1> QED BY <1>1 DEF NetType, ToReplica

LEMMA ReadsIs ==
  ASSUME SndType, NetType, NEW s \in Senders, Heard(s), NEW next \in Stages, NEW answer \in Seq(Sent),
         Reads(s, next, answer)
  PROVE  /\ SndType' /\ snd'[s].pc = next /\ \A q \in Senders \ {s} : snd'[q] = snd[q]
         /\ NetType' /\ net'[s].toS = Tail(net[s].toS) /\ (net'[s].up => net[s].up)
         /\ \A q \in Senders \ {s} : net'[q] = net[q]
  <1>1. Tail(net[s].toS) \in Seq(Told) /\ net[s].toR \o answer \in Seq(Sent)
    BY DEF NetType, Heard
  <1>2. Ends(s, next)
    BY DEF Reads
  <1>3. net' = [net EXCEPT ![s].toS = Tail(@), ![s].toR = @ \o answer, ![s].up = @ /\ next # "failed"]
    BY DEF Reads
  <1>4. /\ NetType' /\ net'[s].toS = Tail(net[s].toS) /\ (net'[s].up => net[s].up)
        /\ \A q \in Senders \ {s} : net'[q] = net[q]
    <2>1. (net[s].up /\ next # "failed") \in BOOLEAN
      BY DEF NetType
    <2> QED BY <1>1, <1>3, <2>1 DEF NetType
  <1> QED BY <1>2, <1>4, EndsIs

LEMMA TakeIs ==
  ASSUME NetType, NEW s \in Senders, Comes(s), NEW reply \in Seq(Told), Take(s, reply)
  PROVE  /\ NetType' /\ net'[s].up = net[s].up /\ net'[s].toS = net[s].toS \o reply
         /\ \A q \in Senders \ {s} : net'[q] = net[q]
  <1>1. Tail(net[s].toR) \in Seq(Sent) /\ net[s].toS \o reply \in Seq(Told)
    BY DEF NetType, Comes
  <1> QED BY <1>1 DEF NetType, Take

LEMMA TakeLastIs ==
  ASSUME NetType, NEW s \in Senders, Comes(s), NEW reply \in Seq(Told), TakeLast(s, reply)
  PROVE  /\ NetType' /\ net'[s].up = FALSE /\ net'[s].toS = net[s].toS \o reply
         /\ \A q \in Senders \ {s} : net'[q] = net[q]
  <1>1. Tail(net[s].toR) \in Seq(Sent) /\ net[s].toS \o reply \in Seq(Told)
    BY DEF NetType, Comes
  <1> QED BY <1>1 DEF NetType, TakeLast

LEMMA LeavesIs ==
  ASSUME HndType, NEW s \in Senders, Leaves(s)
  PROVE  /\ HndType' /\ hnd'[s].pc = "none" /\ hnd'[s].lost = FALSE
         /\ \A q \in Senders \ {s} : hnd'[q] = hnd[q] /\ (turn = q => turn' = q)
  BY DEF HndType, Leaves, GivesBack, NoHandler

LEMMA StageIs ==
  ASSUME HndType, NEW s \in Senders, NEW pc \in {"versions", "apreq", "size", "loading"},
         hnd' = [hnd EXCEPT ![s].pc = pc]
  PROVE  /\ HndType' /\ hnd'[s].pc = pc /\ hnd'[s].lost = hnd[s].lost
         /\ \A q \in Senders \ {s} : hnd'[q] = hnd[q]
  BY DEF HndType

-----------------------------------------------------------------------------
(* A step that leaves all but one sender alone has only that one to show. *)
LEMMA OneSender ==
  ASSUME IInv, NEW s \in Senders, Types', SenderInv(s)', Apart(s),
         \A q \in Senders \ {s} : /\ turn = q => turn' = q
                                  /\ hnd[q].pc = "loading" => file' = file
                                  /\ q \in loaded => q \in loaded'
  PROVE  IInv'
  <1>1. ASSUME NEW q \in Senders \ {s} PROVE SenderInv(q)'
    <2>1. /\ q \in Senders /\ SenderInv(q)
          /\ snd'[q] = snd[q] /\ net'[q] = net[q] /\ hnd'[q] = hnd[q] /\ loads'[q] = loads[q]
          /\ turn = q => turn' = q
          /\ hnd[q].pc = "loading" => file' = file
          /\ q \in loaded => q \in loaded'
      BY DEF IInv, Apart
    <2> QED BY <2>1, Kept
  <1> QED BY <1>1 DEF IInv

(* A step of a sender: what it reads on is earned and no report is lost.   *)
LEMMA SenderStep ==
  ASSUME IInv, NEW s \in Senders, senderLeaves, SndType', NetType',
         \A q \in Senders \ {s} : snd'[q] = snd[q] /\ net'[q] = net[q],
         snd'[s].pc = "open" => hnd[s].pc = "none",
         snd'[s].pc = "done" => s \in loaded,
         snd'[s].pc \in {"versions", "apreq", "send", "answer"} =>
             /\ Active(s) /\ Earned(net'[s].toS, s \in loaded)
             /\ net'[s].up => net[s].up /\ (Failed(net[s].toS) => Failed(net'[s].toS))
  PROVE  IInv'
  <1>1. /\ hnd' = hnd /\ turn' = turn /\ file' = file /\ loads' = loads /\ loaded' = loaded /\ primary' = primary
    BY DEF senderLeaves, senderKeeps
  <1>2. Types'
    BY <1>1 DEF IInv, Types, HndType, LoadsType
  <1>3. TurnInv(s) /\ LossInv(s) /\ LoadInv(s) /\ ReplyInv(s)
    BY DEF IInv, SenderInv
  <1>4. TurnInv(s)' /\ LoadInv(s)'
    BY <1>1, <1>3 DEF TurnInv, LoadInv
  <1>5. LossInv(s)'
    BY <1>1, <1>3 DEF LossInv, Active
  <1>6. ReplyInv(s)'
    BY <1>1 DEF ReplyInv, Active
  <1>7. Apart(s)
    BY <1>1 DEF Apart
  <1> QED BY <1>1, <1>2, <1>4, <1>5, <1>6, <1>7, OneSender DEF SenderInv

(* A step of a thread of kpropd. *)
LEMMA HandlerStep ==
  ASSUME IInv, NEW s \in Senders, handlerLeaves, NetType', HndType', LoadsType', file' \in Texts,
         \A q \in Senders \ {s} : /\ net'[q] = net[q] /\ hnd'[q] = hnd[q] /\ loads'[q] = loads[q]
                                  /\ turn = q => turn' = q
                                  /\ hnd[q].pc = "loading" => file' = file,
         TurnInv(s)', LossInv(s)', LoadInv(s)',
         Active(s) => Earned(net'[s].toS, s \in loaded)
  PROVE  IInv'
  <1>1. primary' = primary /\ snd' = snd /\ loaded' = loaded
    BY DEF handlerLeaves
  <1>2. Types'
    BY <1>1 DEF IInv, Types, SndType
  <1>3. ReplyInv(s)
    BY DEF IInv, SenderInv
  <1>4. ReplyInv(s)'
    BY <1>1, <1>3 DEF ReplyInv, Active
  <1>5. Apart(s)
    BY <1>1 DEF Apart
  <1> QED BY <1>1, <1>2, <1>4, <1>5, OneSender DEF SenderInv

(* A thread that ends: only what it said last is left of it. *)
LEMMA Departs ==
  ASSUME IInv, NEW s \in Senders, handlerLeaves, Leaves(s), file' = file, LoadsType', NetType',
         \A q \in Senders \ {s} : net'[q] = net[q] /\ loads'[q] = loads[q],
         Active(s) => Earned(net'[s].toS, s \in loaded)
  PROVE  IInv'
  <1>1. /\ HndType' /\ hnd'[s].pc = "none" /\ hnd'[s].lost = FALSE
        /\ \A q \in Senders \ {s} : hnd'[q] = hnd[q] /\ (turn = q => turn' = q)
    BY LeavesIs DEF IInv, Types
  <1>2. TurnInv(s)' /\ LossInv(s)' /\ LoadInv(s)'
    BY <1>1 DEF TurnInv, LossInv, LoadInv
  <1>3. file' \in Texts
    BY DEF IInv, Types
  <1> QED BY <1>1, <1>2, <1>3, HandlerStep

(* What a reply other than the size does to the replies on their way. *)
LEMMA Replied ==
  ASSUME NetType, NEW s \in Senders, NEW m \in Told \ {"size"}
  PROVE  /\ <<m>> \in Seq(Told)
         /\ Earned(net[s].toS, s \in loaded) => Earned(net[s].toS \o <<m>>, s \in loaded)
         /\ Failed(net[s].toS) \/ m = "error" => Failed(net[s].toS \o <<m>>)
  <1>1. net[s].toS \in Seq(Told) /\ m \in Told /\ (s \in loaded) \in BOOLEAN
    BY DEF NetType
  <1>2. <<m>> \in Seq(Told)
    BY <1>1
  <1> QED BY <1>1, <1>2, AppendEarned

LEMMA SaysNothing ==
  ASSUME NetType, NEW s \in Senders
  PROVE  <<>> \in Seq(Told) /\ net[s].toS \o <<>> = net[s].toS
  BY DEF NetType
-----------------------------------------------------------------------------
(* The senders' steps. *)
LEMMA RunKeeps ==
  ASSUME IInv, NEW s \in Senders, Run(s)
  PROVE  IInv'
  <1>1. hnd[s].pc = "none" /\ snd' = [snd EXCEPT ![s].pc = "open", ![s].runs = @ + 1] /\ net' = net /\ senderLeaves
    BY DEF Run, Rests
  <1>2. SndType /\ NetType
    BY DEF IInv, Types
  <1>3. SndType' /\ snd'[s].pc = "open" /\ \A q \in Senders \ {s} : snd'[q] = snd[q]
    BY <1>1, <1>2 DEF SndType, Stages
  <1>4. NetType'
    BY <1>1, <1>2 DEF NetType
  <1> QED BY <1>1, <1>3, <1>4, SenderStep

LEMMA OpenKeeps ==
  ASSUME IInv, NEW s \in Senders, Open(s)
  PROVE  IInv'
  <1>1. /\ hnd' = hnd /\ turn' = turn /\ file' = file /\ loads' = loads /\ primary' = primary
        /\ snd[s].pc = "open" /\ loaded' = loaded \ {s}
    BY DEF Open, senderKeeps
  <1>2. SndType /\ NetType /\ primary \in [ver : Nat, start : Nat]
    BY DEF IInv, Types
  <1>3. PICK dump \in Dumps(s) :
          \/ /\ snd' = [snd EXCEPT ![s].pc = "versions", ![s].ver = dump.ver, ![s].sent = 0]
             /\ net' = [net EXCEPT ![s] = [up |-> TRUE, toR |-> <<snd[s].peer.vers>>, toS |-> <<>>]]
          \/ Stops(s)
    BY DEF Open
  <1>4. dump.ver \in Nat
    BY <1>2 DEF Dumps
  <1>5. <<snd[s].peer.vers>> \in Seq(Sent) /\ <<>> \in Seq(Told)
    <2>1. snd[s].peer \in Callers
      BY <1>2 DEF SndType
    <2>2. snd[s].peer.vers \in Sent
      BY <2>1 DEF Sent
    <2> QED BY <2>2
  <1>6. /\ SndType' /\ NetType'
        /\ \A q \in Senders \ {s} : snd'[q] = snd[q] /\ net'[q] = net[q]
        /\ \/ snd'[s].pc = "versions" /\ net'[s].toS = <<>>
           \/ snd'[s].pc = "failed"
    <2>1. CASE Stops(s)
      BY <2>1, <1>2, EndsIs, HangsIs DEF Stops, Stages
    <2>2. CASE /\ snd' = [snd EXCEPT ![s].pc = "versions", ![s].ver = dump.ver, ![s].sent = 0]
               /\ net' = [net EXCEPT ![s] = [up |-> TRUE, toR |-> <<snd[s].peer.vers>>, toS |-> <<>>]]
      <3>1. SndType' /\ snd'[s].pc = "versions" /\ \A q \in Senders \ {s} : snd'[q] = snd[q]
        <4>1. "versions" \in Stages /\ 0 \in Nat
          BY DEF Stages
        <4>2. snd' = [snd EXCEPT ![s] = [@ EXCEPT !.pc = "versions", !.ver = dump.ver, !.sent = 0]]
          BY <2>2, <1>2 DEF SndType
        <4>3. [snd[s] EXCEPT !.pc = "versions", !.ver = dump.ver, !.sent = 0]
                \in [pc : Stages, runs : Nat, ver : Nat, sent : Nat, peer : Callers]
          BY <4>1, <1>2, <1>4 DEF SndType
        <4> QED BY <4>2, <4>3, <1>2 DEF SndType
      <3>2. NetType' /\ net'[s].toS = <<>> /\ \A q \in Senders \ {s} : net'[q] = net[q]
        BY <2>2, <1>2, <1>5 DEF NetType
      <3> QED BY <3>1, <3>2
    <2> QED BY <1>3, <2>1, <2>2
  <1>7. TurnInv(s) /\ LossInv(s) /\ hnd[s].pc = "none" /\ ~ hnd[s].lost
    BY <1>1 DEF IInv, SenderInv, TurnInv, LossInv
  <1>8. TurnInv(s)' /\ LossInv(s)' /\ LoadInv(s)'
    BY <1>1, <1>7 DEF TurnInv, LossInv, LoadInv
  <1>9. ReplyInv(s)'
    BY <1>6 DEF ReplyInv, Active, Earned
  <1>10. Types' /\ Apart(s)
    BY <1>1, <1>6 DEF IInv, Types, HndType, LoadsType, Apart
  <1> QED BY <1>1, <1>8, <1>9, <1>10, OneSender DEF SenderInv

LEMMA SendauthKeeps ==
  ASSUME IInv, NEW s \in Senders, Sendauth(s)
  PROVE  IInv'
  <1>1. SndType /\ NetType /\ ReplyInv(s) /\ Heard(s) /\ senderLeaves /\ Active(s)
    BY DEF IInv, Types, SenderInv, Sendauth, Active
  <1>2. /\ net[s].toS \in Seq(Told) /\ net[s].toS # <<>> /\ (s \in loaded) \in BOOLEAN
        /\ Earned(net[s].toS, s \in loaded)
    BY <1>1 DEF NetType, Heard, ReplyInv
  <1>3. <<"apreq">> \in Seq(Sent) /\ <<"size">> \in Seq(Sent) /\ <<>> \in Seq(Sent)
    BY DEF Sent
  <1>4. CASE Reads(s, "failed", <<>>)
    BY <1>1, <1>3, <1>4, ReadsIs, SenderStep DEF Stages
  <1>5. ASSUME NEW next \in {"apreq", "send"}, NEW answer \in Seq(Sent), Reads(s, next, answer),
               Head(net[s].toS) # "error"
        PROVE  IInv'
    <2>1. next \in Stages
      BY DEF Stages
    <2>2. /\ Earned(Tail(net[s].toS), s \in loaded)
          /\ Failed(net[s].toS) => Failed(Tail(net[s].toS))
      BY <1>2, <1>5, TailEarned
    <2> QED BY <1>1, <1>5, <2>1, <2>2, ReadsIs, SenderStep
  <1>6. \/ Head(net[s].toS) = "zero" /\ Reads(s, "apreq", <<"apreq">>)
        \/ Head(net[s].toS) = "aprep" /\ Reads(s, "send", <<"size">>)
        \/ Reads(s, "failed", <<>>)
    BY DEF Sendauth
  <1> QED BY <1>3, <1>4, <1>5, <1>6

LEMMA BlockKeeps ==
  ASSUME IInv, NEW s \in Senders, Block(s)
  PROVE  IInv'
  <1>1. SndType /\ NetType /\ ReplyInv(s) /\ senderLeaves /\ Active(s) /\ ToReplica(s, "block") /\ "block" \in Sent
    BY DEF IInv, Types, SenderInv, Block, Active, Sent
  <1>2. SndType' /\ snd'[s].pc = "send" /\ \A q \in Senders \ {s} : snd'[q] = snd[q]
    BY <1>1 DEF Block, SndType
  <1> QED BY <1>1, <1>2, ToReplicaIs, SenderStep DEF ReplyInv

LEMMA PrematureEofKeeps ==
  ASSUME IInv, NEW s \in Senders, PrematureEof(s)
  PROVE  IInv'
  <1>1. /\ SndType /\ NetType /\ senderLeaves
        /\ ToReplica(s, "error") /\ "error" \in Sent /\ Ends(s, "failed") /\ "failed" \in Stages
    BY DEF IInv, Types, PrematureEof, Sent, Stages
  <1> QED BY <1>1, ToReplicaIs, EndsIs, SenderStep

LEMMA AllSentKeeps ==
  ASSUME IInv, NEW s \in Senders, AllSent(s)
  PROVE  IInv'
  <1>1. /\ SndType /\ NetType /\ ReplyInv(s) /\ Active(s) /\ senderLeaves
        /\ net' = net /\ Ends(s, "answer") /\ "answer" \in Stages
    BY DEF IInv, Types, SenderInv, AllSent, Stages, Active
  <1>2. NetType'
    BY <1>1 DEF NetType
  <1> QED BY <1>1, <1>2, EndsIs, SenderStep DEF ReplyInv

(* The size is the only answer a sender is done with: it was earned.       *)
LEMMA AnswerKeeps ==
  ASSUME IInv, NEW s \in Senders, Answer(s)
  PROVE  IInv'
  <1>1. SndType /\ NetType /\ ReplyInv(s) /\ Heard(s) /\ senderLeaves /\ Active(s)
    BY DEF IInv, Types, SenderInv, Answer, Active
  <1>2. /\ net[s].toS \in Seq(Told) /\ net[s].toS # <<>>
        /\ Earned(net[s].toS, s \in loaded)
    BY <1>1 DEF NetType, Heard, ReplyInv
  <1>3. ASSUME Head(net[s].toS) = "size" PROVE s \in loaded
    <2>1. 1 \in 1 .. Len(net[s].toS) /\ net[s].toS[1] = "size"
      BY <1>2, <1>3
    <2>2. ~ \E j \in 1 .. 1 - 1 : net[s].toS[j] = "error"
      OBVIOUS
    <2> QED BY <1>2, <2>1, <2>2 DEF Earned
  <1>4. PICK next \in {"done", "failed"} : Reads(s, next, <<>>) /\ (next = "done" => Head(net[s].toS) = "size")
    BY DEF Answer, Answered
  <1>5. next \in Stages /\ <<>> \in Seq(Sent)
    BY DEF Stages
  <1> QED BY <1>1, <1>3, <1>4, <1>5, ReadsIs, SenderStep

LEMMA NoTicketsKeeps ==
  ASSUME IInv, NEW s \in Senders, NoTickets(s)
  PROVE  IInv'
  <1>1. SndType /\ NetType /\ senderLeaves /\ net' = net /\ Ends(s, "failed") /\ "failed" \in Stages
    BY DEF IInv, Types, NoTickets, Stages
  <1>2. NetType'
    BY <1>1 DEF NetType
  <1> QED BY <1>1, <1>2, EndsIs, SenderStep

LEMMA SenderCutKeeps ==
  ASSUME IInv, NEW s \in Senders, SenderCut(s)
  PROVE  IInv'
  <1>1. SndType /\ NetType /\ senderLeaves /\ Hangs(s) /\ Ends(s, "failed") /\ "failed" \in Stages
    BY DEF IInv, Types, SenderCut, Stops, Stages
  <1> QED BY <1>1, HangsIs, EndsIs, SenderStep

LEMMA LosesKeeps ==
  ASSUME IInv, NEW s \in Senders, Loses(s)
  PROVE  IInv'
  <1>1. SndType /\ NetType /\ senderLeaves /\ snd' = snd /\ net' = [net EXCEPT ![s] = Closed] /\ TurnInv(s) /\ ReplyInv(s)
    BY DEF IInv, Types, SenderInv, Loses
  <1>2. <<>> \in Seq(Told) /\ <<>> \in Seq(Sent) /\ Earned(<<>>, s \in loaded)
    BY DEF Earned
  <1>3. /\ NetType' /\ net'[s].toS = <<>> /\ net'[s].up = FALSE
        /\ \A q \in Senders \ {s} : net'[q] = net[q]
    BY <1>1, <1>2 DEF NetType, Closed
  <1>4. SndType'
    BY <1>1 DEF SndType
  <1> QED BY <1>1, <1>2, <1>3, <1>4, SenderStep DEF TurnInv, ReplyInv, Active
-----------------------------------------------------------------------------
(* The steps of kpropd's threads. *)
LEMMA AcceptKeeps ==
  ASSUME IInv, NEW s \in Senders, Accept(s)
  PROVE  IInv'
  <1>1. /\ handlerLeaves /\ turn' = turn /\ file' = file /\ loads' = loads
        /\ hnd[s].pc = "none" /\ snd[s].pc = "versions" /\ snd' = snd
        /\ NetType /\ HndType /\ LoadsType /\ file \in Texts /\ ReplyInv(s)
    BY DEF Accept, handlerLeaves, IInv, Types, SenderInv
  <1>2. LoadsType' /\ file' \in Texts
    BY <1>1 DEF LoadsType
  <1>3. CASE hnd' = [hnd EXCEPT ![s] = [NoHandler EXCEPT !.pc = "queued"]] /\ net' = net
    <2>1. /\ HndType' /\ hnd'[s].pc = "queued" /\ hnd'[s].lost = FALSE
          /\ \A q \in Senders \ {s} : hnd'[q] = hnd[q]
      BY <1>1, <1>3 DEF HndType, NoHandler
    <2>2. TurnInv(s)' /\ LossInv(s)' /\ LoadInv(s)'
      BY <1>1, <2>1 DEF TurnInv, LossInv, LoadInv
    <2>3. NetType'
      BY <1>1, <1>3 DEF NetType
    <2> QED BY <1>1, <1>2, <1>3, <2>1, <2>2, <2>3, HandlerStep DEF ReplyInv
  <1>4. CASE Hangs(s) /\ hnd' = hnd
    <2>1. /\ NetType' /\ net'[s].toS = net[s].toS
          /\ \A q \in Senders \ {s} : net'[q] = net[q]
      BY <1>1, <1>4, HangsIs
    <2>2. HndType'
      BY <1>1, <1>4 DEF HndType
    <2>3. TurnInv(s) /\ LossInv(s)
      BY DEF IInv, SenderInv
    <2>4. TurnInv(s)' /\ LossInv(s)' /\ LoadInv(s)'
      BY <1>1, <1>4, <2>3 DEF TurnInv, LossInv, LoadInv
    <2> QED BY <1>1, <1>2, <1>4, <2>1, <2>2, <2>4, HandlerStep DEF ReplyInv
  <1> QED BY <1>3, <1>4 DEF Accept

(* A thread goes on within its turn, and says m, or nothing. *)
LEMMA Proceeds ==
  ASSUME IInv, NEW s \in Senders, handlerLeaves, turn' = turn, file' = file, loads' = loads,
         NetType', HndType', turn = s,
         \A q \in Senders \ {s} : net'[q] = net[q] /\ hnd'[q] = hnd[q],
         hnd'[s].pc \notin {"none", "loading"}, snd[s].pc # "open",
         hnd'[s].pc = "blocks" => hnd'[s].want = Blocks,
         net'[s].up => net[s].up,
         hnd'[s].lost /\ Active(s) => Failed(net'[s].toS) \/ (hnd[s].lost /\ (Failed(net[s].toS) => Failed(net'[s].toS))),
         Active(s) => Earned(net'[s].toS, s \in loaded)
  PROVE  IInv'
  <1>1. LoadsType' /\ file' \in Texts
    BY DEF IInv, Types, LoadsType
  <1>2. LossInv(s) /\ snd' = snd
    BY DEF IInv, SenderInv, handlerLeaves
  <1>3. TurnInv(s)' /\ LoadInv(s)'
    BY <1>2 DEF TurnInv, LoadInv
  <1>4. LossInv(s)'
    BY <1>2 DEF LossInv, Active
  <1> QED BY <1>1, <1>3, <1>4, HandlerStep

(* What a thread past turn_within has: the turn, and a sender that has     *)
(* connected.                                                              *)
LEMMA HasTurn ==
  ASSUME IInv, NEW s \in Senders, hnd[s].pc \notin {"none", "queued"}
  PROVE  /\ turn = s /\ snd[s].pc # "open"
         /\ NetType /\ HndType /\ LoadsType /\ file \in Texts
         /\ Active(s) => Earned(net[s].toS, s \in loaded)
  BY DEF IInv, Types, SenderInv, TurnInv, ReplyInv

LEMMA TakeTurnKeeps ==
  ASSUME IInv, NEW s \in Senders, TakeTurn(s)
  PROVE  IInv'
  <1>1. /\ handlerLeaves /\ turn' = s /\ turn = Nobody /\ file' = file /\ loads' = loads /\ net' = net
        /\ hnd[s].pc = "queued" /\ hnd' = [hnd EXCEPT ![s].pc = "versions"] /\ snd' = snd
        /\ NetType /\ HndType /\ LoadsType /\ file \in Texts /\ ReplyInv(s) /\ TurnInv(s) /\ LossInv(s)
    BY DEF TakeTurn, TurnFree, handlerLeaves, IInv, Types, SenderInv
  <1>2. LoadsType' /\ file' \in Texts /\ NetType'
    BY <1>1 DEF LoadsType, NetType
  <1>3. /\ HndType' /\ hnd'[s].pc = "versions" /\ hnd'[s].lost = hnd[s].lost
        /\ \A q \in Senders \ {s} : hnd'[q] = hnd[q]
    BY <1>1, StageIs
  <1>4. \A q \in Senders : turn # q
    BY <1>1, NobodyAssumption
  <1>5. TurnInv(s)' /\ LoadInv(s)'
    BY <1>1, <1>3 DEF TurnInv, LoadInv
  <1>6. LossInv(s)'
    BY <1>1, <1>3 DEF LossInv, Active
  <1> QED BY <1>1, <1>2, <1>3, <1>4, <1>5, <1>6, HandlerStep DEF ReplyInv

(* A thread that hangs up without a word. *)
LEMMA HangsUp ==
  ASSUME IInv, NEW s \in Senders, Hangs(s), Leaves(s), file' = file, loads' = loads, handlerLeaves
  PROVE  IInv'
  <1>1. NetType /\ LoadsType /\ ReplyInv(s)
    BY DEF IInv, Types, SenderInv
  <1>2. LoadsType'
    BY <1>1 DEF LoadsType
  <1> QED BY <1>1, <1>2, HangsIs, Departs DEF ReplyInv

LEMMA HangUpsKeep ==
  ASSUME IInv, NEW s \in Senders, NoHostKeys(s) \/ RecvEnds(s) \/ Late(s)
  PROVE  IInv'
  <1>1. Hangs(s) /\ Leaves(s) /\ file' = file /\ loads' = loads /\ handlerLeaves
    BY DEF NoHostKeys, RecvEnds, Late
  <1> QED BY <1>1, HangsUp

(* A thread that answers with its last message. *)
LEMMA SaysLast ==
  ASSUME IInv, NEW s \in Senders, Comes(s), NEW m \in Told \ {"size"}, TakeLast(s, <<m>>), Leaves(s),
         file' = file, loads' = loads, handlerLeaves
  PROVE  IInv'
  <1>1. NetType /\ LoadsType /\ ReplyInv(s)
    BY DEF IInv, Types, SenderInv
  <1>2. LoadsType'
    BY <1>1 DEF LoadsType
  <1>3. <<m>> \in Seq(Told) /\ (Active(s) => Earned(net[s].toS \o <<m>>, s \in loaded))
    BY <1>1, Replied DEF ReplyInv
  <1>4. /\ NetType' /\ net'[s].toS = net[s].toS \o <<m>>
        /\ \A q \in Senders \ {s} : net'[q] = net[q]
    BY <1>1, <1>3, TakeLastIs
  <1> QED BY <1>2, <1>3, <1>4, Departs

(* A thread that answers and goes on to the next message. *)
LEMMA SaysMore ==
  ASSUME IInv, NEW s \in Senders, hnd[s].pc \notin {"none", "queued"}, Comes(s),
         NEW m \in Told \ {"size"}, Take(s, <<m>>),
         NEW pc \in {"apreq", "size"}, hnd' = [hnd EXCEPT ![s].pc = pc],
         turn' = turn, file' = file, loads' = loads, handlerLeaves
  PROVE  IInv'
  <1>1. /\ turn = s /\ snd[s].pc # "open" /\ NetType /\ HndType
        /\ Active(s) => Earned(net[s].toS, s \in loaded)
    BY HasTurn
  <1>2. /\ <<m>> \in Seq(Told) /\ (Active(s) => Earned(net[s].toS \o <<m>>, s \in loaded))
        /\ Failed(net[s].toS) => Failed(net[s].toS \o <<m>>)
    BY <1>1, Replied
  <1>3. /\ NetType' /\ net'[s].toS = net[s].toS \o <<m>> /\ net'[s].up = net[s].up
        /\ \A q \in Senders \ {s} : net'[q] = net[q]
    BY <1>1, <1>2, TakeIs
  <1>4. /\ HndType' /\ hnd'[s].pc = pc /\ hnd'[s].lost = hnd[s].lost
        /\ \A q \in Senders \ {s} : hnd'[q] = hnd[q]
    BY <1>1, StageIs
  <1> QED BY <1>1, <1>2, <1>3, <1>4, Proceeds
LEMMA RecvVersionsKeeps ==
  ASSUME IInv, NEW s \in Senders, RecvVersions(s)
  PROVE  IInv'
  <1>1. /\ hnd[s].pc = "versions" /\ Comes(s) /\ file' = file /\ loads' = loads /\ handlerLeaves
        /\ \/ Take(s, <<"zero">>) /\ hnd' = [hnd EXCEPT ![s].pc = "apreq"] /\ turn' = turn
           \/ TakeLast(s, <<"badvers">>) /\ Leaves(s)
    BY DEF RecvVersions
  <1>2. "zero" \in Told \ {"size"} /\ "badvers" \in Told \ {"size"}
    BY DEF Told
  <1>3. CASE Take(s, <<"zero">>) /\ hnd' = [hnd EXCEPT ![s].pc = "apreq"] /\ turn' = turn
    BY <1>1, <1>2, <1>3, SaysMore
  <1>4. CASE TakeLast(s, <<"badvers">>) /\ Leaves(s)
    BY <1>1, <1>2, <1>4, SaysLast
  <1> QED BY <1>1, <1>3, <1>4

LEMMA RecvApReqKeeps ==
  ASSUME IInv, NEW s \in Senders, RecvApReq(s)
  PROVE  IInv'
  <1>1. /\ hnd[s].pc = "apreq" /\ Comes(s) /\ file' = file /\ loads' = loads /\ handlerLeaves
        /\ \/ TakeLast(s, <<"error">>) /\ Leaves(s)
           \/ TakeLast(s, <<"aprep">>) /\ Leaves(s)
           \/ Take(s, <<"aprep">>) /\ hnd' = [hnd EXCEPT ![s].pc = "size"] /\ turn' = turn
    BY DEF RecvApReq, ErrorReply
  <1>2. "error" \in Told \ {"size"} /\ "aprep" \in Told \ {"size"}
    BY DEF Told
  <1>3. CASE Take(s, <<"aprep">>) /\ hnd' = [hnd EXCEPT ![s].pc = "size"] /\ turn' = turn
    BY <1>1, <1>2, <1>3, SaysMore
  <1>4. CASE TakeLast(s, <<"error">>) /\ Leaves(s)
    BY <1>1, <1>2, <1>4, SaysLast
  <1>5. CASE TakeLast(s, <<"aprep">>) /\ Leaves(s)
    BY <1>1, <1>2, <1>5, SaysLast
  <1> QED BY <1>1, <1>3, <1>4, <1>5

LEMMA RecvSizeKeeps ==
  ASSUME IInv, NEW s \in Senders, RecvSize(s)
  PROVE  IInv'
  <1>1. /\ hnd[s].pc = "size" /\ Comes(s) /\ turn' = turn /\ file' = file /\ loads' = loads /\ handlerLeaves
        /\ Take(s, <<>>) /\ hnd' = [hnd EXCEPT ![s].pc = "blocks", ![s].want = Blocks]
    BY DEF RecvSize
  <1>2. /\ turn = s /\ snd[s].pc # "open" /\ NetType /\ HndType
        /\ Active(s) => Earned(net[s].toS, s \in loaded)
    BY <1>1, HasTurn
  <1>3. <<>> \in Seq(Told) /\ net[s].toS \o <<>> = net[s].toS
    BY <1>2, SaysNothing
  <1>4. /\ NetType' /\ net'[s].toS = net[s].toS /\ net'[s].up = net[s].up
        /\ \A q \in Senders \ {s} : net'[q] = net[q]
    BY <1>1, <1>2, <1>3, TakeIs
  <1>5. /\ HndType' /\ hnd'[s].pc = "blocks" /\ hnd'[s].lost = hnd[s].lost /\ hnd'[s].want = Blocks
        /\ \A q \in Senders \ {s} : hnd'[q] = hnd[q]
    BY <1>1, <1>2 DEF HndType
  <1> QED BY <1>1, <1>2, <1>4, <1>5, Proceeds

(* A block that cannot be written is lost, and reported. *)
LEMMA RecvBlockKeeps ==
  ASSUME IInv, NEW s \in Senders, RecvBlock(s)
  PROVE  IInv'
  <1>1. /\ hnd[s].pc = "blocks" /\ Comes(s) /\ turn' = turn /\ file' = file /\ loads' = loads /\ handlerLeaves
        /\ \/ Take(s, <<>>) /\ hnd' = [hnd EXCEPT ![s].got = @ + 1]
           \/ Take(s, <<"error">>) /\ hnd' = [hnd EXCEPT ![s].got = @ + 1, ![s].lost = TRUE]
    BY DEF RecvBlock, ErrorReply
  <1>2. /\ turn = s /\ snd[s].pc # "open" /\ NetType /\ HndType
        /\ Active(s) => Earned(net[s].toS, s \in loaded)
    BY <1>1, HasTurn
  <1>3. hnd[s].want = Blocks
    BY <1>1 DEF IInv, SenderInv, LossInv
  <1>4. CASE Take(s, <<>>) /\ hnd' = [hnd EXCEPT ![s].got = @ + 1]
    <2>1. <<>> \in Seq(Told) /\ net[s].toS \o <<>> = net[s].toS
      BY <1>2, SaysNothing
    <2>2. /\ NetType' /\ net'[s].toS = net[s].toS /\ net'[s].up = net[s].up
          /\ \A q \in Senders \ {s} : net'[q] = net[q]
      BY <1>1, <1>2, <1>4, <2>1, TakeIs
    <2>3. /\ HndType' /\ hnd'[s].pc = "blocks" /\ hnd'[s].lost = hnd[s].lost /\ hnd'[s].want = Blocks
          /\ \A q \in Senders \ {s} : hnd'[q] = hnd[q]
      BY <1>1, <1>2, <1>3, <1>4 DEF HndType
    <2> QED BY <1>1, <1>2, <2>2, <2>3, Proceeds
  <1>5. CASE Take(s, <<"error">>) /\ hnd' = [hnd EXCEPT ![s].got = @ + 1, ![s].lost = TRUE]
    <2>1. "error" \in Told \ {"size"}
      BY DEF Told
    <2>2. /\ <<"error">> \in Seq(Told) /\ Failed(net[s].toS \o <<"error">>)
          /\ Active(s) => Earned(net[s].toS \o <<"error">>, s \in loaded)
      BY <1>2, <2>1, Replied
    <2>3. /\ NetType' /\ net'[s].toS = net[s].toS \o <<"error">> /\ net'[s].up = net[s].up
          /\ \A q \in Senders \ {s} : net'[q] = net[q]
      BY <1>1, <1>2, <1>5, <2>2, TakeIs
    <2>4. /\ HndType' /\ hnd'[s].pc = "blocks" /\ hnd'[s].want = Blocks
          /\ \A q \in Senders \ {s} : hnd'[q] = hnd[q]
      BY <1>1, <1>2, <1>3, <1>5 DEF HndType
    <2> QED BY <1>1, <1>2, <2>2, <2>3, <2>4, Proceeds
  <1> QED BY <1>1, <1>4, <1>5

(* The file changes under no other thread: the one that renames has the    *)
(* turn.                                                                   *)
LEMMA RenameKeeps ==
  ASSUME IInv, NEW s \in Senders, Rename(s)
  PROVE  IInv'
  <1>1. /\ hnd[s].pc = "blocks" /\ hnd[s].got = hnd[s].want /\ net' = net /\ turn' = turn /\ handlerLeaves
        /\ hnd' = [hnd EXCEPT ![s].pc = "loading"]
        /\ loads' = [loads EXCEPT ![s] = [pc |-> "begun", text |-> NoText]]
        /\ file' = [from |-> s, ver |-> snd[s].ver, whole |-> hnd[s].got = Blocks /\ ~ hnd[s].lost]
    BY DEF Rename, Received
  <1>2. /\ turn = s /\ snd[s].pc # "open" /\ NetType /\ HndType /\ LoadsType /\ SndType
        /\ Active(s) => Earned(net[s].toS, s \in loaded)
    BY <1>1, HasTurn DEF IInv, Types
  <1>3. LossInv(s) /\ snd' = snd
    BY <1>1 DEF IInv, SenderInv, handlerLeaves
  <1>4. hnd[s].got = Blocks /\ hnd[s].lost \in BOOLEAN /\ snd[s].ver \in Nat
    BY <1>1, <1>2, <1>3 DEF LossInv, HndType, SndType
  <1>5. file' \in Texts /\ file'.from = s /\ file'.whole = ~ hnd[s].lost
    <2>1. file' = [from |-> s, ver |-> snd[s].ver, whole |-> ~ hnd[s].lost] /\ (~ hnd[s].lost) \in BOOLEAN
      BY <1>1, <1>4
    <2> QED BY <1>4, <2>1 DEF Texts
  <1>6. NoText \in Texts
    BY DEF NoText, Texts
  <1>7. LoadsType' /\ loads'[s].pc = "begun" /\ \A q \in Senders \ {s} : loads'[q] = loads[q]
    BY <1>1, <1>2, <1>6 DEF LoadsType
  <1>8. /\ HndType' /\ hnd'[s].pc = "loading" /\ hnd'[s].lost = hnd[s].lost
        /\ \A q \in Senders \ {s} : hnd'[q] = hnd[q]
    BY <1>1, <1>2, StageIs
  <1>9. NetType'
    BY <1>1, <1>2 DEF NetType
  <1>10. \A q \in Senders \ {s} : hnd[q].pc # "loading"
    <2> SUFFICES ASSUME NEW q \in Senders \ {s}, hnd[q].pc = "loading" PROVE FALSE
      OBVIOUS
    <2>1. turn = q
      BY HasTurn
    <2> QED BY <1>2, <2>1
  <1>11. TurnInv(s)' /\ LoadInv(s)'
    BY <1>1, <1>2, <1>3, <1>5, <1>7, <1>8 DEF TurnInv, LoadInv
  <1>12. LossInv(s)'
    BY <1>1, <1>3, <1>8 DEF LossInv, Active
  <1> QED BY <1>1, <1>2, <1>5, <1>7, <1>8, <1>9, <1>10, <1>11, <1>12, HandlerStep
-----------------------------------------------------------------------------
(* The steps of kdb5_util, its status, and the answer. *)
LEMMA LoadStep ==
  ASSUME IInv, NEW s \in Senders, LoadsType',
         snd' = snd, net' = net, hnd' = hnd, turn' = turn, file' = file, primary' = primary,
         \A q \in Senders \ {s} : loads'[q] = loads[q],
         \A q \in Senders : q \in loaded => q \in loaded',
         LoadInv(s)'
  PROVE  IInv'
  <1>1. Types' /\ Apart(s)
    BY DEF IInv, Types, SndType, NetType, HndType, Apart
  <1>2. TurnInv(s) /\ LossInv(s) /\ ReplyInv(s)
    BY DEF IInv, SenderInv
  <1>3. TurnInv(s)'
    BY <1>2 DEF TurnInv
  <1>4. LossInv(s)'
    BY <1>2 DEF LossInv, Active
  <1>5. ReplyInv(s)'
    BY <1>2 DEF ReplyInv, Active, Earned
  <1> QED BY <1>1, <1>3, <1>4, <1>5, OneSender DEF SenderInv

(* kdb5_util reads the file of the thread that waits for it. *)
LEMMA LoadReadsKeeps ==
  ASSUME IInv, NEW s \in Senders, LoadReads(s)
  PROVE  IInv'
  <1>1. /\ snd' = snd /\ net' = net /\ hnd' = hnd /\ turn' = turn /\ file' = file /\ primary' = primary
        /\ loaded' = loaded /\ loads' = [loads EXCEPT ![s] = [pc |-> "read", text |-> file]]
    BY DEF LoadReads
  <1>2. LoadsType /\ file \in Texts /\ LoadInv(s)
    BY DEF IInv, Types, SenderInv
  <1>3. /\ LoadsType' /\ loads'[s] = [pc |-> "read", text |-> file]
        /\ \A q \in Senders \ {s} : loads'[q] = loads[q]
    BY <1>1, <1>2 DEF LoadsType
  <1>4. LoadInv(s)'
    BY <1>1, <1>2, <1>3 DEF LoadInv
  <1> QED BY <1>1, <1>3, <1>4, LoadStep

LEMMA LoadFailsKeeps ==
  ASSUME IInv, NEW s \in Senders, LoadFails(s)
  PROVE  IInv'
  <1>1. /\ snd' = snd /\ net' = net /\ hnd' = hnd /\ turn' = turn /\ file' = file /\ primary' = primary
        /\ loaded' = loaded /\ loads' = [loads EXCEPT ![s].pc = "failed"]
    BY DEF LoadFails
  <1>2. LoadsType /\ LoadInv(s)
    BY DEF IInv, Types, SenderInv
  <1>3. LoadsType' /\ loads'[s].pc = "failed" /\ \A q \in Senders \ {s} : loads'[q] = loads[q]
    BY <1>1, <1>2 DEF LoadsType
  <1>4. LoadInv(s)'
    BY <1>1, <1>2, <1>3 DEF LoadInv
  <1> QED BY <1>1, <1>3, <1>4, LoadStep

LEMMA LoadPromotesKeeps ==
  ASSUME IInv, NEW s \in Senders, LoadPromotes(s)
  PROVE  IInv'
  <1>1. /\ snd' = snd /\ net' = net /\ hnd' = hnd /\ turn' = turn /\ file' = file /\ primary' = primary
        /\ loads[s].pc = "read" /\ loads' = [loads EXCEPT ![s].pc = "ok"]
        /\ \A q \in Senders : q \in loaded => q \in loaded'
        /\ loads[s].text.whole /\ loads[s].text.from = s => s \in loaded'
    BY DEF LoadPromotes
  <1>2. LoadsType /\ LoadInv(s)
    BY DEF IInv, Types, SenderInv
  <1>3. LoadsType' /\ loads'[s].pc = "ok" /\ \A q \in Senders \ {s} : loads'[q] = loads[q]
    BY <1>1, <1>2 DEF LoadsType
  <1>4. LoadInv(s)'
    BY <1>1, <1>2, <1>3 DEF LoadInv
  <1> QED BY <1>1, <1>3, <1>4, LoadStep

LEMMA OrphanKeeps ==
  ASSUME IInv, NEW s \in Senders, Orphan(s)
  PROVE  IInv'
  <1>1. /\ snd' = snd /\ net' = net /\ hnd' = hnd /\ turn' = turn /\ file' = file /\ primary' = primary
        /\ loaded' = loaded /\ hnd[s].pc = "none"
        /\ loads' = [loads EXCEPT ![s] = [pc |-> "none", text |-> NoText]]
    BY DEF Orphan
  <1>2. LoadsType /\ NoText \in Texts
    BY DEF IInv, Types, NoText, Texts
  <1>3. LoadsType' /\ \A q \in Senders \ {s} : loads'[q] = loads[q]
    BY <1>1, <1>2 DEF LoadsType
  <1>4. LoadInv(s)'
    BY <1>1 DEF LoadInv
  <1> QED BY <1>1, <1>3, <1>4, LoadStep

(* The size is sent after a load that went well: of the whole dump, or the *)
(* sender has an error to read before it.                                  *)
LEMMA AckKeeps ==
  ASSUME IInv, NEW s \in Senders, Ack(s)
  PROVE  IInv'
  <1>1. /\ hnd[s].pc = "loading" /\ Leaves(s) /\ file' = file /\ handlerLeaves
        /\ net' = [net EXCEPT ![s].up = FALSE,
                              ![s].toS = IF loads[s].pc = "ok" /\ net[s].up THEN Append(@, "size") ELSE @]
        /\ loads' = [loads EXCEPT ![s] = [pc |-> "none", text |-> NoText]]
    BY DEF Ack, LoadOk
  <1>2. /\ NetType /\ LoadsType /\ HndType /\ NoText \in Texts /\ "size" \in Told
        /\ LoadInv(s) /\ LossInv(s)
        /\ Active(s) => Earned(net[s].toS, s \in loaded)
    BY DEF IInv, Types, NoText, Texts, Told, SenderInv, ReplyInv
  <1>3. LoadsType' /\ \A q \in Senders \ {s} : loads'[q] = loads[q]
    BY <1>1, <1>2 DEF LoadsType
  <1>4. CASE loads[s].pc = "ok" /\ net[s].up
    <2>1. net' = [net EXCEPT ![s].up = FALSE, ![s].toS = Append(@, "size")]
      BY <1>1, <1>4
    <2>2. net[s].toS \in Seq(Told) /\ (s \in loaded) \in BOOLEAN
      BY <1>2 DEF NetType
    <2>3. Append(net[s].toS, "size") \in Seq(Told)
      BY <1>2, <2>2
    <2>4. /\ NetType' /\ net'[s].toS = Append(net[s].toS, "size")
          /\ \A q \in Senders \ {s} : net'[q] = net[q]
      BY <1>2, <2>1, <2>3 DEF NetType
    <2>5. Active(s) => s \in loaded \/ Failed(net[s].toS)
      BY <1>1, <1>2, <1>4 DEF LoadInv, LossInv
    <2>6. Active(s) => Earned(Append(net[s].toS, "size"), s \in loaded)
      BY <1>2, <2>2, <2>5, AppendEarned
    <2> QED BY <1>1, <1>3, <2>4, <2>6, Departs
  <1>5. CASE ~ (loads[s].pc = "ok" /\ net[s].up)
    <2>1. net' = [net EXCEPT ![s].up = FALSE, ![s].toS = @]
      BY <1>1, <1>5
    <2>2. /\ NetType' /\ net'[s].toS = net[s].toS
          /\ \A q \in Senders \ {s} : net'[q] = net[q]
      BY <1>2, <2>1 DEF NetType
    <2> QED BY <1>1, <1>2, <1>3, <2>2, Departs
  <1> QED BY <1>4, <1>5

-----------------------------------------------------------------------------
(* The primary's changes and the poller's steps.  The first few change     *)
(* nothing that the invariant speaks of but the primary's versions.        *)
LEMMA OthersKeep ==
  ASSUME IInv, primary' \in [ver : Nat, start : Nat],
         snd' = snd, net' = net, hnd' = hnd, turn' = turn, file' = file, loads' = loads, loaded' = loaded
  PROVE  IInv'
  <1>1. Types'
    BY DEF IInv, Types, SndType, NetType, HndType, LoadsType
  <1>2. ASSUME NEW q \in Senders PROVE SenderInv(q)'
    <2>1. SenderInv(q)
      BY DEF IInv
    <2> QED BY <2>1, Kept
  <1> QED BY <1>1, <1>2 DEF IInv

LEMMA ChangeKeeps ==
  ASSUME IInv, Change
  PROVE  IInv'
  <1>1. PICK start \in {primary.start, primary.ver + 1} : primary' = [ver |-> primary.ver + 1, start |-> start]
    BY DEF Change
  <1>2. primary \in [ver : Nat, start : Nat]
    BY DEF IInv, Types
  <1>3. primary' \in [ver : Nat, start : Nat]
    BY <1>1, <1>2
  <1> QED BY <1>3, OthersKeep DEF Change

LEMMA PollsKeep ==
  ASSUME IInv, KipropInit \/ InitFails \/ Poll \/ PollFails \/ Restart \/ Expires
  PROVE  IInv'
  <1>1. /\ primary' = primary
        /\ snd' = snd /\ net' = net /\ hnd' = hnd /\ turn' = turn /\ file' = file /\ loads' = loads /\ loaded' = loaded
    BY DEF KipropInit, InitFails, Poll, PollFails, Restart, Expires, pollLeaves
  <1> QED BY <1>1, OthersKeep DEF IInv, Types

(* kadmind starts to send only when it rests. *)
LEMMA PollResyncKeeps ==
  ASSUME IInv, PollResync
  PROVE  IInv'
  <1> DEFINE s == Kadmind
  <1>1. /\ s \in Senders /\ hnd[s].pc = "none" /\ snd' = [snd EXCEPT ![s].pc = "open"]
        /\ primary' = primary /\ net' = net /\ hnd' = hnd /\ turn' = turn
        /\ file' = file /\ loads' = loads /\ loaded' = loaded
    BY DEF PollResync, Rests, pollLeaves, Senders
  <1> HIDE DEF s
  <1>2. SndType /\ "open" \in Stages
    BY DEF IInv, Types, Stages
  <1>3. SndType' /\ snd'[s].pc = "open" /\ \A q \in Senders \ {s} : snd'[q] = snd[q]
    BY <1>1, <1>2 DEF SndType
  <1>4. Types' /\ Apart(s)
    BY <1>1, <1>3 DEF IInv, Types, NetType, HndType, LoadsType, Apart
  <1>5. LossInv(s) /\ ~ hnd[s].lost
    BY <1>1 DEF IInv, SenderInv, LossInv
  <1>6. TurnInv(s)' /\ LossInv(s)' /\ LoadInv(s)' /\ ReplyInv(s)'
    BY <1>1, <1>3, <1>5 DEF TurnInv, LossInv, LoadInv, ReplyInv, Active
  <1> QED BY <1>1, <1>4, <1>6, OneSender DEF SenderInv

(* kpropd ends, and every thread with it. *)
LEMMA PollEndsKeeps ==
  ASSUME IInv, PollEnds
  PROVE  IInv'
  <1>1. /\ primary' = primary /\ snd' = snd /\ file' = file /\ loads' = loads /\ loaded' = loaded
        /\ hnd' = [s \in Senders |-> NoHandler]
        /\ net' = [s \in Senders |-> [net[s] EXCEPT !.up = FALSE]]
    BY DEF PollEnds
  <1>2. NetType
    BY DEF IInv, Types
  <1>3. NetType' /\ \A q \in Senders : net'[q].toS = net[q].toS
    BY <1>1, <1>2 DEF NetType
  <1>4. HndType' /\ \A q \in Senders : hnd'[q].pc = "none" /\ hnd'[q].lost = FALSE
    BY <1>1 DEF HndType, NoHandler
  <1>5. Types'
    BY <1>1, <1>3, <1>4 DEF IInv, Types, SndType, LoadsType
  <1>6. ASSUME NEW q \in Senders PROVE SenderInv(q)'
    <2>1. ReplyInv(q)
      BY DEF IInv, SenderInv
    <2>2. TurnInv(q)' /\ LossInv(q)' /\ LoadInv(q)'
      BY <1>4 DEF TurnInv, LossInv, LoadInv
    <2>3. ReplyInv(q)'
      BY <1>1, <1>3, <2>1 DEF ReplyInv, Active
    <2> QED BY <2>2, <2>3 DEF SenderInv
  <1> QED BY <1>5, <1>6 DEF IInv

-----------------------------------------------------------------------------
LEMMA InitHolds ==
  ASSUME Init
  PROVE  IInv
  <1>1. PICK peers \in [Commands -> Peers] :
          snd = [s \in Senders |-> [pc |-> "idle", runs |-> 0, ver |-> 0, sent |-> 0,
                                   peer |-> IF s = Kadmind THEN Primary ELSE peers[s]]]
    BY DEF Init
  <1>2. SndType /\ \A s \in Senders : snd[s].pc = "idle"
    <2>1. \A s \in Senders : (IF s = Kadmind THEN Primary ELSE peers[s]) \in Callers
      BY DEF Senders, Callers
    <2>2. "idle" \in Stages /\ 0 \in Nat
      BY DEF Stages
    <2> QED BY <1>1, <2>1, <2>2 DEF SndType
  <1>3. NetType
    <2>1. <<>> \in Seq(Sent) /\ <<>> \in Seq(Told)
      OBVIOUS
    <2> QED BY <2>1 DEF Init, NetType, Closed
  <1>4. HndType /\ \A s \in Senders : hnd[s].pc = "none" /\ hnd[s].lost = FALSE
    BY DEF Init, HndType, NoHandler
  <1>5. LoadsType /\ file \in Texts
    BY DEF Init, LoadsType, NoText, Texts
  <1>6. primary \in [ver : Nat, start : Nat]
    BY DEF Init
  <1>7. \A s \in Senders : SenderInv(s)
    BY <1>2, <1>4 DEF SenderInv, TurnInv, LossInv, LoadInv, ReplyInv, Active
  <1> QED BY <1>2, <1>3, <1>4, <1>5, <1>6, <1>7 DEF IInv, Types

LEMMA SendsKeep ==
  ASSUME IInv, NEW s \in Senders, Sends(s)
  PROVE  IInv'
  BY OpenKeeps, SendauthKeeps, BlockKeeps, AllSentKeeps, AnswerKeeps, SenderCutKeeps DEF Sends

LEMMA ReceivesKeep ==
  ASSUME IInv, NEW s \in Senders, Receives(s)
  PROVE  IInv'
  BY AcceptKeeps, TakeTurnKeeps, RecvVersionsKeeps, RecvApReqKeeps, RecvSizeKeeps, RecvBlockKeeps,
     HangUpsKeep, RenameKeeps, AckKeeps, OrphanKeeps DEF Receives

LEMMA BreaksKeep ==
  ASSUME IInv, NEW s \in Senders, Breaks(s)
  PROVE  IInv'
  BY NoTicketsKeeps, PrematureEofKeeps, LosesKeeps, HangUpsKeep, LoadFailsKeeps DEF Breaks

LEMMA NextKeeps ==
  ASSUME IInv, [Next]_vars
  PROVE  IInv'
  <1>1. CASE Change
    BY <1>1, ChangeKeeps
  <1>2. CASE Polls \/ Expires \/ InitFails \/ PollFails \/ PollEnds \/ Restart
    BY <1>2, PollsKeep, PollResyncKeeps, PollEndsKeeps DEF Polls
  <1>3. ASSUME NEW s \in Commands, Run(s) PROVE IInv'
    BY <1>3, RunKeeps DEF Senders
  <1>4. ASSUME NEW s \in Senders, Sends(s) \/ Receives(s) \/ Loading(s) \/ Breaks(s) PROVE IInv'
    BY <1>4, SendsKeep, ReceivesKeep, BreaksKeep, LoadReadsKeeps, LoadPromotesKeeps DEF Loading
  <1>5. CASE UNCHANGED vars
    <2>1. /\ primary' = primary
          /\ snd' = snd /\ net' = net /\ hnd' = hnd /\ turn' = turn /\ file' = file /\ loads' = loads /\ loaded' = loaded
      BY <1>5 DEF vars
    <2> QED BY <2>1, OthersKeep DEF IInv, Types
  <1> QED BY <1>1, <1>2, <1>3, <1>4, <1>5 DEF Next

(* kprop, and kadmind's thread, end with success only when the dump of     *)
(* that transfer was loaded, whole, by the kdb5_util kpropd started for it *)
(* (SuccessMeansLoaded): whatever the number of senders, the size of the   *)
(* dump and the faults, with threads that outlive their deadline and a     *)
(* kpropd that ends in between.                                            *)
THEOREM SuccessIsEarned ==
  Spec => []SuccessMeansLoaded
  <1>1. Init => IInv
    BY InitHolds
  <1>2. IInv /\ [Next]_vars => IInv'
    BY NextKeeps
  <1>3. IInv => SuccessMeansLoaded
    BY DEF IInv, SenderInv, ReplyInv, SuccessMeansLoaded
  <1> QED BY <1>1, <1>2, <1>3, PTL DEF Spec
=============================================================================
