-------------------------------- MODULE Ulog --------------------------------
(***************************************************************************)
(* The primary's update log (principal.ulog, krb5-kdc/src/ulog.rs) beside  *)
(* the database it describes.  The log is a ring of entries behind a       *)
(* header; a replica that names the last entry it holds is answered with   *)
(* the entries after it, with "nothing new", or with "take a full dump".   *)
(*                                                                         *)
(* The file changes one write at a time, under the log's exclusive lock.   *)
(* An operation is therefore the list todo of the writes it has still to   *)
(* make: a step makes the first, an I/O error fails it, a kill drops them  *)
(* all and leaves the file as it is.  The database is its version number:  *)
(* every principal put, policy change and load makes the next version, and *)
(* an entry carries the version it leads to.                               *)
(***************************************************************************)
EXTENDS Integers, Sequences, SequencesExt

CONSTANTS
  Begins,    \* serials the log may begin at: 1, or what set_last left
  Entries,   \* slots in the ring (iprop_ulogsize)
  MaxSno,    \* stands for u32::MAX, the last serial number
  MaxClock,  \* bound on the times taken from UlogTime::now()
  MaxVer     \* bound on the database's versions

VARIABLES
  hdr,     \* the header on disk
  slot,    \* the ring on disk
  ver,     \* the version of the database on disk
  todo,    \* the writes the exclusive holder of the log still has to make
  holder,  \* which operation that is
  dbHeld,  \* it also holds the database's exclusive lock
  load,    \* where a full `kdb5_util load' is
  rep,     \* what some replica holds: the stamp it names and its version
  behind,  \* history: entries logged since rep, Lost once the log restarts
  missed,  \* history: since rep was dumped or the log last started over, a
           \* load was stopped with its database in place and the log as it was
  clock    \* the next time UlogTime::now() returns

vars == <<hdr, slot, ver, todo, holder, dbHeld, load, rep, behind, missed, clock>>

-----------------------------------------------------------------------------
(* The ring and its header.                                                *)

Stamp == [sno : 0..MaxSno, time : 0..MaxClock]
Entry == [sno : 0..MaxSno, time : 0..MaxClock, ver : 0..MaxVer]
Header == [num : 0..Entries, first : Stamp, last : Stamp, stable : BOOLEAN]
Ring == [0..(Entries - 1) -> Entry]

StampOf(e) == [sno |-> e.sno, time |-> e.time]

(* The slot of a serial.  Serial 0 (first contact) never reaches it:       *)
(* sno_status refuses a serial below first_sno first.                      *)
Index(sno) == (sno - 1) % Entries

(* check_sno: the slot still holds that very entry.                        *)
CheckSno(s, st) == StampOf(s[Index(st.sno)]) = st

(* sno_status: what a replica that names st is told.                       *)
SnoStatus(h, s, st) ==
  IF st = h.last THEN "nil"
  ELSE IF \/ h.num = 0
          \/ st.sno > h.last.sno
          \/ st.sno < h.first.sno
          \/ ~CheckSno(s, st)
       THEN "resync"
       ELSE "ok"

(* The loop of get_entries: the slots after st, in order.                  *)
Following(h, s, st) == [i \in 1..(h.last.sno - st.sno) |-> s[Index(st.sno + i)]]

(* get_entries: a slot without the next serial is Corrupt, which kadmind   *)
(* answers as UPDATE_ERROR.                                                *)
Answer(h, s, st) ==
  LET after == Following(h, s, st)
  IN  IF SnoStatus(h, s, st) # "ok" THEN SnoStatus(h, s, st)
      ELSE IF \E i \in DOMAIN after : after[i].sno # st.sno + i
           THEN "error"
           ELSE "ok"

-----------------------------------------------------------------------------
(* An operation under construction: mem is the header it keeps in memory,  *)
(* ring the slots as its writes leave them, at the version its notes lead  *)
(* to, out the writes.  A write names the part of the operation that makes *)
(* it, since what follows an error depends on the part.                    *)

Batch == [mem |-> hdr, ring |-> slot, at |-> ver, now |-> clock, out |-> <<>>]

Part(w) == w[1]
To(w) == w[2]
Val(w) == w[3]

Emit(b, part, to, val) ==
  [b EXCEPT !.out = Append(@, <<part, to, val>>)]

PutSlot(b, part, e) ==
  Emit([b EXCEPT !.ring[Index(e.sno)] = e], part, "slot", e)

SetState(b, part, stable) ==
  Emit([b EXCEPT !.mem.stable = stable], part, "state", stable)

(* set_dummy: the slot is written, and synced, before the header is.       *)
SetDummy(b, part, st) ==
  [PutSlot(b, part, [sno |-> st.sno, time |-> st.time, ver |-> 0])
     EXCEPT !.mem = [@ EXCEPT !.num = 1, !.first = st, !.last = st]]

(* reset: a fresh, stable log whose one entry is the dummy 1.              *)
Reset(b, part) ==
  LET d == SetDummy(b, part, [sno |-> 1, time |-> b.now])
      h == [d.mem EXCEPT !.stable = TRUE]
  IN  Emit([d EXCEPT !.mem = h, !.now = @ + 1], part, "hdr", h)

(* UlogBatch::restart: reset leaves the log stable, the batch does not.    *)
Restart(b) == SetState(Reset(b, "notes"), "notes", FALSE)

(* Mutant of put_entry: the first entry taken one slot too far.            *)
PutEntryFirstLate(b, e) ==
  LET p == PutSlot(b, "notes", e)
      h == [p.mem EXCEPT !.last = StampOf(e)]
  IN  [p EXCEPT !.at = e.ver,
                !.now = @ + 1,
                !.mem = IF h.num < Entries THEN [h EXCEPT !.num = @ + 1]
                        ELSE [h EXCEPT !.first = StampOf(p.ring[(e.sno + 1) % Entries])]]

(* put_entry: the header in memory follows; a full ring's first entry is   *)
(* the one in the slot after the new one.                                  *)
PutEntry(b, e) ==
  LET p == PutSlot(b, "notes", e)
      h == [p.mem EXCEPT !.last = StampOf(e)]
  IN  [p EXCEPT !.at = e.ver,
                !.now = @ + 1,
                !.mem =
         IF h.num = 0 THEN [h EXCEPT !.num = 1, !.first = StampOf(e)]
         ELSE IF h.num < Entries THEN [h EXCEPT !.num = @ + 1]
         ELSE [h EXCEPT !.first = StampOf(p.ring[e.sno % Entries])]]

(* UlogBatch::add_update: the serial after u32::MAX starts the log over.   *)
AddUpdate(b) ==
  LET r == IF b.mem.last.sno = MaxSno THEN Restart(b) ELSE b
  IN  PutEntry(r, [sno |-> r.mem.last.sno + 1, time |-> r.now, ver |-> r.at + 1])

(* A policy change is not carried by an entry: it starts the log over.     *)
AddReset(b) == [Restart(b) EXCEPT !.at = @ + 1]

AddNote(b, note) == IF note = "put" THEN AddUpdate(b) ELSE AddReset(b)

(* Ulog::begin: an unstable log starts over; the batch makes it unstable.  *)
Begin(b) ==
  SetState(IF b.mem.stable THEN b ELSE Reset(b, "begin"), "begin", FALSE)

(* stage_notes, then stage: the unstable header before the database.       *)
Stage(b, notes) ==
  LET n == FoldLeft(AddNote, Begin(b), notes)
  IN  Emit(n, "notes", "hdr", n.mem)

(* write_staged: the database, the release of its lock, then finish.  A    *)
(* put that must stick (save_through, load -update) finishes in the lock.  *)
Logged(b, through) ==
  LET d == Emit(b, "db", "db", b.at)
      h == [b.mem EXCEPT !.stable = TRUE]
  IN  IF through
      THEN Emit(Emit(d, "finish", "hdr", h), "unlock", "unlock", FALSE)
      ELSE Emit(Emit(d, "unlock", "unlock", FALSE), "finish", "hdr", h)

-----------------------------------------------------------------------------
(* The operations.                                                         *)

Notes == UNION {[1..n -> {"put", "policy"}] : n \in 1..2}

Lost == MaxSno + 1

NoStamp == [sno |-> 0, time |-> 0]

(* init_header, and set_last where `load' was given an iprop dump: one     *)
(* dummy entry.                                                            *)
Init ==
  /\ \E n \in Begins :
       /\ hdr = [num |-> 1, first |-> [sno |-> n, time |-> 1],
                 last |-> [sno |-> n, time |-> 1], stable |-> TRUE]
       /\ slot = [i \in 0..(Entries - 1) |->
                    IF i = Index(n) THEN [sno |-> n, time |-> 1, ver |-> 0]
                    ELSE [sno |-> IF i = 0 THEN 1 ELSE 0, time |-> 0, ver |-> 0]]
  /\ ver = 0
  /\ todo = <<>>
  /\ holder = "none"
  /\ dbHeld = FALSE
  /\ load = "idle"
  /\ rep = [stamp |-> NoStamp, ver |-> 0]
  /\ behind = Lost
  /\ missed = FALSE
  /\ clock = 2

LogFree == holder = "none"

Start(op, b, db) ==
  /\ LogFree
  /\ b.now <= MaxClock
  /\ b.at <= MaxVer
  /\ todo' = b.out
  /\ holder' = op
  /\ dbHeld' = db
  /\ clock' = b.now
  /\ UNCHANGED <<hdr, slot, ver, rep, behind, missed>>

(* change_locked: the database's lock, then the log's, then the writes.    *)
Change ==
  \E notes \in Notes, through \in BOOLEAN :
    /\ Start("change", Logged(Stage(Batch, notes), through), TRUE)
    /\ UNCHANGED load

(* load_policies_only with -update: the policies, then init_header.        *)
LoadPolicies ==
  LET w == [Emit(Batch, "db", "db", ver + 1) EXCEPT !.at = @ + 1]
  IN  /\ Start("policies", Emit(Reset(w, "reset"), "unlock", "unlock", FALSE), TRUE)
      /\ UNCHANGED load

(* get_entries, sent for by a replica, starts an unstable log over.        *)
ServeReset ==
  /\ ~hdr.stable
  /\ Start("serve", Reset(Batch, "reset"), FALSE)
  /\ UNCHANGED load

(* check_mapped, as a program maps the log.                                *)
MapReset ==
  /\ \/ ~hdr.stable
     \/ ~CheckSno(slot, hdr.first)
     \/ ~CheckSno(slot, hdr.last)
  /\ Start("map", Reset(Batch, "reset"), FALSE)
  /\ UNCHANGED load

(* FullLoad::finish: init_header, promote, init_header.                    *)
LoadReinit ==
  /\ load = "idle"
  /\ Start("load", Reset(Batch, "reset"), FALSE)
  /\ load' = "reinit"

Promote ==
  /\ load = "built"
  /\ ~dbHeld
  /\ ver < MaxVer
  /\ ver' = ver + 1
  /\ load' = "promoted"
  /\ UNCHANGED <<hdr, slot, todo, holder, dbHeld, rep, behind, missed, clock>>

LoadRestart ==
  /\ load = "promoted"
  /\ Start("load", Reset(Batch, "reset"), FALSE)
  /\ load' = "restart"

(* get_entries of a stable log: the replica applies what it is sent.       *)
Serve ==
  LET after == Following(hdr, slot, rep.stamp)
  IN  /\ LogFree
      /\ hdr.stable
      /\ Answer(hdr, slot, rep.stamp) = "ok"
      /\ rep' = [stamp |-> hdr.last, ver |-> Last(after).ver]
      /\ behind' = 0
      /\ UNCHANGED <<hdr, slot, ver, todo, holder, dbHeld, load, missed, clock>>

(* iprop_dump_text: get_last and the records under one shared hold.  The   *)
(* header's state is not looked at.                                        *)
Dump ==
  /\ LogFree
  /\ rep' = [stamp |-> hdr.last, ver |-> ver]
  /\ behind' = IF CheckSno(slot, hdr.last) THEN 0 ELSE Lost
  /\ missed' = FALSE
  /\ UNCHANGED <<hdr, slot, ver, todo, holder, dbHeld, load, clock>>

-----------------------------------------------------------------------------
(* The holder's writes, and what may go wrong among them.                  *)

(* load_policies_only between the new policies and the restarted log.      *)
PoliciesInWindow ==
  /\ holder = "policies"
  /\ \A i \in DOMAIN todo : To(todo[i]) # "db"
  /\ \E i \in DOMAIN todo : To(todo[i]) = "hdr"

(* Where a load goes once the log is free again.                           *)
LoadAfter ==
  IF holder = "load" /\ load = "reinit" THEN "built"
  ELSE IF holder = "load" THEN "idle" ELSE load

LoadStopped == IF holder = "load" THEN "idle" ELSE load

(* The log's holder stops: it may be a load in its window.                 *)
MissedNow ==
  missed \/ PoliciesInWindow \/ (holder = "load" /\ load = "restart")

WriteNext ==
  /\ todo # <<>>
  /\ LET w == Head(todo)
         end == Tail(todo) = <<>>
     IN  /\ hdr' = IF To(w) = "hdr" THEN Val(w)
                   ELSE IF To(w) = "state" THEN [hdr EXCEPT !.stable = Val(w)]
                   ELSE hdr
         /\ slot' = IF To(w) = "slot" THEN [slot EXCEPT ![Index(Val(w).sno)] = Val(w)]
                    ELSE slot
         /\ ver' = IF To(w) = "db" THEN Val(w) ELSE ver
         /\ dbHeld' = (dbHeld /\ To(w) # "unlock")
         /\ behind' = IF behind = Lost \/ (To(w) = "slot" /\ Val(w).sno = 1)
                      THEN Lost
                      ELSE IF To(w) = "hdr" THEN behind + (Val(w).last.sno - hdr.last.sno)
                      ELSE behind
         /\ missed' = (missed /\ ~(To(w) = "hdr" /\ Val(w).last.sno = 1))
         /\ todo' = Tail(todo)
         /\ holder' = IF end THEN "none" ELSE holder
         /\ load' = IF end THEN LoadAfter ELSE load
  /\ UNCHANGED <<rep, clock>>

(* The kernel drops a killed process's locks.                              *)
Kill ==
  /\ todo # <<>>
  /\ todo' = <<>>
  /\ holder' = "none"
  /\ dbHeld' = FALSE
  /\ load' = LoadStopped
  /\ missed' = MissedNow
  /\ UNCHANGED <<hdr, slot, ver, rep, behind, clock>>

(* The error paths of write_staged: begin's error returns; stage's and the *)
(* database's abandon the batch, which resets the log; finish's leaves it  *)
(* unstable.  A reset that fails is not tried again.                       *)
Abandon == Reset([Batch EXCEPT !.mem.stable = FALSE], "abandon")

Unlock == IF dbHeld THEN << <<"unlock", "unlock", FALSE>> >> ELSE <<>>

IoError ==
  /\ todo # <<>>
  /\ Part(Head(todo)) # "unlock"
  /\ LET w == Head(todo)
         again == Part(w) = "notes" \/ (Part(w) = "db" /\ holder = "change")
     IN  /\ clock' = IF again THEN Abandon.now ELSE clock
         /\ clock' <= MaxClock
         /\ ver' \in {ver} \cup (IF Part(w) = "db" /\ holder = "change" THEN {Val(w)} ELSE {})
         /\ todo' = (IF again THEN Abandon.out ELSE <<>>) \o Unlock
         /\ holder' = IF todo' = <<>> THEN "none" ELSE holder
         /\ load' = LoadStopped
         /\ missed' = MissedNow
  /\ UNCHANGED <<hdr, slot, dbHeld, rep, behind>>

(* A load is killed, or its promotion fails, while another holds the log.  *)
LoadStop ==
  /\ load \in {"built", "promoted"}
  /\ load' = "idle"
  /\ missed' = (missed \/ load = "promoted")
  /\ UNCHANGED <<hdr, slot, ver, todo, holder, dbHeld, rep, behind, clock>>

Next ==
  \/ Change \/ LoadPolicies \/ ServeReset \/ MapReset
  \/ LoadReinit \/ Promote \/ LoadRestart
  \/ Serve \/ Dump
  \/ WriteNext \/ Kill \/ IoError \/ LoadStop

Spec == Init /\ [][Next]_vars

-----------------------------------------------------------------------------
(* The files, the lock holder and the replica keep their types.            *)
TypeOK ==
  /\ hdr \in Header
  /\ slot \in Ring
  /\ ver \in 0..MaxVer
  /\ holder \in {"none", "change", "policies", "serve", "map", "load"}
  /\ (todo = <<>>) = (holder = "none")
  /\ dbHeld \in BOOLEAN
  /\ load \in {"idle", "reinit", "built", "promoted", "restart"}
  /\ rep \in [stamp : Stamp, ver : 0..MaxVer]
  /\ behind \in 0..Lost
  /\ missed \in BOOLEAN
  /\ clock \in 1..MaxClock

(* get_entries and the dumps agree with the database: whenever a stable    *)
(* log tells a replica "nothing new", the replica has the database's       *)
(* version; whenever it sends entries, they are exactly the changes from   *)
(* the replica's version to the database's, in order.  Kills between two   *)
(* writes, I/O errors, policy changes and wrapped serials are behind this. *)
(* One window is excepted.  FullLoad::finish and load_policies_only start  *)
(* the log over only after the new database is in place, and a replica     *)
(* that asked since the last start is told "nothing new" until they do: if *)
(* they are stopped there, until the next start of the log or that         *)
(* replica's next dump (missed), although finish is said to leave no stale *)
(* log behind a kill.                                                      *)
AnswersMatchDatabase ==
  LogFree /\ hdr.stable /\ load \notin {"promoted", "restart"} /\ ~missed =>
    LET a     == Answer(hdr, slot, rep.stamp)
        after == Following(hdr, slot, rep.stamp)
    IN  /\ a = "nil" => rep.ver = ver
        /\ a = "ok" => /\ ver = rep.ver + Len(after)
                       /\ \A i \in DOMAIN after : after[i].ver = rep.ver + i

(* The ring is worth its size: a replica fewer than Entries updates behind *)
(* a log that was not started over since is served from the ring, never    *)
(* told to take a full dump or that the log is in error (put_entry's       *)
(* first_sno, sno_status' bounds).                                         *)
ServedIncrementally ==
  LogFree /\ hdr.stable /\ behind < Entries =>
    Answer(hdr, slot, rep.stamp) = IF behind = 0 THEN "nil" ELSE "ok"
=============================================================================
