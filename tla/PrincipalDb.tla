----------------------------- MODULE PrincipalDb -----------------------------
(***************************************************************************)
(* The principal database file and the stores that read and change it.     *)
(* The file is the dump a whole write leaves, then every later principal   *)
(* change as a batch of lines between `begin' and `end' (kdb_dump.rs,      *)
(* persist.rs).  A daemon's threads share one store, which remembers a     *)
(* stamp of the file it read: a reader that finds the stamp moved reads    *)
(* what was appended, or the whole file again (store.rs, listen.rs).       *)
(* Another process changes and replaces the file.                          *)
(*                                                                         *)
(* A line is a record; a version number stands for what a principal or a   *)
(* policy holds.  The database lock is module DbLock's, so what runs under *)
(* one hold of it is one step here: except for a kill, which leaves the    *)
(* file as far as it was written, and may cut the word `begin'.  A         *)
(* replaced file's inode is free for the next new file, so a store may     *)
(* take a file for its own that is not: freshness() goes by the inode and  *)
(* the last bytes it applied.                                              *)
(***************************************************************************)
EXTENDS Integers, Sequences, FiniteSets, SequencesExt

CONSTANTS
  Princ,        \* principals
  Policies,     \* password policies
  Threads,      \* threads of the daemon
  MaxVer,       \* bound on the versions of the database
  MaxIno,       \* bound on the inodes of its files
  MaxFaults,    \* bound on kills and failed writes
  MinDead       \* replaced records at which the file is rewritten (256)

ASSUME BoundsAssumption ==
  {MaxVer, MaxIno, MaxFaults, MinDead} \subseteq Nat /\ MaxVer > 1 /\ MaxIno > 1

VARIABLES
  file,    \* the database file: its inode, its change time and its lines;
           \* `gen', which no program sees, counts the files there were
  store,   \* what each process holds in memory, and the stamp it was read at
  ahead,   \* the daemon's read-ahead: what read_hold prepared
  req,     \* each thread's request
  hist,    \* every content the file has held, the current one last
  mistook, \* history: a store took another file for its own, grown
  faults   \* kills and failed writes so far

vars == <<file, store, ahead, req, hist, mistook, faults>>

-----------------------------------------------------------------------------
Procs == {"daemon", "local"}
Ver == 0..MaxVer
Content == [princ : [Princ -> Ver], pol : [Policies -> Ver]]

(* A principal at version 0 is not in the database.                        *)
Live(db) == {p \in Princ : db.princ[p] # 0}

Now == hist[Len(hist)]
Empty == [princ |-> [p \in Princ |-> 0], pol |-> [q \in Policies |-> 0]]

-----------------------------------------------------------------------------
(* Lines.  The CRC of an `end' line is the body it was computed over.      *)
Line(k, n, v) == [k |-> k, n |-> n, v |-> v, crc |-> <<>>]
Mark(k) == Line(k, "", 0)
End(body) == [Mark("end") EXCEPT !.crc = body]

RecordOf(db, p) ==
  IF p \in Live(db) THEN Line("princ", p, db.princ[p]) ELSE Line("del", p, 0)

(* write_dump: the principals, then the policies.                          *)
WriteDump(db) ==
  LET ps == SetToSeq(Live(db))
      qs == SetToSeq(Policies)
  IN  [i \in 1..Len(ps) |-> RecordOf(db, ps[i])]
      \o [i \in 1..Len(qs) |-> Line("policy", qs[i], db.pol[qs[i]])]

JournalBatch(db, ids) ==
  LET s == SetToSeq(ids)
      body == [i \in 1..Len(s) |-> RecordOf(db, s[i])]
  IN  <<Mark("begin")>> \o body \o <<End(body)>>

(* read_batch: the index of the `end' that closes the batch begun at i     *)
(* and checks; 0 for a batch cut short.                                    *)
ReadBatch(text, i) ==
  LET ends == {j \in i+1..Len(text) : text[j].k = "end"}
      j == CHOOSE e \in ends : \A f \in ends : e <= f
  IN  IF ends # {} /\ text[j].crc = SubSeq(text, i+1, j-1) THEN j ELSE 0

(* Fold::record, for a line that is one of its three kinds.                *)
Record(db, line) ==
  CASE line.k = "princ"  -> [db EXCEPT !.princ[line.n] = line.v]
    [] line.k = "del"    -> [db EXCEPT !.princ[line.n] = 0]
    [] line.k = "policy" -> [db EXCEPT !.pol[line.n] = line.v]
    [] OTHER             -> db

Known(line) == line.k \in {"princ", "del", "policy"}

(* What a dump or a tail reads as: its content, how many lines of it were  *)
(* applied and how many records it counted; `ok' is FALSE when it does not *)
(* read.                                                                   *)
Reading(ok, db, applied, records) ==
  [ok |-> ok, db |-> db, applied |-> applied, records |-> records]

Counted(lines) == Len(SelectSeq(lines, LAMBDA l : l.k \in {"princ", "del"}))
Folded(db, lines) == FoldLeft(Record, db, lines)

(* parse_dump: a batch cut short is left out when it is the last.          *)
RECURSIVE ParseBatches(_, _, _)
ParseBatches(text, i, r) ==
  IF i > Len(text) THEN r
  ELSE IF text[i].k # "begin"
       THEN IF Known(text[i])
            THEN ParseBatches(text, i + 1,
                   [r EXCEPT !.db = Record(@, text[i]),
                             !.records = @ + Counted(<<text[i]>>)])
            ELSE [r EXCEPT !.ok = FALSE]
       ELSE LET j == ReadBatch(text, i)
                body == SubSeq(text, i + 1, j - 1)
            IN  IF j # 0
                THEN ParseBatches(text, j + 1,
                       Reading(TRUE, Folded(r.db, body), j, r.records + Counted(body)))
                ELSE IF \E m \in i+1..Len(text) : text[m].k = "begin"
                     THEN [r EXCEPT !.ok = FALSE]
                     ELSE [r EXCEPT !.applied = i - 1]

ParseDump(text) == ParseBatches(text, 1, Reading(TRUE, Empty, Len(text), 0))

(* parse_journal_tail: the batches after the lines a store has applied;    *)
(* not ok when anything else is there, and the whole file is read instead. *)
RECURSIVE ParseTail(_, _, _)
ParseTail(text, i, r) ==
  IF i > Len(text) THEN r
  ELSE LET j == IF text[i].k = "begin" THEN ReadBatch(text, i) ELSE 0
           body == SubSeq(text, i + 1, j - 1)
       IN  IF text[i].k # "begin" THEN [r EXCEPT !.ok = FALSE]
           ELSE IF j # 0
                THEN ParseTail(text, j + 1,
                       Reading(TRUE, Folded(r.db, body), j, r.records + Counted(body)))
                ELSE [r EXCEPT !.ok = ~ \E m \in i+1..Len(text) : text[m].k = "begin"]

-----------------------------------------------------------------------------
(* A stamp: the file's identity, change time and length, and the last of   *)
(* the lines that were applied (the CRC of the last 64 bytes).             *)
Stamp(f, records, applied) ==
  [ino |-> f.ino, gen |-> f.gen, ctime |-> f.ctime, len |-> Len(f.text),
   records |-> records, applied |-> applied, tail |-> f.text[applied]]

NoStamp == [ino |-> 0, gen |-> 0, ctime |-> 0, len |-> 0, records |-> 0, applied |-> 0,
            tail |-> Mark("")]

(* DbStamp::saw.                                                           *)
Saw(s, f) ==
  s # NoStamp /\ s.ino = f.ino /\ s.ctime = f.ctime /\ s.len = Len(f.text)

Freshness(s, f) ==
  IF s = NoStamp \/ s.ino # f.ino \/ Len(f.text) < s.applied THEN "other"
  ELSE IF Saw(s, f) THEN "same"
  ELSE IF f.text[s.applied] = s.tail THEN "grown"
  ELSE "other"

(* It is not the file the store read.                                      *)
Mistaken(s, f) == Freshness(s, f) = "grown" /\ s.gen # f.gen

(* prepare_appended: what the lines past the applied ones make of a store. *)
Appended(st, f) ==
  ParseTail(f.text, st.stamp.applied + 1,
            Reading(TRUE, st.db, st.stamp.applied, st.stamp.records))

AtReading(r, f) == [db |-> r.db, stamp |-> Stamp(f, r.records, r.applied)]

(* reread: a database that does not read leaves the store as it was.       *)
Reread(st, f) ==
  LET r == ParseDump(f.text)
  IN  IF r.ok THEN AtReading(r, f) ELSE st

(* catch_up; it fails when it had to read the whole file and could not.    *)
CatchUp(st, f) ==
  LET fresh == Freshness(st.stamp, f)
      a == Appended(st, f)
      r == ParseDump(f.text)
  IN  IF fresh = "same" THEN [ok |-> TRUE, to |-> st]
      ELSE IF fresh = "grown" /\ a.ok THEN [ok |-> TRUE, to |-> AtReading(a, f)]
      ELSE [ok |-> r.ok, to |-> IF r.ok THEN AtReading(r, f) ELSE st]

-----------------------------------------------------------------------------
NoAhead == [base |-> NoStamp, to |-> [db |-> Empty, stamp |-> NoStamp]]
Idle == [at |-> "idle", kind |-> "read", since |-> 0, fresh |-> TRUE]
Closed == [db |-> Empty, stamp |-> NoStamp]

(* A load has replaced the database since the other process read it.       *)
Opened(n) ==
  LET db == [Empty EXCEPT !.princ[CHOOSE p \in Princ : TRUE] = n]
  IN  [ino |-> n, gen |-> n, ctime |-> n, text |-> WriteDump(db)]

Init ==
  /\ hist = <<ParseDump(Opened(1).text).db, ParseDump(Opened(2).text).db>>
  /\ file = Opened(2)
  /\ store = [p \in Procs |-> Reread(Closed, Opened(IF p = "daemon" THEN 2 ELSE 1))]
  /\ ahead = NoAhead
  /\ req = [t \in Threads |-> Idle]
  /\ mistook = FALSE
  /\ faults = 0

-----------------------------------------------------------------------------
(* A request begins: one that reads (read_fresh, the KDC's read_store) or  *)
(* one that may change something and looks first (kadmind's write_store).  *)
Begin(t, kind) ==
  /\ req[t].at = "idle"
  /\ req' = [req EXCEPT ![t] =
               [Idle EXCEPT !.at = IF kind = "read" THEN "hold" ELSE "reload",
                            !.kind = kind, !.since = Len(hist)]]
  /\ UNCHANGED <<file, store, ahead, hist, mistook, faults>>

(* An answer is an error, or is fresh when the file held what it was made  *)
(* from at some time since the request began.                              *)
Answered(t, db, ok) ==
  LET fresh == ok => \E i \in req[t].since..Len(hist) : hist[i] = db
  IN  [req EXCEPT ![t] =
         IF fresh THEN Idle ELSE [Idle EXCEPT !.kind = req[t].kind, !.fresh = FALSE]]

(* read_hold, and the answer when the store is what the file is.           *)
ReadHoldKeepsAhead(t) ==
  LET st == store["daemon"]
      a == Appended(st, file)
  IN  /\ req[t].at = "hold"
      /\ IF Saw(st.stamp, file)
         THEN /\ req' = Answered(t, st.db, TRUE)
              /\ UNCHANGED ahead
         ELSE /\ ahead' = IF Freshness(st.stamp, file) = "grown" /\ a.ok /\ ahead = NoAhead
                          THEN [base |-> st.stamp, to |-> AtReading(a, file)]
                          ELSE ahead
              /\ req' = [req EXCEPT ![t].at = "reload"]
      /\ mistook' = (mistook \/ Mistaken(st.stamp, file))
      /\ UNCHANGED <<file, store, hist, faults>>

ReadHold(t) ==
  LET st == store["daemon"]
      a == Appended(st, file)
  IN  /\ req[t].at = "hold"
      /\ IF Saw(st.stamp, file)
         THEN /\ req' = Answered(t, st.db, TRUE)
              /\ UNCHANGED ahead
         ELSE /\ ahead' = IF Freshness(st.stamp, file) = "grown" /\ a.ok
                          THEN [base |-> st.stamp, to |-> AtReading(a, file)]
                          ELSE NoAhead
              /\ req' = [req EXCEPT ![t].at = "reload"]
      /\ mistook' = (mistook \/ Mistaken(st.stamp, file))
      /\ UNCHANGED <<file, store, hist, faults>>

(* reload_if_stale under the write guard: the read-ahead when it was       *)
(* prepared for this store, else what the file now holds.  A request that  *)
(* only reads then takes the read guard; one that may change goes on under *)
(* the write guard.                                                        *)
Reload(t) ==
  LET st == store["daemon"]
      taken == ahead # NoAhead /\ ahead.base = st.stamp
  IN  /\ req[t].at = "reload"
      /\ \E c \in {IF taken THEN [ok |-> TRUE, to |-> ahead.to] ELSE CatchUp(st, file)} :
           /\ store' = [store EXCEPT !["daemon"] = c.to]
           /\ req' = IF req[t].kind = "read" /\ c.ok
                     THEN [req EXCEPT ![t].at = "look"]
                     ELSE Answered(t, c.to.db, c.ok)
      /\ ahead' = NoAhead
      /\ mistook' = (mistook \/ (~taken /\ Mistaken(st.stamp, file)))
      /\ UNCHANGED <<file, hist, faults>>

Look(t) ==
  /\ req[t].at = "look"
  /\ req' = Answered(t, store["daemon"].db, TRUE)
  /\ UNCHANGED <<file, store, ahead, hist, mistook, faults>>

-----------------------------------------------------------------------------
(* A change puts or removes a principal or writes a policy.                *)
Ops == [k : {"put", "del"}, n : Princ] \cup [k : {"policy"}, n : Policies]

Applied(db, op, v) ==
  CASE op.k = "put"    -> [db EXCEPT !.princ[op.n] = v]
    [] op.k = "del"    -> [db EXCEPT !.princ[op.n] = 0]
    [] op.k = "policy" -> [db EXCEPT !.pol[op.n] = v]

(* append_plan: a policy change, and too many replaced records, rewrite    *)
(* the file.                                                               *)
AppendPlan(st, op, after) ==
  LET live == Cardinality(Live(after))
      dead == st.stamp.records - live
  IN  op.k # "policy" /\ ~ (dead > live /\ dead >= MinDead)

(* append_change cuts what is past the applied lines, then writes.         *)
AppendLines(st, lines) ==
  [file EXCEPT !.ctime = @ + 1,
               !.text = SubSeq(@, 1, st.stamp.applied) \o lines]

(* write_atomic: a new file renamed over the old one, on an inode that is  *)
(* new or was another file's before.                                       *)
Replaced(db) ==
  {[ino |-> i, gen |-> file.gen + 1, ctime |-> file.ctime + 1, text |-> WriteDump(db)] :
     i \in 1..MaxIno \ {file.ino}}

Written(st, op, after) ==
  IF AppendPlan(st, op, after)
  THEN {AppendLines(st, JournalBatch(after, {op.n}))}
  ELSE Replaced(after)

(* What a write cut short leaves: some of the lines of a batch, part of    *)
(* its first, or the old file with a temporary one beside it.              *)
CutShort(st, op, after) ==
  LET batch == JournalBatch(after, {op.n})
  IN  IF AppendPlan(st, op, after)
      THEN {AppendLines(st, SubSeq(batch, 1, n)) : n \in 0..Len(batch) - 1}
           \cup {AppendLines(st, <<Mark("beg")>>)}
      ELSE {file}

(* The stamp after a write.                                                *)
Restamped(st, op, after, f) ==
  IF AppendPlan(st, op, after)
  THEN Stamp(f, st.stamp.records + 1, Len(f.text))
  ELSE Stamp(f, Cardinality(Live(after)), Len(f.text))

Committed(op) == hist' = Append(hist, Applied(Now, op, Len(hist) + 1))

(* A store that changes catches up first, and drops its read-ahead.        *)
Refreshed(p) ==
  /\ ahead' = IF p = "daemon" THEN NoAhead ELSE ahead
  /\ mistook' = (mistook \/ Mistaken(store[p].stamp, file))

(* change_locked starts from the file as it now is.  `hist' takes the      *)
(* change itself, whatever the store made it of.                           *)
ChangeWith(p, op, st) ==
  LET after == Applied(st.db, op, Len(hist) + 1)
  IN  /\ Len(hist) < MaxVer
      /\ op.k = "del" => op.n \in Live(st.db)
      /\ AppendPlan(st, op, after) => st.stamp.applied <= Len(file.text)
      /\ file' \in Written(st, op, after)
      /\ store' = [store EXCEPT ![p] =
                     [db |-> after, stamp |-> Restamped(st, op, after, file')]]
      /\ Committed(op)
      /\ Refreshed(p)
      /\ UNCHANGED <<req, faults>>

ChangeUnrefreshed(p, op) == ChangeWith(p, op, store[p])

Change(p, op) == \E c \in {CatchUp(store[p], file)} : c.ok /\ ChangeWith(p, op, c.to)

(* The change is refused inside: the store keeps what it read.  So does a  *)
(* store whose file does not read, and it says so.                         *)
Refused(p) ==
  /\ store' = [store EXCEPT ![p] = CatchUp(@, file).to]
  /\ Refreshed(p)
  /\ UNCHANGED <<file, req, hist, faults>>

(* The history key is written through, then the change fails: the file     *)
(* keeps it and the store reads it back.                                   *)
WroteThrough(p, n) ==
  /\ Len(hist) < MaxVer
  /\ \E c \in {CatchUp(store[p], file)} :
       /\ c.ok
       /\ n \notin Live(c.to.db)
       /\ file' \in Replaced(Applied(c.to.db, [k |-> "put", n |-> n], Len(hist) + 1))
  /\ store' = [store EXCEPT ![p] = Reread(Closed, file')]
  /\ Committed([k |-> "put", n |-> n])
  /\ Refreshed(p)
  /\ UNCHANGED <<req, faults>>

(* A write fails or is cut short once the file is written whole or in      *)
(* part.                                                                   *)
Interrupted(p, op, st) ==
  LET after == Applied(st.db, op, Len(hist) + 1)
  IN  /\ faults < MaxFaults
      /\ Len(hist) < MaxVer
      /\ op.k = "del" => op.n \in Live(st.db)
      /\ \/ /\ file' \in Written(st, op, after)
            /\ Committed(op)
         \/ /\ file' \in CutShort(st, op, after)
            /\ UNCHANGED hist
      /\ faults' = faults + 1
      /\ Refreshed(p)

(* The write fails: the store reads the file back and the change is        *)
(* answered with an error.  Or the writer is killed, and starts again with *)
(* nothing read.                                                           *)
WriteFails(p, st) ==
  /\ store' = [store EXCEPT ![p] = Reread([st EXCEPT !.stamp = NoStamp], file')]
  /\ UNCHANGED req

Killed(p) ==
  /\ store' = [store EXCEPT ![p] = Closed]
  /\ req' = IF p = "daemon" THEN [t \in Threads |-> Idle] ELSE req

Fails(p, op) ==
  \E c \in {CatchUp(store[p], file)} :
    /\ c.ok
    /\ Interrupted(p, op, c.to)
    /\ WriteFails(p, c.to) \/ Killed(p)

(* A full load promotes a new database over this one.                      *)
Load(op) ==
  /\ Len(hist) < MaxVer
  /\ op.k = "put"
  /\ Committed(op)
  /\ file' \in Replaced(Applied(Now, op, Len(hist) + 1))
  /\ UNCHANGED <<store, ahead, req, mistook, faults>>

Next ==
  \/ \E t \in Threads, kind \in {"read", "change"} : Begin(t, kind)
  \/ \E t \in Threads : ReadHold(t) \/ Reload(t) \/ Look(t)
  \/ \E p \in Procs, op \in Ops : Change(p, op) \/ Fails(p, op)
  \/ \E p \in Procs : Refused(p)
  \/ \E p \in Procs, n \in Princ : WroteThrough(p, n)
  \/ \E op \in Ops : Load(op)

Spec == Init /\ [][Next]_vars

(* The daemon's threads are alike.                                         *)
Alike == Permutations(Threads)

-----------------------------------------------------------------------------
(* Every variable has its type, and the stamp a store keeps lies within    *)
(* the lines the database has had: `applied' never passes the length it    *)
(* was taken at, which freshness() and append_change rely on.              *)
TypeOK ==
  /\ hist \in Seq(Content) /\ Len(hist) \in 1..MaxVer
  /\ file.ino \in 1..MaxIno /\ file.ctime \in Nat
  /\ \A p \in Procs : /\ store[p].db \in Content
                      /\ store[p].stamp.applied <= store[p].stamp.len
  /\ \A t \in Threads : req[t].at \in {"idle", "hold", "reload", "look"}
  /\ faults \in 0..MaxFaults

(* No writer saves over another and no change is lost: what the file reads *)
(* as is what the changes that were written, in their order, make of it,   *)
(* whatever the writer had in memory and whoever was killed.  Two cases    *)
(* are the code's exceptions: a file replaced twice whose inode and last   *)
(* bytes are those of the one a store read is taken for it (freshness),    *)
(* and a write cut in the word `begin' leaves a file that parse_dump       *)
(* refuses, though every change is in the lines before that word.          *)
NothingLost ==
  mistook \/ LET whole == IF Last(file.text).k = "beg" THEN Front(file.text) ELSE file.text
                 r == ParseDump(whole)
             IN  r.ok /\ r.db = Now

(* A store whose stamp the file still matches holds what the file reads    *)
(* as: the KDC answers without a second look when they match.              *)
StampIsSound ==
  \A p \in Procs : Saw(store[p].stamp, file) => store[p].db = ParseDump(file.text).db

(* A request that reads is answered from a content the file had after the  *)
(* request came, never from one already replaced when it began, unless a   *)
(* store took a reused inode for the file it had read.                     *)
ReadsAreFresh == mistook \/ \A t \in Threads : req[t].kind = "read" => req[t].fresh

(* The same for a request that looks before it changes.                    *)
LooksAreFresh == \A t \in Threads : req[t].fresh

=============================================================================
