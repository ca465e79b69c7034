----------------------------- MODULE LockoutFile -----------------------------
(***************************************************************************)
(* The lockout records beside the database, principal.lockout              *)
(* (krb5-kdc/src/lockout/file.rs).  Every process keeps an index of where  *)
(* each record is and brings it up to date under the database lock; a      *)
(* lookup first reads the record the index names without the lock.  A      *)
(* record is written in place, and its bytes are not all written at once.  *)
(*                                                                         *)
(* A record's values are one number, the failure count, and the values of  *)
(* a principal without a record, which the database holds, are zero.       *)
(***************************************************************************)
EXTENDS Integers, SequencesExt, FiniteSetsExt

CONSTANTS
    Kdcs,      \* KDC processes
    Admins,    \* kadmind, kadmin.local
    Names,     \* principals
    Cuts,      \* where an appended line may be cut: "part", "newline"
    MaxCount,  \* bound on a failure count
    MaxLines,  \* bound on the lines of the file
    MaxFiles,  \* bound on the files renamed into place
    MaxStops   \* bound on the kills and failed writes

VARIABLES
    file,     \* [id, lines, whole]: the file at the path
    replaced, \* the files renamed over, which a descriptor may still be open on
    side,     \* each process's SideFile, or Closed
    princ,    \* the principals of the database
    fetched,  \* the client each KDC is to audit
    writer,   \* the exclusive holder: [proc, todo, rows], or Nobody
    rows,     \* the records a reader that misses nothing would count
    stops

vars == <<file, replaced, side, princ, fetched, writer, rows, stops>>

-----------------------------------------------------------------------------
Procs == Kdcs \cup Admins

(* A line that is no record: deleted, torn or cut short. *)
Dead == [name |-> "", count |-> 0]

Closed == [open |-> FALSE]

Gone == [id |-> -1]

Nobody == [proc |-> "none"]

(* The last line ends in a newline unless the file is not whole. *)
Parses(f, i) == f.lines[i] # Dead /\ (i < Len(f.lines) \/ f.whole)

RecordAt(f, i, n) == i \in 1 .. Len(f.lines) /\ Parses(f, i) /\ f.lines[i].name = n

(* The last record of a name is its record. *)
Lines(f, n, from) == {i \in from .. Len(f.lines) : RecordAt(f, i, n)}

Live(f, n) == Max({0} \cup Lines(f, n, 1))

Count(f, n) == IF Live(f, n) = 0 THEN 0 ELSE f.lines[Live(f, n)].count

-----------------------------------------------------------------------------
(* index_body: the lines after ix.len are added to the index.  A line that *)
(* does not parse, or that another line replaces, is dead.                 *)
IndexBody(ix, f) ==
    LET added == [n \in Names |-> Lines(f, n, ix.len + 1)]
        fresh == Cardinality({n \in Names : added[n] # {} /\ ix.at[n] = 0})
    IN [open |-> TRUE,
        id |-> f.id,
        at |-> [n \in Names |-> Max({ix.at[n]} \cup added[n])],
        dead |-> ix.dead + (Len(f.lines) - ix.len) - fresh,
        len |-> Len(f.lines),
        whole |-> f.whole]

Reindex(f) == IndexBody([at |-> [n \in Names |-> 0], dead |-> 0, len |-> 0], f)

(* A cut line is half a line shorter than a whole one. *)
Size(len, whole) == 2 * len - (IF whole THEN 0 ELSE 1)


Refresh(s, f) ==
    IF s = Closed \/ s.id # f.id THEN Reindex(f)
    ELSE IF Size(Len(f.lines), f.whole) > Size(s.len, s.whole) /\ s.whole
         THEN IndexBody(s, f)
    ELSE IF Size(Len(f.lines), f.whole) # Size(s.len, s.whole) THEN Reindex(f)
    ELSE s

(* locate: a record that is not where the index says makes it read again. *)
Locate(s, f, n) == IF s.at[n] = 0 \/ RecordAt(f, s.at[n], n) THEN s ELSE Reindex(f)

Located(s, f, n) == IF RecordAt(f, s.at[n], n) THEN s.at[n] ELSE 0

Get(s, f, n) ==
    LET at == Located(Locate(s, f, n), f, n)
    IN IF at = 0 THEN 0 ELSE f.lines[at].count

None == -1

NoClient == "none"

(* What the descriptor of an index reads. *)
Opened(s) == IF s.id = file.id THEN file ELSE replaced[s.id + 1]

RowUnlockedAnyFile(s, n) ==
    IF /\ s # Closed
       /\ s.whole
       /\ Size(Len(file.lines), file.whole) >= Size(s.len, s.whole)
       /\ RecordAt(Opened(s), s.at[n], n)
    THEN Opened(s).lines[s.at[n]].count ELSE None

RowUnlocked(s, n) ==
    IF /\ s # Closed
       /\ s.whole
       /\ s.id = file.id
       /\ Size(Len(file.lines), file.whole) >= Size(s.len, s.whole)
       /\ RecordAt(Opened(s), s.at[n], n)
    THEN Opened(s).lines[s.at[n]].count ELSE None

-----------------------------------------------------------------------------
(* A write is the files it leaves behind one after the other, each with    *)
(* the writer's index at that point.                                       *)
Left(f, s) == [file |-> f, side |-> s]

Row(n, v) == [name |-> n, count |-> v]

SetLine(f, i, line) == [f EXCEPT !.lines[i] = line]

AddLine(f, line, whole) == [f EXCEPT !.lines = Append(@, line), !.whole = whole]

AppendedShortLen(f, s, n, v, cut) ==
    LET g == [f EXCEPT !.whole = TRUE]
        t == IF s.whole THEN s ELSE [s EXCEPT !.dead = @ + 1]
        added == AddLine(g, Row(n, v), TRUE)
    IN (IF s.whole THEN <<>> ELSE <<Left(g, t)>>)
       \o <<Left(AddLine(g, IF cut = "part" THEN Dead ELSE Row(n, v), FALSE), t),
            Left(added, [t EXCEPT !.at[n] = Len(added.lines), !.whole = TRUE])>>

(* put where no record is: a newline for a cut line, then the line. *)
Appended(f, s, n, v, cut) ==
    LET g == [f EXCEPT !.whole = TRUE]
        t == IF s.whole THEN s ELSE [s EXCEPT !.dead = @ + 1]
        added == AddLine(g, Row(n, v), TRUE)
    IN (IF s.whole THEN <<>> ELSE <<Left(g, t)>>)
       \o <<Left(AddLine(g, IF cut = "part" THEN Dead ELSE Row(n, v), FALSE), t),
            Left(added, [t EXCEPT !.at[n] = Len(added.lines),
                                  !.len = Len(added.lines),
                                  !.whole = TRUE])>>

Put(f, s, n, v, cut) ==
    LET t == Locate(s, f, n)
        i == Located(t, f, n)
    IN IF i = 0 THEN Appended(f, t, n, v, cut)
       ELSE IF f.lines[i].count = v THEN <<Left(f, t)>>
       ELSE <<Left(SetLine(f, i, Dead), t), Left(SetLine(f, i, Row(n, v)), t)>>

Delete(f, s, n) ==
    LET t == Locate(s, f, n)
        i == Located(t, f, n)
    IN IF i = 0 THEN <<Left(f, t)>>
       ELSE <<Left(SetLine(f, i, Dead), [t EXCEPT !.at[n] = 0, !.dead = @ + 1])>>

(* rewrite: another file is renamed over the path and opened. *)
Rewrite(f, counts) ==
    LET g == [id |-> f.id + 1,
              lines |-> SetToSeq({Row(n, counts[n]) : n \in DOMAIN counts}),
              whole |-> TRUE]
    IN <<Left(g, Reindex(g))>>

Indexed(s) == {n \in Names : s.at[n] # 0}

(* compact keeps the records that are still where the index says. *)
Compact(f, s) ==
    Rewrite(f, [n \in {m \in Indexed(s) : RecordAt(f, s.at[m], m)} |->
                    f.lines[s.at[n]].count])

RECURSIVE DeleteAll(_, _, _)
DeleteAll(f, s, gone) ==
    IF gone = <<>> THEN IF s.dead > Cardinality(Indexed(s)) THEN Compact(f, s) ELSE <<>>
    ELSE LET w == Delete(f, s, Head(gone))
         IN w \o DeleteAll(Last(w).file, Last(w).side, Tail(gone))

-----------------------------------------------------------------------------
Init ==
    /\ file = [id |-> 0, lines |-> <<>>, whole |-> TRUE]
    /\ replaced = <<>>
    /\ side = [p \in Procs |-> Closed]
    /\ princ = Names
    /\ fetched = [p \in Kdcs |-> NoClient]
    /\ writer = Nobody
    /\ rows = [n \in Names |-> 0]
    /\ stops = 0

Unlocked == writer = Nobody

(* p takes the lock and has these files to leave behind. *)
Begin(p, todo, want) ==
    /\ Unlocked
    /\ \A i \in DOMAIN todo : Len(todo[i].file.lines) <= MaxLines
    /\ writer' = [proc |-> p, todo |-> todo, rows |-> want]
    /\ UNCHANGED <<file, rows, stops>>

(* The KDC looks a client up: its record, unlocked if it can. *)
Peek(p, n) ==
    /\ n \in princ
    /\ fetched[p] = NoClient
    /\ RowUnlocked(side[p], n) # None
    /\ fetched' = [fetched EXCEPT ![p] = n]
    /\ UNCHANGED <<file, side, princ, writer, rows, stops>>

Looked(p, n) == side' = [side EXCEPT ![p] = Locate(Refresh(side[p], file), file, n)]

Lookup(p, n) ==
    /\ n \in princ
    /\ fetched[p] = NoClient
    /\ RowUnlocked(side[p], n) = None
    /\ Unlocked
    /\ Looked(p, n)
    /\ fetched' = [fetched EXCEPT ![p] = n]
    /\ UNCHANGED <<file, princ, writer, rows, stops>>

(* getprinc. *)
GetPrincipal(p, n) ==
    /\ n \in princ
    /\ RowUnlocked(side[p], n) = None
    /\ Unlocked
    /\ Looked(p, n)
    /\ UNCHANGED <<file, princ, fetched, writer, rows, stops>>

(* record: the update is applied to the record as it now is. *)
RecordTo(p, n, zero, cut) ==
    LET s == Refresh(side[p], file)
    IN /\ zero \/ rows[n] < MaxCount
       /\ Begin(p, Put(file, s, n, IF zero THEN 0 ELSE Get(s, file, n) + 1, cut),
                [rows EXCEPT ![n] = IF zero THEN 0 ELSE @ + 1])
       /\ side' = [side EXCEPT ![p] = s]

(* The audit of a request: a failure counts, a success zeroes the count.   *)
(* The client may have been deleted or renamed since it was looked up.     *)
Audit(p, zero, cut) ==
    /\ fetched[p] # NoClient
    /\ RecordTo(p, fetched[p], zero, cut)
    /\ fetched' = [fetched EXCEPT ![p] = NoClient]
    /\ UNCHANGED princ

(* A request whose outcome does not count. *)
NoAudit(p) ==
    /\ fetched[p] # NoClient
    /\ fetched' = [fetched EXCEPT ![p] = NoClient]
    /\ UNCHANGED <<file, side, princ, writer, rows, stops>>

(* An unlock, or a change of keys. *)
ZeroFailCount(p, n, cut) ==
    /\ n \in princ
    /\ RecordTo(p, n, TRUE, cut)
    /\ UNCHANGED <<princ, fetched>>

(* A principal is deleted, and its record once the change is appended. *)
DeletePrincipal(p, n) ==
    LET s == Refresh(side[p], file)
    IN /\ n \in princ
       /\ file.id < MaxFiles
       /\ Begin(p, DeleteAll(file, s, <<n>>), [rows EXCEPT ![n] = 0])
       /\ princ' = princ \ {n}
       /\ side' = [side EXCEPT ![p] = s]
       /\ UNCHANGED fetched

Create(n) ==
    /\ Unlocked
    /\ n \notin princ
    /\ princ' = princ \cup {n}
    /\ UNCHANGED <<file, side, fetched, writer, rows, stops>>

(* rename_row: the record is put under the new name, then deleted under    *)
(* the old one; reconcile_ids then finds no record of the old name.        *)
Rename(p, old, new, cut) ==
    LET s == Refresh(side[p], file)
        t == Locate(s, file, old)
        put == Put(file, t, new, Get(t, file, old), cut)
        moved == put \o Delete(Last(put).file, Last(put).side, old)
        todo == IF Located(t, file, old) = 0 THEN <<>> ELSE moved
        end == IF todo = <<>> THEN Left(file, t) ELSE Last(todo)
    IN /\ old \in princ
       /\ new \notin princ
       /\ file.id < MaxFiles
       /\ Begin(p, todo \o DeleteAll(end.file, end.side, <<old>>),
                IF todo = <<>> THEN rows
                ELSE [rows EXCEPT ![new] = rows[old], ![old] = 0])
       /\ princ' = (princ \ {old}) \cup {new}
       /\ side' = [side EXCEPT ![p] = s]
       /\ UNCHANGED fetched

(* A save of the whole database reads the file anew and deletes every      *)
(* record whose principal is gone.                                         *)
Reconcile(p) ==
    LET s == Reindex(file)
        gone == Indexed(s) \ princ
        todo == DeleteAll(file, s, SetToSeq(gone))
    IN /\ file.id < MaxFiles
       /\ todo # <<>>
       /\ Begin(p, [i \in DOMAIN todo |-> Left(todo[i].file, side[p])],
                [n \in Names |-> IF n \in gone THEN 0 ELSE rows[n]])
       /\ UNCHANGED <<side, princ, fetched>>

(* A load renames a file with the dump's records into place; a merge keeps *)
(* the records there are.                                                  *)
Load(merge, dumped) ==
    LET s == Reindex(file)
        counts == [n \in princ |-> IF merge /\ s.at[n] # 0 THEN file.lines[s.at[n]].count
                                   ELSE dumped]
    IN /\ Unlocked
       /\ file.id < MaxFiles
       /\ file' = Rewrite(file, counts)[1].file
       /\ rows' = [n \in Names |-> IF n \in princ THEN counts[n] ELSE 0]
       /\ UNCHANGED <<side, princ, fetched, writer, stops>>

-----------------------------------------------------------------------------
WriteNext ==
    /\ ~Unlocked
    /\ IF writer.todo = <<>>
       THEN /\ writer' = Nobody
            /\ rows' = writer.rows
            /\ UNCHANGED <<file, side>>
       ELSE /\ file' = Head(writer.todo).file
            /\ side' = [side EXCEPT ![writer.proc] = Head(writer.todo).side]
            /\ writer' = [writer EXCEPT !.todo = Tail(@)]
            /\ UNCHANGED rows
    /\ UNCHANGED <<princ, fetched, stops>>

(* The writer is killed, or one of its writes fails and it goes on with    *)
(* the index it has.  What the file now says is what there is to count.    *)
Stop(killed) ==
    /\ ~Unlocked
    /\ stops < MaxStops
    /\ stops' = stops + 1
    /\ side' = IF killed THEN [side EXCEPT ![writer.proc] = Closed] ELSE side
    /\ rows' = [n \in Names |-> Count(file, n)]
    /\ writer' = Nobody
    /\ UNCHANGED <<file, princ, fetched>>

(* A file renamed over lasts while a descriptor is open on it. *)
Replaced(i) ==
    IF \E p \in Procs : side'[p] # Closed /\ side'[p].id = i - 1
    THEN IF i = file.id + 1 THEN file ELSE replaced[i]
    ELSE Gone

Step ==
    \/ \E p \in Kdcs, n \in Names : Peek(p, n)
    \/ \E p \in Kdcs, n \in Names : Lookup(p, n)
    \/ \E p \in Kdcs, zero \in BOOLEAN, cut \in Cuts : Audit(p, zero, cut)
    \/ \E p \in Kdcs : NoAudit(p)
    \/ \E p \in Admins, n \in Names : GetPrincipal(p, n)
    \/ \E p \in Admins, n \in Names, cut \in Cuts : ZeroFailCount(p, n, cut)
    \/ \E p \in Admins, n \in Names : DeletePrincipal(p, n)
    \/ \E n \in Names : Create(n)
    \/ \E p \in Admins, old, new \in Names, cut \in Cuts : Rename(p, old, new, cut)
    \/ \E p \in Admins : Reconcile(p)
    \/ \E merge \in BOOLEAN, dumped \in 0 .. 1 : Load(merge, dumped)
    \/ WriteNext
    \/ \E killed \in BOOLEAN : Stop(killed)

Next ==
    /\ Step
    /\ replaced' = [i \in 1 .. file'.id |-> Replaced(i)]

Spec == Init /\ [][Next]_vars

-----------------------------------------------------------------------------
(* The count of dead lines is what decides on a rewrite; a file that is    *)
(* not whole ends in the line the writer was cut in (lockout/file.rs,      *)
(* Index).                                                                 *)
TypeOK ==
    /\ file.id \in 0 .. MaxFiles
    /\ file.whole \/ file.lines # <<>>
    /\ \A p \in Procs :
        side[p] # Closed => /\ side[p].at \in [Names -> 0 .. side[p].len]
                            /\ side[p].dead >= 0
                            /\ side[p].id <= file.id

(* No failure is lost and none is counted twice: whatever the processes'   *)
(* indexes say, the file holds the counts their updates, deletes and       *)
(* renames add up to (lockout/file.rs, update, under the exclusive lock).  *)
EveryUpdateCounts == Unlocked => \A n \in Names : Count(file, n) = rows[n]

(* A record read without the lock, also while another process writes or    *)
(* replaces the file, is the record a locked reader would get              *)
(* (lockout/file.rs, row_unlocked).                                        *)
UnlockedReadsAreCurrent ==
    \A p \in Procs, n \in Names :
        RowUnlocked(side[p], n) # None =>
            RowUnlocked(side[p], n) = Count(file, n)
=============================================================================
