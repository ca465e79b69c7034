-------------------------------- MODULE Keytab --------------------------------
(***************************************************************************)
(* Keytab files and the commands that change them: the file format with    *)
(* its holes and its terminator (krb5-protocol/src/keytab.rs), ktutil's    *)
(* key list (krb5-admin/src/bin/krb5-ktutil.rs), and kadmin's ktadd and    *)
(* ktremove (krb5-admin/src/kadmin_cli/kt_cmds.rs).  A file is a sequence  *)
(* of four-byte cells: the version, then records, each a size and that     *)
(* many cells.  A size below zero is a hole, a size of zero ends the file. *)
(* The body of an entry is its number, filler and the 32-bit kvno; in a    *)
(* version 1 file the name type is left out and the size still counts it.  *)
(***************************************************************************)
EXTENDS Integers, Sequences, FiniteSets, SequencesExt

CONSTANTS
    Table,     \* the entries: sequence of [princ, kvno, known, size]
    Files,     \* the keytab files to begin with; <<>> for none
    Princs,    \* the principals ktremove is called for
    Added,     \* the sequences of entries ktadd is called with
    MaxSlots   \* bound on the slots of the file and of the key list

VARIABLES
    file,  \* the keytab
    list,  \* ktutil's key list
    want,  \* history: entry -> how often the file should hold it
    shown  \* history: the key list as `list' printed it last

vars == <<file, list, want, shown>>

Ids == DOMAIN Table

Filler == 90

Zeros(n) == [i \in 1 .. n |-> 0]

Number(id) == 70 + id

(* Fields::write: the cells of an entry's body. *)
Body(id, ver) ==
    <<Number(id)>> \o [i \in 1 .. Table[id].size - (IF ver = 1 THEN 2 ELSE 1) |-> Filler]

Written(id, ver) == Len(Body(id, ver))

Padded(out, n) == IF Len(out) < n THEN out \o Zeros(n - Len(out)) ELSE out

Empty(ver) == [ver |-> ver, entries |-> <<>>, unparsed |-> <<>>]

-----------------------------------------------------------------------------
(* parse_entry: an entry of a known encryption type, one that is kept as   *)
(* it is, the end of a file that was cut, or an error.                     *)
Entry(body, ver) ==
    LET ids == {id \in Ids : body # <<>> /\ body[1] = Number(id)}
    IN  CASE body = <<>> -> [kind |-> "end", id |-> 0]
          [] body # <<>> /\ ids = {} -> [kind |-> "bad", id |-> 0]
          [] \E id \in ids : Len(body) < Written(id, ver) -> [kind |-> "end", id |-> 0]
          [] \E id \in ids : Len(body) >= Written(id, ver) /\ Table[id].known ->
                [kind |-> "entry", id |-> CHOOSE id \in ids : TRUE]
          [] OTHER -> [kind |-> "unparsed", id |-> CHOOSE id \in ids : TRUE]

(* Keytab::parse from a position on; `ok' is FALSE when it is an error. *)
RECURSIVE ParseFrom(_, _, _)
ParseRecord(cells, pos, kt, end, body) ==
    LET e == Entry(body, kt.ver)
    IN  CASE e.kind = "entry" ->
               ParseFrom(cells, end + 1, [kt EXCEPT !.entries = Append(@, e.id)])
          [] e.kind = "unparsed" ->
               ParseFrom(cells, end + 1,
                         [kt EXCEPT !.unparsed = Append(@, [at |-> Len(kt.entries), raw |-> body])])
          [] e.kind = "end" -> [ok |-> TRUE, kt |-> kt]
          [] OTHER -> [ok |-> FALSE, kt |-> kt]

ParseFrom(cells, pos, kt) ==
    CASE pos > Len(cells) -> [ok |-> TRUE, kt |-> kt]
      [] pos <= Len(cells) /\ cells[pos] = 0 -> [ok |-> TRUE, kt |-> kt]
      [] pos <= Len(cells) /\ cells[pos] < 0 -> ParseFrom(cells, pos + 1 - cells[pos], kt)
      [] OTHER ->
            ParseRecord(cells, pos, kt, pos + cells[pos],
                        SubSeq(cells, pos + 1, IF pos + cells[pos] > Len(cells) THEN Len(cells)
                                               ELSE pos + cells[pos]))

Parse(cells) == ParseFrom(cells, 2, Empty(cells[1]))

(* Keytab::slots: the entries in file order, each the number of an entry;  *)
(* those kept as they are stand before the entry of their index.           *)
RawId(raw) == CHOOSE id \in Ids : raw[1] = Number(id)

RECURSIVE Merge(_, _, _)
Merge(kt, ei, ui) ==
    CASE ui <= Len(kt.unparsed) /\ (ei > Len(kt.entries) \/ kt.unparsed[ui].at < ei) ->
            <<[raw |-> kt.unparsed[ui].raw, entry |-> FALSE]>> \o Merge(kt, ei, ui + 1)
      [] ei <= Len(kt.entries) /\ ~ (ui <= Len(kt.unparsed) /\ kt.unparsed[ui].at < ei) ->
            <<[raw |-> Body(kt.entries[ei], kt.ver), entry |-> TRUE]>> \o Merge(kt, ei + 1, ui)
      [] OTHER -> <<>>

Slots(kt) == Merge(kt, 1, 1)

SlotIds(kt) == [i \in DOMAIN Slots(kt) |-> RawId(Slots(kt)[i].raw)]

(* Keytab::to_bytes: no holes; version 1 pads an entry, but not the last. *)
Marshal(slot, ver, last) ==
    IF slot.entry
    THEN <<Table[RawId(slot.raw)].size>> \o slot.raw \o (IF ver = 1 /\ ~ last THEN <<0>> ELSE <<>>)
    ELSE <<Len(slot.raw)>> \o slot.raw

ToBytes(kt) ==
    <<kt.ver>> \o FlattenSeq([i \in DOMAIN Slots(kt) |->
                                 Marshal(Slots(kt)[i], kt.ver, i = Len(Slots(kt)))])

-----------------------------------------------------------------------------
(* find_slot: a hole that is large enough, the terminator, or the end of   *)
(* the file; the size the record gets is the hole's.                       *)
NoSlot(out) == [ok |-> FALSE, out |-> out, commit |-> 0, size |-> 0]

Found(out, commit, size) == [ok |-> TRUE, out |-> out, commit |-> commit, size |-> size]

AtEnd(out, commit, needed) ==
    IF commit > Len(out) + 2 THEN NoSlot(out) ELSE Found(Padded(out, commit), commit, needed)

AtZero(out, pos, needed) ==
    Found([Padded(out, pos + 1 + needed) EXCEPT ![pos + 1 + needed] = 0], pos, needed)

(* Mutant of Hole: the record is given the size it needs, not the hole's. *)
HoleShrunk(out, pos, hole, needed) == Found(out, pos, needed)

Hole(out, pos, hole, needed) == Found(out, pos, hole)

RECURSIVE FindSlot(_, _, _)
FindSlot(out, needed, pos) ==
    CASE pos > Len(out) -> AtEnd(out, pos, needed)
      [] pos <= Len(out) /\ out[pos] > 0 -> FindSlot(out, needed, pos + 1 + out[pos])
      [] pos <= Len(out) /\ out[pos] < 0 /\ - out[pos] >= needed -> Hole(out, pos, - out[pos], needed)
      [] pos <= Len(out) /\ out[pos] < 0 /\ - out[pos] < needed ->
            FindSlot(out, needed, pos + 1 - out[pos])
      [] OTHER -> AtZero(out, pos, needed)

Put(slot, body) ==
    [i \in 1 .. Len(Padded(slot.out, slot.commit + Len(body))) |->
        IF i = slot.commit THEN slot.size
        ELSE IF i > slot.commit /\ i <= slot.commit + Len(body) THEN body[i - slot.commit]
        ELSE Padded(slot.out, slot.commit + Len(body))[i]]

PutIn(slot, id, ver) == [ok |-> slot.ok, out |-> IF slot.ok THEN Put(slot, Body(id, ver)) ELSE slot.out]

(* add_to_keytab_file; nothing is written when one record finds no place. *)
AddAll(cells, ids) ==
    FoldLeft(LAMBDA r, id : IF r.ok THEN PutIn(FindSlot(r.out, Table[id].size, 2), id, cells[1]) ELSE r,
             [ok |-> TRUE, out |-> cells], ids)

-----------------------------------------------------------------------------
(* ktutil's commands *)
ClearList == list' = Empty(2) /\ shown' = <<>> /\ UNCHANGED <<file, want>>

(* Keytab::merge; a raw record of a version 1 file is written anew. *)
Reraw(raw, from) == IF from = 1 THEN Body(RawId(raw), 2) ELSE raw

Merged(kt, other) ==
    [kt EXCEPT !.entries = @ \o other.entries,
               !.unparsed = @ \o [i \in DOMAIN other.unparsed |->
                                     [at |-> other.unparsed[i].at + Len(kt.entries),
                                      raw |-> Reraw(other.unparsed[i].raw, other.ver)]]]

ReadKt ==
    /\ file # <<>>
    /\ \E p \in {Parse(file)} :
          /\ p.ok
          /\ Len(shown) + Len(SlotIds(p.kt)) <= MaxSlots
          /\ list' = Merged(list, p.kt)
          /\ shown' = shown \o SlotIds(p.kt)
    /\ UNCHANGED <<file, want>>

Counted(ids) == [id \in Ids |-> Cardinality({i \in DOMAIN ids : ids[i] = id})]

Plus(a, b) == [id \in Ids |-> a[id] + b[id]]

Total(w) == FoldLeft(LAMBDA n, id : n + w[id], 0, [id \in Ids |-> id])

WriteKt ==
    /\ shown # <<>>
    /\ Total(want) + Len(shown) <= MaxSlots
    /\ \E r \in {AddAll(IF file = <<>> THEN <<2>> ELSE file, SlotIds(list))} :
          IF r.ok THEN file' = r.out /\ want' = Plus(want, Counted(shown))
          ELSE UNCHANGED <<file, want>>
    /\ UNCHANGED <<list, shown>>

AddEntry(id) ==
    /\ Table[id].known
    /\ Len(shown) < MaxSlots
    /\ list' = [list EXCEPT !.entries = Append(@, id)]
    /\ shown' = Append(shown, id)
    /\ UNCHANGED <<file, want>>

(* Mutant of Shift: the raw records keep their index. *)
ShiftNot(unparsed, ei) == unparsed

Shift(unparsed, ei) ==
    [i \in DOMAIN unparsed |->
        IF unparsed[i].at >= ei THEN [unparsed[i] EXCEPT !.at = @ - 1] ELSE unparsed[i]]

(* Keytab::remove_slot: the slot is the n-th entry or the n-th raw record. *)
RemoveSlot(kt, slot, nth) ==
    IF Slots(kt)[slot].entry
    THEN [kt EXCEPT !.entries = RemoveAt(@, nth), !.unparsed = Shift(@, nth)]
    ELSE [kt EXCEPT !.unparsed = RemoveAt(@, nth)]

DeleteEntry(slot) ==
    /\ slot \in DOMAIN shown
    /\ list' = RemoveSlot(list, slot,
                          Cardinality({i \in 1 .. slot : Slots(list)[i].entry = Slots(list)[slot].entry}))
    /\ shown' = RemoveAt(shown, slot)
    /\ UNCHANGED <<file, want>>

-----------------------------------------------------------------------------
(* kadmin's ktadd: the whole file is read, extended and written. *)
AddEntries(kt, ids) == [kt EXCEPT !.entries = @ \o ids]

Ktadd(ids) ==
    /\ Total(want) + Len(ids) <= MaxSlots
    /\ \E p \in {IF file = <<>> THEN [ok |-> TRUE, kt |-> Empty(2)] ELSE Parse(file)} :
          /\ p.ok
          /\ file' = ToBytes(AddEntries(p.kt, ids))
    /\ want' = Plus(want, Counted(ids))
    /\ UNCHANGED <<list, shown>>

(* ktremove: one kvno, the highest, all, or all but the highest; a raw     *)
(* record is never taken.                                                  *)
Kvnos(kt, princ) ==
    {Table[kt.entries[i]].kvno : i \in {j \in DOMAIN kt.entries : Table[kt.entries[j]].princ = princ}}

Highest(kvnos) == CHOOSE k \in kvnos : \A j \in kvnos : j <= k

Takes(id, princ, how, kvno) ==
    /\ Table[id].princ = princ
    /\ \/ how = "all"
       \/ how \in {"spec", "high"} /\ Table[id].kvno = kvno
       \/ how = "old" /\ Table[id].kvno # kvno

Gone(kt, princ, how, kvno) ==
    {i \in DOMAIN kt.entries : Takes(kt.entries[i], princ, how, kvno)}

Removed(kt, gone) ==
    [kt EXCEPT !.entries = [n \in 1 .. Len(@) - Cardinality(gone) |->
                               @[CHOOSE i \in DOMAIN @ \ gone :
                                    Cardinality({j \in DOMAIN @ \ gone : j <= i}) = n]],
               !.unparsed = [i \in DOMAIN @ |->
                               [@[i] EXCEPT !.at = @ - Cardinality({g \in gone : g <= @})]]]

RemovePrincipal(princ, how, kvno, kt) ==
    /\ Kvnos(kt, princ) # {}
    /\ how = "spec" => kvno \in Kvnos(kt, princ)
    /\ how # "spec" => kvno = Highest(Kvnos(kt, princ))
    /\ Gone(kt, princ, how, kvno) # {}
    /\ file' = ToBytes(Removed(kt, Gone(kt, princ, how, kvno)))
    /\ want' = [id \in Ids |-> IF Table[id].known /\ Takes(id, princ, how, kvno) THEN 0 ELSE want[id]]

Ktremove(princ, how, kvno) ==
    /\ file # <<>>
    /\ \E p \in {Parse(file)} : p.ok /\ RemovePrincipal(princ, how, kvno, p.kt)
    /\ UNCHANGED <<list, shown>>

-----------------------------------------------------------------------------
Init ==
    /\ file \in Files
    /\ list = Empty(2)
    /\ want = IF file = <<>> THEN Counted(<<>>) ELSE Counted(SlotIds(Parse(file).kt))
    /\ shown = <<>>

Next ==
    \/ ClearList \/ ReadKt \/ WriteKt
    \/ \E id \in Ids : AddEntry(id)
    \/ \E slot \in 1 .. MaxSlots : DeleteEntry(slot)
    \/ \E ids \in Added : Ktadd(ids)
    \/ \E princ \in Princs, how \in {"spec", "high", "all", "old"} :
          \E kvno \in {Table[id].kvno : id \in Ids} : Ktremove(princ, how, kvno)

Spec == Init /\ [][Next]_vars

(* Whatever holes, terminator or version the file has, a reader finds      *)
(* after any sequence of ktutil and kadmin commands exactly the entries    *)
(* that were added and not removed, those of unknown encryption types      *)
(* included; and the slots of ktutil's list are the ones it printed, so    *)
(* that a slot number deletes the entry it named (find_slot, to_bytes,     *)
(* remove_slot).                                                           *)
KeytabHolds ==
    /\ file # <<>> => Parse(file).ok /\ Counted(SlotIds(Parse(file).kt)) = want
    /\ SlotIds(list) = shown
=============================================================================
