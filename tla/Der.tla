--------------------------------- MODULE Der ---------------------------------
(***************************************************************************)
(* The encoder and decoder every protocol message goes through             *)
(* (vendor/rasn/src/ber as krb5-asn1 drives it: DER only): identifiers,    *)
(* lengths, the primitive types and the constructed ones, with the changes *)
(* the repository made for MIT's reading of a message: extensible          *)
(* sequences, padded integers, a 32-bit word read as a signed one.         *)
(*                                                                         *)
(* A message is a sequence of octets.  A type is a record with a kind; a   *)
(* field of a sequence holds a set with at most one value.  A tag is       *)
(* <<class, number>>.  What a decoder returns is a set with at most one    *)
(* element; it is empty on an error.                                       *)
(***************************************************************************)
EXTENDS Integers, Sequences, FiniteSets, SequencesExt, FiniteSetsExt

CONSTANTS
    Cases,       \* <<[type, values]>>: the types and the values of each that are sent
    Forms,       \* how the sender encodes: "Der", "Long", "Extended", "Indefinite"
    Tails,       \* what follows the message in its buffer
    Cuts,        \* how many octets at the end are lost
    IntOctets,   \* the octets of an integer the decoder takes: 8
    Word,        \* the octets of the word that is read as signed: 4
    RemainingDepth \* how deep constructed values may nest: 128

VARIABLES
    case,   \* the message's type
    value,  \* what was sent
    sent,   \* <<>>, or <<[form, tail, cut, octets]>>: how, and what is left of it
    got     \* <<>>, or <<what the decoder made of it>>

vars == <<case, value, sent, got>>

Universal(kind) ==
    CASE kind = "bool" -> <<0, 1>>
      [] kind = "int" -> <<0, 2>>
      [] kind = "bits" -> <<0, 3>>
      [] kind = "octets" -> <<0, 4>>
      [] kind = "null" -> <<0, 5>>
      [] kind = "oid" -> <<0, 6>>
      [] kind = "string" -> <<0, 27>>
      [] kind \in {"seq", "seqof"} -> <<0, 16>>
      [] kind = "setof" -> <<0, 17>>

-----------------------------------------------------------------------------
(* The encoder. *)

(* The digits of n in a base, the most significant first, none for 0. *)
Digits[n \in Nat, base \in {128, 256}] ==
    IF n = 0 THEN <<>> ELSE Append(Digits[n \div base, base], n % base)

(* encode_as_base128: every octet but the last has its high bit set. *)
Marked(ds) == [i \in DOMAIN ds |-> ds[i] + (IF i = Len(ds) THEN 0 ELSE 128)]

Base128(n) == IF n = 0 THEN <<0>> ELSE Marked(Digits[n, 128])

EncodeIdentifier(tag, constructed) ==
    LET first == 64 * tag[1] + (IF constructed THEN 32 ELSE 0)
    IN  IF tag[2] >= 31 THEN <<first + 31>> \o Base128(tag[2]) ELSE <<first + tag[2]>>

(* Mutant of EncodeDefiniteLength: the short form one octet too far. *)
DefiniteLengthPast(n) ==
    IF n <= 128 THEN <<n>> ELSE <<128 + Len(Digits[n, 256])>> \o Digits[n, 256]

EncodeDefiniteLength(n) ==
    IF n <= 127 THEN <<n>> ELSE <<128 + Len(Digits[n, 256])>> \o Digits[n, 256]

(* A sender that is not this encoder may write a length in more octets     *)
(* than it needs, or leave it open and close the contents with two zeros.  *)
PeerLength(how, constructed, n) ==
    CASE how = "Long" -> <<128 + 3>> \o <<0, n \div 256, n % 256>>
      [] how = "Indefinite" /\ constructed -> <<128>>
      [] OTHER -> EncodeDefiniteLength(n)

EncodeValue(how, tag, constructed, body) ==
    EncodeIdentifier(tag, constructed) \o PeerLength(how, constructed, Len(body)) \o body
      \o (IF how = "Indefinite" /\ constructed THEN <<0, 0>> ELSE <<>>)

(* needed_as_be_bytes: the fewest octets whose two's complement holds n. *)
Needed(n) == Min({k \in 1 .. IntOctets : 0 - 256^k <= 2 * n /\ 2 * n < 256^k})

Octets(n, k) == [i \in 1 .. k |-> (n \div 256^(k - i)) % 256]

(* The signed number with the bits of a word. *)
Int32(n) == IF n < 256^Word \div 2 THEN n ELSE n - 256^Word

(* encode_integer; a peer may put a redundant octet before it. *)
EncodeInteger(how, type, n) ==
    LET m == IF type.word THEN Int32(n) ELSE n
    IN  Octets(m, Needed(m) + (IF how = "Long" /\ Needed(m) < IntOctets THEN 1 ELSE 0))

(* encode_bit_string: the count of unused bits, then the bits in octets. *)
EncodeBits(bits) ==
    LET n == (Len(bits) + 7) \div 8
        bit(i) == IF i <= Len(bits) /\ bits[i] THEN 1 ELSE 0
        octet(k) == FoldLeft(LAMBDA a, j : 2 * a + bit(8 * (k - 1) + j), 0, <<1, 2, 3, 4, 5, 6, 7, 8>>)
    IN  <<8 * n - Len(bits)>> \o [k \in 1 .. n |-> octet(k)]

(* object_identifier_as_bytes: the first two arcs share a number. *)
EncodeOid(arcs) ==
    FlattenSeq([i \in 1 .. Len(arcs) - 1 |->
        Base128(IF i = 1 THEN 40 * arcs[1] + arcs[2] ELSE arcs[i + 1])])

Contents(how, type, v) ==
    CASE type.kind = "bool" -> <<IF v THEN 255 ELSE 0>>
      [] type.kind = "int" -> EncodeInteger(how, type, v)
      [] type.kind = "bits" -> EncodeBits(v)
      [] type.kind = "oid" -> EncodeOid(v)
      [] type.kind = "null" -> <<>>
      [] type.kind \in {"octets", "string"} -> v

(* The order of encodings in a SET OF. *)
Less(a, b) ==
    \/ Len(a) < Len(b) /\ IsPrefix(a, b)
    \/ \E i \in DOMAIN a \cap DOMAIN b : a[i] < b[i] /\ \A j \in 1 .. i - 1 : a[j] = b[j]

EncodeSetOf(encodings) == FlattenSeq(SetToSortSeq(encodings, Less))

RECURSIVE Encode(_, _, _)

EncodeExplicit(how, tag, of, v) == EncodeValue(how, tag, TRUE, Encode(how, of, v))

(* encode_some and encode_none of a field. *)
EncodeField(how, field, v) ==
    IF v = {} THEN <<>> ELSE EncodeExplicit(how, field.tag, field.type, CHOOSE x \in v : TRUE)

(* A later version of the protocol appends fields to a SEQUENCE. *)
Appended(how) == IF how = "Extended" THEN EncodeValue(how, <<2, 29>>, TRUE, <<5, 0>>) ELSE <<>>

EncodeSequence(how, type, v) ==
    FlattenSeq([i \in DOMAIN type.fields |-> EncodeField(how, type.fields[i], v[i])]) \o Appended(how)

Encode(how, type, v) ==
    CASE type.kind = "seq" ->
           EncodeValue(how, Universal("seq"), TRUE, EncodeSequence(how, type, v))
      [] type.kind = "seqof" ->
           EncodeValue(how, Universal("seqof"), TRUE,
                       FlattenSeq([i \in DOMAIN v |-> Encode(how, type.of, v[i])]))
      [] type.kind = "setof" ->
           EncodeValue(how, Universal("setof"), TRUE, EncodeSetOf({Encode(how, type.of, x) : x \in v}))
      [] type.kind = "explicit" ->
           EncodeExplicit(how, type.tag, type.of, v)
      [] type.kind = "choice" -> Encode(how, type.alts[v.alt], v.v)
      [] type.kind = "any" -> v
      [] OTHER -> EncodeValue(how, Universal(type.kind), FALSE, Contents(how, type, v))

-----------------------------------------------------------------------------
(* The decoder. *)
Past(input, n) == SubSeq(input, n + 1, Len(input))

Take(input, n) ==
    IF n > Len(input) THEN {} ELSE {[body |-> SubSeq(input, 1, n), rest |-> Past(input, n)]}

Number(ds, base) == FoldLeft(LAMBDA a, d : base * a + (d % base), 0, ds)

(* parse_encoded_number and parse_base128_number: through the first octet  *)
(* without the high bit.                                                   *)
ParseBase128(input) ==
    LET ends == {i \in DOMAIN input : input[i] < 128}
    IN  IF ends = {} THEN {}
        ELSE {[n |-> Number(SubSeq(input, 1, Min(ends)), 128), rest |-> Past(input, Min(ends))]}

(* parse_identifier_octet: the tag of the end of contents is an error. *)
Identifier(first, number, rest) ==
    [tag |-> <<first \div 64, number>>, constructed |-> (first \div 32) % 2 = 1, rest |-> rest]

ParseIdentifier(input) ==
    IF input = <<>> \/ Head(input) \in {0, 32} THEN {}
    ELSE IF Head(input) % 32 = 31
    THEN {Identifier(Head(input), r.n, r.rest) : r \in ParseBase128(Tail(input))}
    ELSE {Identifier(Head(input), Head(input) % 32, Tail(input))}

(* take_contents and parse_contents: 0x80 is refused under DER, 0xff is    *)
(* reserved, and a length may have octets it does not need.                *)
ParseContents(input) ==
    IF input = <<>> \/ Head(input) \in {128, 255} THEN {}
    ELSE IF Head(input) < 128 THEN Take(Tail(input), Head(input))
    ELSE UNION {Take(l.rest, Number(l.body, 256)) : l \in Take(Tail(input), Head(input) - 128)}

(* parse_value. *)
ParseValue(input) ==
    UNION {{[tag |-> i.tag, constructed |-> i.constructed, body |-> c.body, rest |-> c.rest] :
                c \in ParseContents(i.rest)} : i \in ParseIdentifier(input)}

ParseTagged(input, tag, constructed) ==
    {p \in ParseValue(input) : p.tag = tag /\ p.constructed = constructed}

(* Mutant of Trim: an octet that repeats the sign is not dropped. *)
TrimNone(c) == c

(* decode_integer drops leading octets that only repeat the sign. *)
Redundant(c, k) == \A i \in 1 .. k : c[i] = (IF c[k + 1] >= 128 THEN 255 ELSE 0)

Trim(c) == Past(c, Max({k \in 0 .. Len(c) - 1 : Redundant(c, k)}))

Signed(c) == IF Head(c) >= 128 THEN Number(c, 256) - 256^Len(c) ELSE Number(c, 256)

(* A word takes any signed word and keeps its bits. *)
TryFromSigned(type, c) ==
    IF Len(c) > type.width THEN {}
    ELSE {n \in {IF type.word /\ Head(c) >= 128 THEN Signed(c) + 256^Word ELSE Signed(c)} :
              type.signed \/ n >= 0}

DecodeInteger(type, c) ==
    IF c = <<>> \/ Len(c) > IntOctets THEN {} ELSE TryFromSigned(type, Trim(c))

BitAt(octet, j) == (octet \div 2^(8 - j)) % 2 = 1

DecodeBits(c) ==
    IF c = <<>> \/ Head(c) > 7 \/ 8 * (Len(c) - 1) < Head(c) THEN {}
    ELSE {[i \in 1 .. 8 * (Len(c) - 1) - Head(c) |->
              BitAt(c[2 + ((i - 1) \div 8)], 1 + ((i - 1) % 8))]}

(* decode_object_identifier_from_bytes. *)
FirstArcs(n) == IF n > 2 * 40 + 39 THEN <<2, n - 80>> ELSE <<n \div 40, n % 40>>

Arcs(c) ==
    LET ends == SetToSortSeq({i \in DOMAIN c : c[i] < 128}, <)
        from(k) == IF k = 1 THEN 1 ELSE ends[k - 1] + 1
    IN  [k \in DOMAIN ends |-> Number(SubSeq(c, from(k), ends[k]), 128)]

DecodeOid(c) ==
    IF c = <<>> \/ c[Len(c)] >= 128 THEN {}
    ELSE {FirstArcs(Head(ns)) \o Tail(ns) : ns \in {Arcs(c)}}

DecodeBool(c) == IF Len(c) = 1 /\ Head(c) \in {0, 255} THEN {Head(c) = 255} ELSE {}

SizeOk(type, c) == Len(c) \in type.sizes

InAlphabet(type, c) == ToSet(c) \subseteq type.alphabet

(* decode_octet_string and the strings read through it. *)
DecodeString(type, c) == IF SizeOk(type, c) /\ InAlphabet(type, c) THEN {c} ELSE {}

Primitive(type, c) ==
    CASE type.kind = "bool" -> DecodeBool(c)
      [] type.kind = "int" -> DecodeInteger(type, c)
      [] type.kind = "bits" -> DecodeBits(c)
      [] type.kind = "oid" -> DecodeOid(c)
      [] type.kind = "null" -> IF c = <<>> THEN {"null"} ELSE {}
      [] type.kind \in {"octets", "string"} -> DecodeString(type, c)

RECURSIVE Decode(_, _, _)

(* parse_constructed_contents: what is inside is one level deeper.         *)
Constructed(depth, input, tag) == IF depth = 0 THEN {} ELSE ParseTagged(input, tag, TRUE)

Deeper(depth, by) == IF depth < by THEN 0 ELSE depth - by

(* decode_explicit_prefix: nothing may follow the value inside the tag. *)
DecodeExplicit(depth, tag, of, input) ==
    UNION {{[v |-> d.v, rest |-> p.rest] : d \in {x \in Decode(depth - 1, of, p.body) : x.rest = <<>>}} :
               p \in Constructed(depth, input, tag)}

(* decode_optional_with_explicit_prefix: none at the end, before a         *)
(* primitive element and before another tag.                               *)
Absent(field, input) ==
    \/ input = <<>>
    \/ \E i \in ParseIdentifier(input) : ~ i.constructed \/ i.tag # field.tag

DecodeField(depth, field, st) ==
    IF field.opt /\ Absent(field, st.rest) THEN {[v |-> Append(st.v, {}), rest |-> st.rest]}
    ELSE {[v |-> Append(st.v, {d.v}), rest |-> d.rest] :
              d \in DecodeExplicit(depth, field.tag, field.type, st.rest)}

(* Mutant of DecodeSequence: what no field reads is an error. *)
DecodeSequenceClosed(depth, type, p) ==
    {[v |-> s.v, rest |-> p.rest] : s \in
        {x \in FoldLeft(LAMBDA sts, f : UNION {DecodeField(depth - 1, f, st) : st \in sts},
                        {[v |-> <<>>, rest |-> p.body]}, type.fields) : x.rest = <<>>}}

(* decode_sequence: what no field reads is left unread. *)
DecodeSequence(depth, type, p) ==
    {[v |-> s.v, rest |-> p.rest] : s \in
        FoldLeft(LAMBDA sts, f : UNION {DecodeField(depth - 1, f, st) : st \in sts},
                 {[v |-> <<>>, rest |-> p.body]}, type.fields)}

RECURSIVE DecodeAll(_, _, _)

DecodeAll(depth, of, st) ==
    IF st.rest = <<>> THEN {st.v}
    ELSE UNION {DecodeAll(depth, of, [v |-> Append(st.v, d.v), rest |-> d.rest]) :
                    d \in Decode(depth, of, st.rest)}

(* decode_sequence_of and decode_set_of count two levels. *)
DecodeItems(depth, type, p) == DecodeAll(Deeper(depth, 2), type.of, [v |-> <<>>, rest |-> p.body])

(* decode_choice: the tag says which alternative it is. *)
AltTag(alt) == IF alt.kind = "explicit" THEN alt.tag ELSE Universal(alt.kind)

DecodeChoice(depth, type, input) ==
    UNION {{[v |-> [alt |-> a, v |-> d.v], rest |-> d.rest] : d \in Decode(depth, type.alts[a], input)} :
        a \in {b \in DOMAIN type.alts : \E i \in ParseIdentifier(input) : i.tag = AltTag(type.alts[b])}}

(* decode_any: the element as it was written. *)
DecodeAny(input) ==
    {[v |-> SubSeq(input, 1, Len(input) - Len(p.rest)), rest |-> p.rest] : p \in ParseValue(input)}

Decode(depth, type, input) ==
    CASE type.kind = "seq" ->
           UNION {DecodeSequence(depth, type, p) : p \in Constructed(depth, input, Universal("seq"))}
      [] type.kind = "seqof" ->
           UNION {{[v |-> items, rest |-> p.rest] : items \in DecodeItems(depth, type, p)} :
                      p \in Constructed(depth, input, Universal("seqof"))}
      [] type.kind = "setof" ->
           UNION {{[v |-> ToSet(items), rest |-> p.rest] : items \in DecodeItems(depth, type, p)} :
                      p \in Constructed(depth, input, Universal("setof"))}
      [] type.kind = "explicit" -> DecodeExplicit(depth, type.tag, type.of, input)
      [] type.kind = "choice" -> DecodeChoice(depth, type, input)
      [] type.kind = "any" -> DecodeAny(input)
      [] OTHER ->
           UNION {{[v |-> x, rest |-> p.rest] : x \in Primitive(type, p.body)} :
                      p \in ParseTagged(input, Universal(type.kind), FALSE)}

-----------------------------------------------------------------------------
Init ==
    /\ case \in DOMAIN Cases
    /\ value \in Cases[case].values
    /\ sent = <<>>
    /\ got = <<>>

(* krb5_asn1::encode, or a peer's encoder; the buffer the message arrives  *)
(* in may be too short for it or hold more.                                *)
Arrived(octets, tail, cut) == SubSeq(octets, 1, Len(octets) - cut) \o tail

Send(form, tail, cut) ==
    /\ sent = <<>>
    /\ tail = <<>> \/ cut = 0
    /\ sent' = <<[form |-> form, tail |-> tail, cut |-> cut,
                  octets |-> Arrived(Encode(form, Cases[case].type, value), tail, cut)]>>
    /\ UNCHANGED <<case, value, got>>

(* krb5_asn1::decode of what arrived. *)
Receive ==
    /\ sent # <<>>
    /\ got = <<>>
    /\ got' = <<Decode(RemainingDepth, Cases[case].type, sent[1].octets)>>
    /\ UNCHANGED <<case, value, sent>>

Next == Receive \/ \E form \in Forms, tail \in Tails, cut \in Cuts : Send(form, tail, cut)

Spec == Init /\ [][Next]_vars

-----------------------------------------------------------------------------
RECURSIVE Nesting(_, _)

(* How many levels of RemainingDepth a value takes. *)
Deepest(ns) == Max({0} \cup ns)

Nesting(type, v) ==
    CASE type.kind = "seq" ->
           1 + Deepest(UNION {{1 + Nesting(type.fields[i].type, x) : x \in v[i]} : i \in DOMAIN v})
      [] type.kind = "seqof" ->
           LET d == Deepest({Nesting(type.of, v[i]) : i \in DOMAIN v}) IN IF d = 0 THEN 1 ELSE 2 + d
      [] type.kind = "setof" ->
           LET d == Deepest({Nesting(type.of, x) : x \in v}) IN IF d = 0 THEN 1 ELSE 2 + d
      [] type.kind = "explicit" -> 1 + Nesting(type.of, v)
      [] type.kind = "choice" -> Nesting(type.alts[v.alt], v.v)
      [] OTHER -> 0

Readable(how) ==
    /\ how.cut = 0
    /\ how.form = "Indefinite" => Nesting(Cases[case].type, value) = 0
    /\ Nesting(Cases[case].type, value) <= RemainingDepth

(* A message reads as exactly what was sent, whatever lengths, padding and *)
(* later fields the sender chose and whatever follows it in the buffer,    *)
(* and a cut, open-ended or too deep one reads as nothing, never as        *)
(* another value (encode_value, parse_value, decode_sequence,              *)
(* decode_integer).                                                        *)
ReadsWhatWasSent ==
    got # <<>> =>
        got[1] = IF Readable(sent[1]) THEN {[v |-> value, rest |-> sent[1].tail]} ELSE {}
=============================================================================
