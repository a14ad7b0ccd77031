------------------------------- MODULE Codec --------------------------------
(***************************************************************************)
(* The bounded binary codec (persistence.cpp: Encoder, Decoder) under both *)
(* the wire messages and the state file.                                   *)
(*                                                                         *)
(* A record layout is a sequence of fields.  The writer and the reader of  *)
(* a record each have their own layout, translated from their own code: in *)
(* the writer's a bound is the largest length the program can reach and a  *)
(* range holds the values of the enumeration; in the reader's they are the *)
(* checks made before anything is accepted.                                *)
(*                                                                         *)
(* An encoded record is a sequence of bytes <<token, i>>: byte i of the    *)
(* token.  Contents are opaque tokens that name the field they belong to,  *)
(* so a reader out of step with its writer takes bytes of another field.   *)
(* A nested record is one byte: it is read as a whole or refused, which is *)
(* what the runs show of its own layout.                                   *)
(*                                                                         *)
(* The buffer has room for every record: Encoder::require_capacity, which  *)
(* cuts one that grows past max_persistence_bytes, is left out.            *)
(***************************************************************************)
EXTENDS Integers, Sequences, SequencesExt

\* Field constructors.  f64 and i64 travel as u64.
Words(width, names) ==
    [i \in DOMAIN names |-> [op |-> "word", name |-> names[i], width |-> width]]
u16(names) == Words(2, names)
u32(names) == Words(4, names)
u64(names) == Words(8, names)
Ranged(width, name, low, high) ==
    <<[op |-> "range", name |-> name, width |-> width, low |-> low, high |-> high]>>
enum(name, low, high) == Ranged(1, name, low, high)
boolean(names) == [i \in DOMAIN names |-> enum(names[i], 0, 1)[1]]
zero(name) == Ranged(4, name, 0, 0)
text(name, bound) == <<[op |-> "text", name |-> name, bound |-> bound]>>
list(name, bound, inner) == <<[op |-> "list", name |-> name, bound |-> bound, inner |-> inner]>>
optional(name, inner) == <<[op |-> "optional", name |-> name, inner |-> inner]>>
nested(name, kind) == <<[op |-> "record", name |-> name, kind |-> kind]>>
\* A u32 that repeats the length of an earlier byte string.
size(name, of) == <<[op |-> "size", name |-> name, of |-> of]>>

-----------------------------------------------------------------------------
(* Values.  A shape says how long the variable parts of a record are.      *)

Least(a, b) == IF a < b THEN a ELSE b
Content(path, name) == <<"content", path, name>>
Number(k) == <<"number", k>>
Garbage == <<"garbage">>

RECURSIVE ValueOf(_, _, _)
FieldValue(f, fields, path, shape) ==
    CASE f.op = "word" -> Content(path, f.name)
      [] f.op = "range" -> IF shape.high THEN f.high ELSE f.low
      [] f.op = "text" ->
           [j \in 1..Least(shape.len, f.bound) |-> Content(Append(path, j), f.name)]
      [] f.op = "list" ->
           [j \in 1..Least(shape.len, f.bound) |-> ValueOf(f.inner, Append(path, j), shape)]
      [] f.op = "optional" -> IF shape.present THEN <<ValueOf(f.inner, path, shape)>> ELSE <<>>
      [] f.op = "record" -> <<"record", f.kind, path, f.name>>
      [] f.op = "size" ->
           Least(shape.len, (CHOOSE g \in Range(fields) : g.name = f.of).bound)
ValueOf(fields, path, shape) ==
    [n \in {f.name : f \in Range(fields)} |->
        FieldValue(CHOOSE f \in Range(fields) : f.name = n, fields, path, shape)]

-----------------------------------------------------------------------------
(* Encoder. *)

Bytes(token, width) == [i \in 1..width |-> <<token, i>>]

RECURSIVE Encode(_, _)
EncodeField(f, v) ==
    CASE f.op = "word" -> Bytes(v[f.name], f.width)
      [] f.op = "range" -> Bytes(Number(v[f.name]), f.width)
      [] f.op = "text" ->
           Bytes(Number(Len(v[f.name])), 4) \o [j \in DOMAIN v[f.name] |-> <<v[f.name][j], 1>>]
      [] f.op = "list" ->
           Bytes(Number(Len(v[f.name])), 4)
             \o FlattenSeq([j \in DOMAIN v[f.name] |-> Encode(f.inner, v[f.name][j])])
      [] f.op = "optional" ->
           Bytes(Number(Len(v[f.name])), 1)
             \o FlattenSeq([j \in DOMAIN v[f.name] |-> Encode(f.inner, v[f.name][j])])
      [] f.op = "record" -> Bytes(v[f.name], 1)
      [] f.op = "size" -> Bytes(Number(v[f.name]), 4)
Encode(fields, v) == FlattenSeq([i \in DOMAIN fields |-> EncodeField(fields[i], v)])

-----------------------------------------------------------------------------
(* Decoder.  A cursor [ok, at, value] holds the offset and what is read so far. *)

Cursor(at) == [ok |-> TRUE, at |-> at, value |-> <<>>]
Refuse(d) == [d EXCEPT !.ok = FALSE]
Accept(d, at, name, v) ==
    [d EXCEPT !.at = at,
              !.value = [n \in DOMAIN @ \cup {name} |-> IF n = name THEN v ELSE @[n]]]

have(tape, at, count) == at + count <= Len(tape)
\* The token in the next width bytes.
Token(tape, at, width) ==
    LET token == tape[at + 1][1]
    IN IF \A i \in 1..width : tape[at + i] = <<token, i>> THEN token ELSE Garbage
\* The number in the next width bytes, -1 when they are missing or hold no number.
NumberAt(tape, at, width) ==
    IF have(tape, at, width) /\ Token(tape, at, width)[1] = "number"
      THEN Token(tape, at, width)[2] ELSE -1

ReadWord(f, d, tape) ==
    IF have(tape, d.at, f.width)
      THEN Accept(d, d.at + f.width, f.name, Token(tape, d.at, f.width)) ELSE Refuse(d)

ReadRange(f, d, tape) ==
    LET k == NumberAt(tape, d.at, f.width)
    IN IF k \in f.low..f.high THEN Accept(d, d.at + f.width, f.name, k) ELSE Refuse(d)

\* Mutant: the longest string is refused.
ReadText_below(f, d, tape) ==
    LET length == NumberAt(tape, d.at, 4)
    IN IF length \in 0..(f.bound - 1) /\ have(tape, d.at + 4, length)
         THEN Accept(d, d.at + 4 + length, f.name,
                     [j \in 1..length |-> Token(tape, d.at + 3 + j, 1)])
         ELSE Refuse(d)

ReadText(f, d, tape) ==
    LET length == NumberAt(tape, d.at, 4)
        from == d.at + 4
    IN IF length \in 0..f.bound /\ have(tape, from, length)
         THEN Accept(d, from + length, f.name, [j \in 1..length |-> Token(tape, from + j - 1, 1)])
         ELSE Refuse(d)

ReadSize(f, d, tape) ==
    IF NumberAt(tape, d.at, 4) = Len(d.value[f.of])
      THEN Accept(d, d.at + 4, f.name, Len(d.value[f.of])) ELSE Refuse(d)

ReadRecord(f, d, tape) ==
    IF have(tape, d.at, 1) /\ Token(tape, d.at, 1)[1] = "record" /\ Token(tape, d.at, 1)[2] = f.kind
      THEN Accept(d, d.at + 1, f.name, Token(tape, d.at, 1)) ELSE Refuse(d)

RECURSIVE Decode(_, _, _)
RECURSIVE ReadOn(_, _, _, _)
RECURSIVE Elements(_, _, _, _)
\* count more elements of the layout inner; e holds the ones read.
Elements(inner, e, count, tape) ==
    IF count = 0 THEN e
    ELSE LET element == Decode(inner, tape, e.at)
         IN IF ~element.ok THEN Refuse(e)
            ELSE Elements(inner, [e EXCEPT !.at = element.at, !.value = Append(@, element.value)],
                          count - 1, tape)

ReadElements(f, d, tape, width, bound) ==
    LET count == NumberAt(tape, d.at, width)
        elements == Elements(f.inner, Cursor(d.at + width), count, tape)
    IN IF count \in 0..bound /\ elements.ok
         THEN Accept(d, elements.at, f.name, elements.value) ELSE Refuse(d)

ReadField(f, d, tape) ==
    CASE f.op = "word" -> ReadWord(f, d, tape)
      [] f.op = "range" -> ReadRange(f, d, tape)
      [] f.op = "text" -> ReadText(f, d, tape)
      [] f.op = "list" -> ReadElements(f, d, tape, 4, f.bound)
      [] f.op = "optional" -> ReadElements(f, d, tape, 1, 1)
      [] f.op = "record" -> ReadRecord(f, d, tape)
      [] f.op = "size" -> ReadSize(f, d, tape)

\* The fields from the i-th on; the first refusal ends it.
ReadOn(fields, i, d, tape) ==
    IF i > Len(fields) \/ ~d.ok THEN d
    ELSE ReadOn(fields, i + 1, ReadField(fields[i], d, tape), tape)
Decode(fields, tape, at) == ReadOn(fields, 1, Cursor(at), tape)

\* Mutant: trailing bytes pass.
exhausted_or_not(d, tape) == d.ok

\* Decoder::require_exhausted.
require_exhausted(d, tape) == d.at = Len(tape)
=============================================================================
