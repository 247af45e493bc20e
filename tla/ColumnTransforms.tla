---------------------------- MODULE ColumnTransforms ----------------------------
(***************************************************************************)
(* Two transforms that lay out equal parts of records side by side: the    *)
(* values of the fields of JSON records (json_columnar.py, native/src/lib  *)
(* and jls2.rs) and the fields of delimited rows (tabular_transform.py,    *)
(* native/src/lib.rs).  A JSON record is what its parser makes of it: the  *)
(* fields, each with the bytes before its value, and the bytes after the   *)
(* last; of a line it cannot parse, `fields` is empty and `json` FALSE.    *)
(***************************************************************************)
EXTENDS ByteStrings

CONSTANTS MaxChannels,        \* 256
          MaxRawExpansion,    \* 4: transformed bytes per byte of the source
          RawOverhead,        \* 4096: and that many more
          Delimiter

TableAssumption == Delimiter \in Nat

(* The channels of a form are numbered in a word, and the bound of the     *)
(* writer is within that of the readers.                                   *)
ColumnsAssumption ==
  /\ MaxChannels \in Nat /\ MaxChannels <= Word
  /\ MaxRawExpansion \in Nat /\ MaxRawExpansion >= 2 /\ RawOverhead \in Nat

MarkerChannel == 0
ColumnMagic == 74   \* stands for the four bytes "JCT1"

FieldData(field) == field.before \o field.value

RecordData(record) ==
  FlattenSeq([f \in DOMAIN record.fields |-> FieldData(record.fields[f])]) \o record.after

JsonData(records) == FlattenSeq([i \in DOMAIN records |-> RecordData(records[i])])

Position(sequence, element) ==
  CHOOSE i \in DOMAIN sequence : sequence[i] = element

WithField(columns, field) ==
  LET channel == Position(columns.keys, field.key)
  IN  [columns EXCEPT
         !.skeleton = @ \o Escaped(field.before) \o <<Marker, MarkerChannel>>
                        \o Varint(channel - 1),
         !.channels[channel] = @ \o Sized(field.value)]

WithKey(keys, field) ==
  IF Contains(keys, field.key) THEN keys ELSE Append(keys, field.key)

KeysWith(keys, fields) ==
  LET known[n \in 0..Len(fields)] ==
        IF n = 0 THEN keys ELSE WithKey(known[n - 1], fields[n])
  IN  known[Len(fields)]

(* New channels are empty. *)
Widened(columns, keys) ==
  [columns EXCEPT
     !.keys = keys,
     !.channels = [c \in DOMAIN keys |-> IF c \in DOMAIN @ THEN @[c] ELSE <<>>]]

WithFields(columns, fields) ==
  LET filled[n \in 0..Len(fields)] ==
        IF n = 0 THEN columns ELSE WithField(filled[n - 1], fields[n])
  IN  filled[Len(fields)]

(* A record that would need more channels than there may be is a literal. *)
WithRecord(columns, record) ==
  LET keys == KeysWith(columns.keys, record.fields)
  IN  IF ~record.json \/ Len(keys) > MaxChannels
      THEN [columns EXCEPT !.skeleton = @ \o Escaped(RecordData(record))]
      ELSE [WithFields(Widened(columns, keys), record.fields)
              EXCEPT !.skeleton = @ \o Escaped(record.after)]

JsonColumns(records) ==
  LET columns[n \in 0..Len(records)] ==
        IF n = 0 THEN [keys |-> <<>>, skeleton |-> <<>>, channels |-> <<>>]
        ELSE WithRecord(columns[n - 1], records[n])
  IN  columns[Len(records)]

(* The channels of the transform, the skeleton first. *)
JsonParts(records) ==
  <<JsonColumns(records).skeleton>> \o JsonColumns(records).channels

(* The header of the native transform has one unit per number; the counts  *)
(* that are only reported are left out.                                    *)
PackParts(parts) ==
  <<ColumnMagic, Len(parts) - 1>> \o [i \in DOMAIN parts |-> Len(parts[i])]
    \o FlattenSeq(parts)

(* Nothing if the buffer that the binding allocates is too small. *)
EncodeJson(records) ==
  LET parts == JsonParts(records)
  IN  IF Len(FlattenSeq(parts)) > 2 * Len(JsonData(records)) + RawOverhead THEN {}
      ELSE {PackParts(parts)}

(* Where the parts of these sizes end, the first one behind `first` bytes. *)
EndsOf(first, sizes) ==
  LET end[i \in 0..Len(sizes)] == IF i = 0 THEN first ELSE end[i - 1] + sizes[i]
  IN  end

UnpackParts(code) ==
  IF Len(code) < 3 \/ code[1] # ColumnMagic \/ code[2] > MaxChannels THEN {}
  ELSE IF Len(code) < 3 + code[2] THEN {}
  ELSE LET sizes == SubSeq(code, 3, 3 + code[2])
           end == EndsOf(3 + code[2], sizes)
       IN  IF end[Len(sizes)] # Len(code) THEN {}
           ELSE {[i \in DOMAIN sizes |-> SubSeq(code, end[i - 1] + 1, end[i])]}

WithLiteral(read, byte, rest, size) ==
  IF Len(read.output) >= size THEN {}
  ELSE {[read EXCEPT !.skeleton = rest, !.output = Append(@, byte)]}

WithValue(reader, read, channel, rest, size) ==
  {[skeleton |-> rest, channels |-> [read.channels EXCEPT ![channel] = v.rest],
    unconsumed |-> read.unconsumed - IF v.rest = <<>> THEN 1 ELSE 0,
    output |-> read.output \o v.value] :
     v \in {v \in ReadSized(reader, read.channels[channel]) :
             Len(v.value) <= size - Len(read.output)}}

(* What follows a marker. *)
ReadTagged(reader, read, tag, size) ==
  CASE tag.value[1] = EscapedMarker -> WithLiteral(read, Marker, tag.rest, size)
    [] tag.value[1] = MarkerChannel ->
         UNION {WithValue(reader, read, id.value + 1, id.rest, size) :
                  id \in {id \in ReadVarint(reader, tag.rest) :
                            id.value < Len(read.channels)}}
    [] OTHER -> {}

(* What follows what was read, with one more byte of the skeleton, escaped *)
(* or not, or one more value.                                              *)
ReadPart(reader, read, size) ==
  CASE read.skeleton = <<>> -> {read}
    [] read.skeleton # <<>> /\ read.skeleton[1] # Marker ->
         WithLiteral(read, read.skeleton[1], Tail(read.skeleton), size)
    [] OTHER -> UNION {ReadTagged(reader, read, tag, size) :
                         tag \in Take(Tail(read.skeleton), 1)}

(* What is left of the channels must be nothing in the end; the Rust of    *)
(* JLS2 counts those that it has not come to the end of.                   *)
ReadSkeleton(reader, skeleton, channels, unconsumed, size) ==
  LET read[n \in 0..Len(skeleton)] ==
        IF n = 0 THEN {[skeleton |-> skeleton, channels |-> channels,
                        unconsumed |-> unconsumed, output |-> <<>>]}
        ELSE UNION {ReadPart(reader, some, size) : some \in read[n - 1]}
      finished(all) ==
        /\ Len(all.output) = size
        /\ IF reader = "jls2" THEN all.unconsumed = 0
           ELSE \A c \in DOMAIN all.channels : all.channels[c] = <<>>
  IN  {all.output : all \in {all \in read[Len(skeleton)] : finished(all)}}

(* The bound holds for each reader: decompress() and the Rust of JLS2 have *)
(* compared the sizes before they decode the payloads.                     *)
DecodeJson(reader, code, size) ==
  UNION {ReadSkeleton(reader, parts[1], Tail(parts),
                      Cardinality({c \in DOMAIN Tail(parts) : Tail(parts)[c] # <<>>}),
                      size) :
           parts \in {p \in UnpackParts(code) :
                        Len(FlattenSeq(p)) <= MaxRawExpansion * size + RawOverhead}}
---------------------------------------------------------------------------------
WithFieldByte(fields, byte) ==
  IF byte = Delimiter THEN Append(fields, <<>>)
  ELSE Append(Front(fields), Append(Last(fields), byte))

Fields(row) ==
  LET fields[n \in 0..Len(row)] ==
        IF n = 0 THEN << <<>> >> ELSE WithFieldByte(fields[n - 1], row[n])
  IN  fields[Len(row)]

(* TBL1's transform: of each row the number of its fields and whether a    *)
(* line end follows, then the fields column by column.                     *)
EncodeTable(data) ==
  LET lines == Lines(data)
      ended(i) == Last(lines[i]) = LineEnd
      fields == [i \in DOMAIN lines |->
                   Fields(IF ended(i) THEN Front(lines[i]) ELSE lines[i])]
      width == Max({0} \cup {Len(fields[i]) : i \in DOMAIN fields})
      rows == FlattenSeq([i \in DOMAIN lines |->
                Varint(2 * Len(fields[i]) + IF ended(i) THEN 1 ELSE 0)])
      column(c) == FlattenSeq([i \in DOMAIN lines |->
                     IF c \in DOMAIN fields[i] THEN Sized(fields[i][c]) ELSE <<>>])
  IN  Varint(Len(lines)) \o Varint(width) \o Sized(rows)
        \o FlattenSeq([c \in 1..width |-> Sized(column(c))])

(* One row from the front of its columns. *)
ReadRow(reader, columns, row) ==
  LET arity == row \div 2
      fields == [c \in 1..arity |-> ReadSized(reader, columns[c])]
      field(c) == CHOOSE f \in fields[c] : TRUE
      separated(c) == IF c = 1 THEN field(c).value
                      ELSE <<Delimiter>> \o field(c).value
      end == IF row % 2 = 1 THEN <<LineEnd>> ELSE <<>>
  IN  IF \E c \in 1..arity : fields[c] = {} THEN {}
      ELSE {[value |-> FlattenSeq([c \in 1..arity |-> separated(c)]) \o end,
             columns |-> [c \in DOMAIN columns |->
                            IF c <= arity THEN field(c).rest ELSE columns[c]]]}

(* What follows the rows that were read, with one more of them. *)
ReadNextRow(reader, row, read, size) ==
  {[columns |-> next.columns, output |-> read.output \o next.value] :
     next \in {r \in ReadRow(reader, read.columns, row) :
                 Len(read.output) + Len(r.value) <= size}}

ReadRows(reader, rows, columns, size) ==
  LET read[n \in 0..Len(rows)] ==
        IF n = 0 THEN {[columns |-> columns, output |-> <<>>]}
        ELSE UNION {ReadNextRow(reader, rows[n], some, size) : some \in read[n - 1]}
  IN  {all.output : all \in {all \in read[Len(rows)] :
                              /\ Len(all.output) = size
                              /\ \A c \in DOMAIN all.columns : all.columns[c] = <<>>}}

(* The number of fields is bounded before the columns are looked at. *)
FieldsFit(rows, width, size) ==
  LET total[n \in 0..Len(rows)] == IF n = 0 THEN 0 ELSE total[n - 1] + (rows[n] \div 2)
  IN  /\ \A i \in DOMAIN rows : rows[i] \div 2 \in 1..width
      /\ total[Len(rows)] <= size + Len(rows) + 1

(* Mutant: every row is taken for longer than a byte. *)
PlausibleIfShorter(reader, count, width, metadata, rest) ==
  reader = "native" => count < Len(metadata) /\ width <= Len(rest)

(* The Rust looks whether there can be so many rows and columns at all. *)
Plausible(reader, count, width, metadata, rest) ==
  reader = "native" => count <= Len(metadata) /\ width <= Len(rest)

DecodeTable(reader, code, size) ==
  UNION {UNION {UNION {UNION {
    ReadRows(reader, rows.value, columns.value, size) :
      columns \in {c \in ReadAllSized(reader, metadata.rest, head.value[2]) : c.rest = <<>>}} :
    rows \in {r \in ReadVarints(reader, metadata.value, head.value[1]) :
                r.rest = <<>> /\ FieldsFit(r.value, head.value[2], size)}} :
    metadata \in {m \in ReadSized(reader, head.rest) :
                    Plausible(reader, head.value[1], head.value[2], m.value, m.rest)}} :
    head \in {h \in ReadVarints(reader, code, 2) :
                h.value[1] <= size + 1 /\ h.value[2] <= size + 1}}
=================================================================================
