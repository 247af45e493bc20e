----------------------------- MODULE TransformCalls -----------------------------
(***************************************************************************)
(* One use of a byte transform: the source is transformed, the form it     *)
(* takes may be damaged in one place, and every reader of the format reads *)
(* it.  The structured text is also read as it comes out of libzstd, in    *)
(* chunks that may end anywhere.                                           *)
(***************************************************************************)
EXTENDS LogTransforms, StructuredText, ColumnTransforms, SourceTransform, DenseMatrix

CONSTANTS
  Inputs,       \* [format -> sources]
  Damages,      \* [format -> what may stand for one byte]
  LogOverhead   \* 16 bytes that LWX2 may need besides three per byte

VARIABLES
  input,       \* [format, data]
  stage,
  codes,       \* the form: one sequence of bytes, or two channels
  size,        \* of the source, as the frame around the form tells it
  broken,
  reader, fed  \* the reader of chunks, and how many bytes it was given

transformVars == <<input, stage, codes, size, broken, reader, fed>>

Bundles == {"source", "lanes", "wikimedia"}

Source(i) == IF i.format = "json" THEN JsonData(i.data) ELSE i.data

SizeOf(i) ==
  CASE i.format = "wikimedia" -> WikimediaSize(i.data)
    [] i.format \in {"source", "lanes"} -> SourceSize(i.data)
    [] OTHER -> Len(Source(i))

(* Mutant: lines are taken to have two bytes or more. *)
LogSizeOfLongLines(n) == 2 * n + LogOverhead

LogSize(n) == 3 * n + LogOverhead

(* The Rust is used where its library is loaded, to write as to read. *)
DenseHosts(format) ==
  IF format \in NativeFormats \cup {"stream"} THEN {"python", "native"} ELSE {"python"}

BundleForms(i) ==
  IF i.format = "wikimedia" THEN EncodeWikimedia(i.data) ELSE EncodeSource(i.format, i.data)

(* All forms a source may get; none where the writer raises. *)
Forms(i) ==
  CASE i.format = "window"    -> {<<EncodeLines("window", i.data)>>}
    [] i.format = "recent"    -> {<<c>> : c \in {c \in {EncodeLines("recent", i.data)} :
                                                   Len(c) <= LogSize(Len(i.data))}}
    [] i.format = "splices"   -> {<<EncodeSplices(i.data)>>}
    [] i.format = "text"      -> {<<EncodeText(i.data, d)>> : d \in Dictionaries(i.data)}
    [] i.format = "channels"  -> {SplitChannels(i.data, d) : d \in Dictionaries(i.data)}
    [] i.format = "json"      -> {<<c>> : c \in EncodeJson(i.data)}
    [] i.format = "table"     -> {<<EncodeTable(i.data)>>}
    [] i.format \in DenseFormats ->
         {<<c>> : c \in UNION {EncodeDense(i.format, w, i.data) : w \in DenseHosts(i.format)}}
    [] i.format = "stream"    ->
         {<<c>> : c \in UNION {EncodeStreams(w, i.data) : w \in DenseHosts("stream")}}
    [] i.format \in Bundles   -> {<<c>> : c \in BundleForms(i)}

(* Channels are not written when the second is empty. *)
Writable(form) == form[Len(form)] # <<>> \/ Len(form) = 1

Readers(format) ==
  CASE format \in {"recent", "table"} -> {"python", "native"}
    [] format = "json"     -> {"python", "native", "jls2"}
    [] format = "channels" -> {"native", "joined"}
    [] format \in DenseFormats \cup {"stream"} -> DenseHosts(format)
    [] OTHER               -> {"python"}

(* The bundle, if it is the one of the digest. *)
Verified(records, code, original) ==
  {r \in records : r = original /\ code[2] = Manifest}

Read(r, i, form, n) ==
  LET code == form[1]
      bundle == Len(code) >= 2
  IN  CASE i.format = "window"    -> DecodeLines(r, "window", code, n)
        [] i.format = "recent"    -> IF Len(code) > LogSize(n) THEN {}
                                     ELSE DecodeLines(r, "recent", code, n)
        [] i.format = "splices"   -> DecodeSplices(code, n)
        [] i.format = "text"      -> DecodeText(code, n)
        [] i.format = "channels" /\ r = "native" -> DecodeChannels(code, form[2], n)
        [] i.format = "channels" /\ r = "joined" ->
             IF form[2] = <<>> THEN {}
             ELSE UNION {DecodeText(joined, n) : joined \in JoinChannels(code, form[2])}
        [] i.format = "json"      -> DecodeJson(r, code, n)
        [] i.format = "table"     -> DecodeTable(r, code, n)
        [] i.format \in DenseFormats -> DecodeDense(i.format, r, code, n)
        [] i.format = "stream"    -> DecodeStream(r, code, n, i.data)
        [] i.format = "wikimedia" ->
             IF bundle THEN Verified(DecodeWikimedia(code, n), code, i.data) ELSE {}
        [] i.format \in {"source", "lanes"} ->
             IF bundle THEN Verified(DecodeSource(i.format, code, n), code, i.data) ELSE {}
---------------------------------------------------------------------------------
TransformInit ==
  /\ \E format \in DOMAIN Inputs : \E data \in Inputs[format] :
       input = [format |-> format, data |-> data]
  /\ stage = "start" /\ codes = <<>> /\ size = 0 /\ broken = FALSE
  /\ reader = NewReader /\ fed = 0

(* Of a text without tokens no form is tried. *)
Keep(forms) ==
  \/ \E form \in forms :
       IF Writable(form) THEN stage' = "written" /\ codes' = form /\ size' = SizeOf(input)
       ELSE stage' = "refused" /\ UNCHANGED <<codes, size>>
  \/ /\ forms = {}
     /\ stage' = IF input.format \in {"text", "channels"} THEN "skipped" ELSE "refused"
     /\ UNCHANGED <<codes, size>>

Write ==
  /\ stage = "start"
  /\ input.format = "channels" => ~NativeEncoderPanics(input.data)
  /\ Keep(Forms(input))
  /\ UNCHANGED <<input, broken, reader, fed>>

(* The process ends where the Rust panics. *)
Abort ==
  /\ stage = "start" /\ input.format \in {"text", "channels"}
  /\ NativeEncoderPanics(input.data)
  /\ stage' = "aborted"
  /\ UNCHANGED <<input, codes, size, broken, reader, fed>>

Damage ==
  /\ stage = "written" /\ ~broken /\ fed = 0
  /\ \/ \E c \in DOMAIN codes, bytes \in Damages[input.format] :
          \E i \in DOMAIN codes[c] :
            codes' = [codes EXCEPT ![c] = SubSeq(@, 1, i - 1) \o bytes \o Rest(@, i)]
       /\ size' = size
     \/ size' \in {size - 1, size + 1} \cap Nat /\ codes' = codes
  /\ <<codes', size'>> # <<codes, size>>
  /\ broken' = TRUE
  /\ UNCHANGED <<input, stage, reader, fed>>

Feed ==
  /\ stage = "written" /\ input.format = "text"
  /\ \E n \in 1..(Len(codes[1]) - fed) :
       /\ reader' = Update(reader, SubSeq(codes[1], fed + 1, fed + n), size)
       /\ fed' = fed + n
  /\ UNCHANGED <<input, stage, codes, size, broken>>

TransformNext == Write \/ Abort \/ Damage \/ Feed
---------------------------------------------------------------------------------
Answers == {Read(r, input, codes, size) : r \in Readers(input.format)}

(* What the reader of chunks answers; the frame's bound was checked first. *)
Streamed ==
  IF Finished(reader, size) /\ Len(codes[1]) <= MaxTextSize(size)
  THEN {reader.output} ELSE {}

AllFed == stage = "written" /\ input.format = "text" /\ fed = Len(codes[1])

(* What the writers may refuse: no bundle, or ids that are too far apart. *)
Unencodable(i) ==
  CASE i.format = "wikimedia" ->
         \/ ~WikimediaBundle(i.data)
         \/ \E k \in DOMAIN i.data :
              LET before == IF k = 1 THEN FirstPage ELSE i.data[k - 1]
              IN  ~InRange(i.data[k].page - before.page)
                    \/ ~InRange(i.data[k].revision - before.revision)
    [] i.format \in {"source", "lanes"} -> ~SourceBundle(i.data)
    [] i.format \in NumericFormats -> ~(Numeric(i.data) /\ Rectangular(i.data))
    [] OTHER -> FALSE

(* What is written and cannot be read: dictionaries beyond the readers'    *)
(* bound, which the Python does not look at; counts beyond that of the     *)
(* Rust; and a stream with a segment that overruns.                        *)
Unreadable(r, i) ==
  \/ i.format \in DenseFormats
       /\ \/ Cardinality(ToSet(TokensOf(i.data))) > MaxDictionary
          \/ Cardinality(ToSet(SeparatorsOf(i.data))) > MaxDictionary
  \/ i.format \in {"adaptive", "parallel"}
       /\ ~CellsFit(r, RowCounts(i.data)[1], Cardinality(ToSet(TokensOf(i.data))))
  \/ i.format = "stream"
       /\ \E segment \in ToSet(Segments(i.data, <<>>)) : Len(segment) > StreamSegmentSize

(* Every transform is lossless in every reader, but for what is named as   *)
(* unreadable, however the chunks fall that the streaming reader is given, *)
(* and no writer refuses a source: the buffer of each binding has room for *)
(* the worst form, every sampled token occurs in the text, every index has *)
(* its bits, every symbol its part of the interval, and the bound of each  *)
(* frame holds for its own form.                                           *)
TransformsReadBack ==
  /\ stage = "written" /\ ~broken =>
       \A r \in Readers(input.format) :
         Read(r, input, codes, size) = IF Unreadable(r, input) THEN {} ELSE {Source(input)}
  /\ AllFed /\ ~broken => Streamed = {input.data}
  /\ stage = "refused" => Unencodable(input)

(* Some number of these bytes is beyond the machine's word. *)
Overflows(bytes) ==
  \E i \in 1..(Len(bytes) - VarintLimit + 1) :
    LET number == SubSeq(bytes, i, i + VarintLimit - 1)
    IN  /\ \A k \in 1..(VarintLimit - 1) : number[k] >= VarintBase
        /\ number[VarintLimit] < VarintBase /\ Value(number) >= Word

(* The dictionaries and counts of a numeric table, before its symbols. *)
Table(code) == ShapeOf("parallel", "python", code)

(* The Rust has no memory for the counts of all contexts. *)
TooManyCells(code) ==
  \E t \in Table(code) : ~CellsFit("native", t.shape.columns, Len(t.tokens))

(* The Rust ignores a separator after the last row of lanes. *)
ExtraSeparator(code) ==
  code[1] = 1 /\ \E t \in Table(code) :
                    t.shape.separators = t.shape.rows * t.shape.columns + 1

(* Readers of one format give the same answer to a damaged form, too: the  *)
(* same bytes or an error, for chunks as for the whole, for channels as    *)
(* for what they were split from.  Only what has a number beyond the word, *)
(* or in lanes a separator too many, is refused by Python alone, and a     *)
(* table with too many counts by the Rust alone.                           *)
SameAnswers ==
  /\ stage = "written" =>
       \/ Cardinality(Answers) = 1
       \/ Read("python", input, codes, size) = {} /\ Overflows(codes[1])
       \/ /\ input.format = "parallel" /\ ExtraSeparator(codes[1])
          /\ Read("python", input, codes, size) = {}
       \/ /\ input.format \in {"adaptive", "parallel"} /\ TooManyCells(codes[1])
          /\ Read("native", input, codes, size) = {}
  /\ AllFed => Streamed = Read("python", input, codes, size)

(* Of a bundle there is one form: what its reader accepts is what the      *)
(* writer makes of it.                                                     *)
OneForm ==
  stage = "written" /\ input.format \in Bundles /\ Answers # {{}} =>
    Len(codes) = 1 /\ codes[1] \in BundleForms(input) /\ size = SizeOf(input)

(* Zero is among numbers whose first digit is behind a zero: the Rust has  *)
(* it after them.                                                          *)
ZeroAmongSmall(data) ==
  LET tokens == ToSet(TokensOf(data))
      numbers == {DenseDecimal(t) : t \in tokens}
  IN  /\ \E n \in numbers : n.significant = <<>>
      /\ \E n \in numbers : n.significant # <<>> /\ IntegerDigits(n) < 0

(* The Rust writes the form the Python writes, if any, whichever thread    *)
(* looks up which rows.                                                    *)
SameForms ==
  stage = "written" /\ ~broken /\ input.format \in NativeFormats =>
    \/ EncodeDense(input.format, "native", input.data)
         \in {{}, EncodeDense(input.format, "python", input.data)}
    \/ ZeroAmongSmall(input.data)

ReadersAgree == SameAnswers /\ OneForm /\ SameForms

(* A stream is read back as it was written, wherever its lines end (the    *)
(* promise of test_dense_stream_is_bounded_deterministic_and_exact).       *)
StreamsReadBack ==
  stage = "written" /\ ~broken /\ input.format = "stream" =>
    Answers = {{input.data}}

(* The native encoder does what the Python encoder does. *)
NativeEncodes == stage # "aborted"
=================================================================================
