------------------------------ MODULE DenseMatrix ------------------------------
(***************************************************************************)
(* The transforms of numeric tables (dense_matrix_transform.py and         *)
(* native-dense/src/lib.rs): runs of separators and of other bytes are     *)
(* taken apart and written as indices into two dictionaries.  DMT1 takes   *)
(* any bytes; the others take rectangles of decimal numbers, whose indices *)
(* are packed by column (DMI1), by bit plane (DMP1), or coded              *)
(* arithmetically in the context of column and left neighbour: with the    *)
(* counts written ahead (DMC1), with counts that adapt (DMA1), or so in    *)
(* several lanes of rows (DMA2).  A form begins with the flag of the frame *)
(* that tells whether the first run is a token.                            *)
(***************************************************************************)
EXTENDS ByteStrings

CONSTANTS
  Separators,      \* of the bytes, LineEnd among them
  Digits,          \* digits that are their own values
  Plus, Minus, Point,
  ByteBits,        \* 8
  CodeBits,        \* 32: width of the coder's interval
  RescaleAt,       \* 16,384: when counts are halved
  MaxDictionary,   \* 2^20 entries, for a reader
  MaxCells,        \* 2^26 counts, for the Rust
  FewSymbols,      \* 8: up to so many distinct tokens get all the lanes
  Lanes,           \* 7
  SampleSize,      \* 64 KiB
  FewValues,       \* 4: up to so many distinct tokens there, planes are tried
  StreamSegmentSize

DenseAssumption ==
  /\ LineEnd \in Separators /\ Separators \cap (Digits \cup {Plus, Minus, Point}) = {}
  /\ 2^ByteBits = 2 * VarintBase
  /\ RescaleAt < 2^(CodeBits - 2) /\ MaxDictionary < 2^(CodeBits - 2)
  /\ Lanes > 1 /\ StreamSegmentSize > 0

NumericFormats == {"matrix", "planes", "context", "adaptive", "parallel"}
DenseFormats == NumericFormats \cup {"tokens"}
NativeFormats == {"planes", "adaptive", "parallel"}

RECURSIVE SplitRuns(_)
SplitRuns(data) ==
  IF data = <<>> THEN <<>>
  ELSE LET kind(byte) == byte \in Separators
           n == Max({n \in DOMAIN data : \A i \in 1..n : kind(data[i]) = kind(data[1])})
       IN  <<SubSeq(data, 1, n)>> \o SplitRuns(Rest(data, n))

IsToken(run) == run[1] \notin Separators
TokensOf(data) == SelectSeq(SplitRuns(data), IsToken)
SeparatorsOf(data) == SelectSeq(SplitRuns(data), LAMBDA run : ~IsToken(run))

StartsWithToken(data) == data = <<>> \/ data[1] \notin Separators

Unsigned(token) == IF token[1] \in {Plus, Minus} THEN Tail(token) ELSE token

IsNumericLexeme(token) ==
  LET rest == Unsigned(token)
  IN  /\ ToSet(rest) \subseteq Digits \cup {Point}
      /\ \E i \in DOMAIN rest : rest[i] \in Digits
      /\ Cardinality({i \in DOMAIN rest : rest[i] = Point}) <= 1

Numeric(data) == \A token \in ToSet(TokensOf(data)) : IsNumericLexeme(token)

RowCounts(data) == [i \in DOMAIN Lines(data) |-> Len(TokensOf(Lines(data)[i]))]

(* One row at least, a token in it, and as many in every other. *)
Rectangular(data) ==
  Cardinality(ToSet(RowCounts(data))) = 1 /\ 0 \notin ToSet(RowCounts(data))
------------------------------------------------------------------------------
BytesLess(left, right) ==
  LET n == CommonPrefix(left, right)
  IN  /\ Len(right) > n
      /\ Len(left) = n \/ left[n + 1] < right[n + 1]

DigitsOf(token) == SelectSeq(Unsigned(token), LAMBDA byte : byte # Point)

Scale(token) ==
  LET dots == {i \in DOMAIN token : token[i] = Point}
  IN  IF dots = {} THEN 0 ELSE Len(token) - Max(dots)

(* decimal.Decimal, times 10^scale. *)
Decimal(token, scale) ==
  (IF token[1] = Minus THEN -1 ELSE 1)
    * FoldLeft(LAMBDA n, digit : 10 * n + digit, 0, DigitsOf(token))
    * 10^(scale - Scale(token))

DecimalLess(left, right) ==
  LET scale == Max({Scale(left), Scale(right)})
  IN  Decimal(left, scale) < Decimal(right, scale)

(* DenseDecimalOwned: the digits from the first that is not zero; none of   *)
(* zero, which has no sign and no scale.                                   *)
DenseDecimal(token) ==
  LET digits == DigitsOf(token)
      nonzero == {i \in DOMAIN digits : digits[i] # 0}
  IN  IF nonzero = {} THEN [negative |-> FALSE, significant |-> <<>>, scale |-> 0]
      ELSE [negative |-> token[1] = Minus, scale |-> Scale(token),
            significant |-> Rest(digits, Min(nonzero) - 1)]

(* How many of the significant digits are before the point. *)
IntegerDigits(number) == Len(number.significant) - number.scale

MagnitudeLess(left, right) ==
  LET width == Max({Len(left.significant), Len(right.significant)})
      padded(digits) == digits \o [i \in 1..(width - Len(digits)) |-> 0]
  IN  \/ IntegerDigits(left) < IntegerDigits(right)
      \/ /\ IntegerDigits(left) = IntegerDigits(right)
         /\ BytesLess(padded(left.significant), padded(right.significant))

(* dense_decimal_cmp, which has zero beyond the numbers below a tenth. *)
NativeLess(left, right) ==
  /\ left.significant # <<>> \/ right.significant # <<>>
  /\ IF left.negative # right.negative THEN left.negative
     ELSE IF left.negative THEN MagnitudeLess(right, left)
     ELSE MagnitudeLess(left, right)

(* Tokens in the order of their values, and of their bytes if that is one. *)
NumberLess(writer, left, right) ==
  LET less(l, r) == IF writer = "native" THEN NativeLess(DenseDecimal(l), DenseDecimal(r))
                    ELSE DecimalLess(l, r)
  IN  \/ less(left, right)
      \/ ~less(right, left) /\ BytesLess(left, right)

SeparatorDictionary(data) == SetToSortSeq(ToSet(SeparatorsOf(data)), BytesLess)

TokenDictionary(format, writer, data) ==
  SetToSortSeq(ToSet(TokensOf(data)),
               LAMBDA left, right : IF format \in {"tokens", "matrix"}
                                    THEN BytesLess(left, right)
                                    ELSE NumberLess(writer, left, right))

Indices(runs, dictionary) ==
  [i \in DOMAIN runs |-> (CHOOSE k \in DOMAIN dictionary : dictionary[k] = runs[i]) - 1]

WriteDictionary(entries) ==
  Varint(Len(entries)) \o FlattenSeq([i \in DOMAIN entries |-> Sized(entries[i])])

ReadDictionary(reader, bytes) ==
  UNION {{d \in ReadAllSized(reader, count.rest, count.value) :
            Cardinality(ToSet(d.value)) = Len(d.value)} :
          count \in {c \in ReadVarint(reader, bytes) : c.value <= MaxDictionary}}
------------------------------------------------------------------------------
BitWidth(count) == Min({w \in 0..count : 2^w >= count})

BytesFor(bits) == (bits + ByteBits - 1) \div ByteBits

(* The bits of each index, low ones first, and so in the bytes. *)
PackIndices(indices, count) ==
  LET width == BitWidth(count)
      bit(b) == IF b >= Len(indices) * width THEN 0
                ELSE (indices[(b \div width) + 1] \div 2^(b % width)) % 2
  IN  [i \in 1..BytesFor(Len(indices) * width) |->
         FoldLeft(LAMBDA sum, k : sum + bit((i - 1) * ByteBits + k) * 2^k, 0,
                  [k \in 1..ByteBits |-> k - 1])]

(* There is one form of the indices; an index has its entry. *)
UnpackIndices(bytes, n, count) ==
  LET width == BitWidth(count)
      bit(b) == (bytes[(b \div ByteBits) + 1] \div 2^(b % ByteBits)) % 2
      index(i) == FoldLeft(LAMBDA sum, k : sum + bit((i - 1) * width + k) * 2^k, 0,
                           [k \in 1..width |-> k - 1])
      indices == [i \in 1..n |-> index(i)]
  IN  IF /\ Len(bytes) = BytesFor(n * width)
         /\ \A i \in 1..n : indices[i] < count
         /\ \A b \in (n * width)..(Len(bytes) * ByteBits - 1) : bit(b) = 0
      THEN {indices} ELSE {}

(* DMP1: the bits of one weight side by side. *)
PackPlanes(indices, count) ==
  FlattenSeq([w \in 1..BitWidth(count) |->
    PackIndices([i \in DOMAIN indices |-> (indices[i] \div 2^(w - 1)) % 2], 2)])

UnpackPlanes(bytes, n, count) ==
  LET width == BitWidth(count)
      plane(w) == UnpackIndices(SubSeq(bytes, (w - 1) * BytesFor(n) + 1, w * BytesFor(n)), n, 2)
      bits(w) == CHOOSE p \in plane(w) : TRUE
      indices == [i \in 1..n |->
                    FoldLeft(LAMBDA sum, w : sum + bits(w)[i] * 2^(w - 1), 0,
                             [w \in 1..width |-> w])]
  IN  IF /\ Len(bytes) = width * BytesFor(n)
         /\ \A w \in 1..width : plane(w) # {}
         /\ \A i \in 1..n : indices[i] < count
      THEN {indices} ELSE {}
------------------------------------------------------------------------------
Full == 2^CodeBits
Half == Full \div 2
Quarter == Full \div 4

Sum(counts) == FoldLeft(+, 0, counts)
Below(counts, symbol) == Sum(SubSeq(counts, 1, symbol))

(* The part of the interval that the counts give to a symbol. *)
Narrowed(c, counts, symbol) ==
  LET interval == c.high - c.low + 1
  IN  [c EXCEPT
         !.high = c.low + (interval * Below(counts, symbol + 1)) \div Sum(counts) - 1,
         !.low = c.low + (interval * Below(counts, symbol)) \div Sum(counts)]

Doubled(c, shift) ==
  [c EXCEPT !.low = 2 * (@ - shift), !.high = 2 * (@ - shift) + 1]

(* A bit, and its opposite for each that was pending. *)
Emit(c, bit) ==
  [c EXCEPT !.bits = Append(@, bit) \o [i \in 1..c.pending |-> 1 - bit], !.pending = 0]

RECURSIVE Settled(_)
Settled(c) ==
  IF c.high < Half THEN Settled(Doubled(Emit(c, 0), 0))
  ELSE IF c.low >= Half THEN Settled(Doubled(Emit(c, 1), Half))
  ELSE IF c.low >= Quarter /\ c.high < Half + Quarter
       THEN Settled(Doubled([c EXCEPT !.pending = @ + 1], Quarter))
  ELSE c

(* High bits first; the last byte is filled with zeros. *)
HighBytes(bits) ==
  LET bit(b) == IF b \in DOMAIN bits THEN bits[b] ELSE 0
  IN  [i \in 1..BytesFor(Len(bits)) |->
         FoldLeft(LAMBDA byte, k : 2 * byte + bit((i - 1) * ByteBits + k), 0,
                  [k \in 1..ByteBits |-> k])]

(* Beyond the end there are zeros. *)
ReadBit(bytes, at) ==
  LET i == (at \div ByteBits) + 1
  IN  IF i > Len(bytes) THEN 0
      ELSE (bytes[i] \div 2^(ByteBits - 1 - (at % ByteBits))) % 2

Shifted(c, bytes, shift) ==
  [Doubled(c, shift) EXCEPT !.code = 2 * (@ - shift) + ReadBit(bytes, c.at), !.at = @ + 1]

RECURSIVE Refilled(_, _)
Refilled(c, bytes) ==
  IF c.high < Half THEN Refilled(Shifted(c, bytes, 0), bytes)
  ELSE IF c.low >= Half THEN Refilled(Shifted(c, bytes, Half), bytes)
  ELSE IF c.low >= Quarter /\ c.high < Half + Quarter
       THEN Refilled(Shifted(c, bytes, Quarter), bytes)
  ELSE c
------------------------------------------------------------------------------
(* A model gives each context, of a column and the symbol to the left of   *)
(* it or `alphabet`, its counts; it may adapt them.                        *)
AllOnes(columns, alphabet) ==
  [context \in (0..(columns - 1)) \X (0..alphabet) |-> [s \in 1..alphabet |-> 1]]

Adapted(counts, symbol) ==
  LET more == [counts EXCEPT ![symbol + 1] = @ + 1]
  IN  IF Sum(more) < RescaleAt THEN more
      ELSE [s \in DOMAIN more |-> (more[s] + 1) \div 2]

Learnt(models, context, symbol, adaptive) ==
  IF adaptive THEN [models EXCEPT ![context] = Adapted(@, symbol)] ELSE models

ContextOf(symbols, columns, alphabet) ==
  LET column == Len(symbols) % columns
  IN  <<column, IF column = 0 THEN alphabet ELSE Last(symbols)>>

ArithmeticEncode(symbols, columns, alphabet, models, adaptive) ==
  LET step(state, symbol) ==
        LET context == ContextOf(state.symbols, columns, alphabet)
        IN  [coder |-> Settled(Narrowed(state.coder, state.models[context], symbol)),
             models |-> Learnt(state.models, context, symbol, adaptive),
             symbols |-> Append(state.symbols, symbol)]
      coder == FoldLeft(step,
                 [coder |-> [low |-> 0, high |-> Full - 1, pending |-> 0, bits |-> <<>>],
                  models |-> models, symbols |-> <<>>], symbols).coder
      flushed == [coder EXCEPT !.pending = @ + 1]
  IN  HighBytes(Emit(flushed, IF coder.low < Quarter THEN 0 ELSE 1).bits)

(* Nothing where a context has no counts. *)
RECURSIVE DecodeSymbols(_, _, _, _, _, _, _, _)
DecodeSymbols(coder, bytes, n, columns, alphabet, models, adaptive, symbols) ==
  LET context == ContextOf(symbols, columns, alphabet)
      counts == models[context]
      scaled == ((coder.code - coder.low + 1) * Sum(counts) - 1)
                  \div (coder.high - coder.low + 1)
      found == {s \in 0..(alphabet - 1) : Below(counts, s + 1) > scaled}
      symbol == Min(found)
  IN  IF Len(symbols) = n THEN {symbols}
      ELSE IF context \notin DOMAIN models THEN {}
      ELSE IF found = {} THEN {}
      ELSE DecodeSymbols(Refilled(Narrowed(coder, counts, symbol), bytes), bytes, n, columns,
                         alphabet, Learnt(models, context, symbol, adaptive), adaptive,
                         Append(symbols, symbol))

ArithmeticDecode(bytes, n, columns, alphabet, models, adaptive) ==
  LET code == FoldLeft(LAMBDA c, k : 2 * c + ReadBit(bytes, k - 1), 0,
                       [k \in 1..CodeBits |-> k])
  IN  DecodeSymbols([low |-> 0, high |-> Full - 1, code |-> code, at |-> CodeBits],
                    bytes, n, columns, alphabet, models, adaptive, <<>>)

(* The Rust refuses tables of counts that are too large. *)
CellsFit(reader, columns, alphabet) ==
  reader = "native" => columns * (alphabet + 1) * alphabet <= MaxCells

AdaptiveEncode(symbols, columns, alphabet) ==
  ArithmeticEncode(symbols, columns, alphabet, AllOnes(columns, alphabet), TRUE)

AdaptiveDecode(reader, bytes, n, columns, alphabet) ==
  IF ~CellsFit(reader, columns, alphabet) \/ alphabet = 0 THEN {}
  ELSE ArithmeticDecode(bytes, n, columns, alphabet, AllOnes(columns, alphabet), TRUE)
------------------------------------------------------------------------------
(* DMC1: for each context that occurs, how often which symbol follows. *)
Occurrences(symbols, columns, alphabet) ==
  LET at(i) == ContextOf(SubSeq(symbols, 1, i - 1), columns, alphabet)
  IN  [context \in {at(i) : i \in DOMAIN symbols} |->
         [s \in 1..alphabet |->
            Cardinality({i \in DOMAIN symbols : at(i) = context /\ symbols[i] = s - 1})]]

ContextLess(left, right) ==
  \/ left[1] < right[1]
  \/ left[1] = right[1] /\ left[2] < right[2]

WriteModels(models) ==
  LET entries(counts) == SelectSeq([s \in DOMAIN counts |-> <<s - 1, counts[s]>>],
                                   LAMBDA entry : entry[2] # 0)
      model(context) ==
        Varint(context[1]) \o Varint(context[2]) \o Varint(Len(entries(models[context])))
          \o FlattenSeq([e \in DOMAIN entries(models[context]) |->
               Varint(entries(models[context])[e][1])
                 \o Varint(entries(models[context])[e][2])])
      contexts == SetToSortSeq(DOMAIN models, ContextLess)
  IN  Varint(Len(contexts)) \o FlattenSeq([c \in DOMAIN contexts |-> model(contexts[c])])

RECURSIVE ReadCounts(_, _, _)
ReadCounts(bytes, n, counts) ==
  IF n = 0 THEN {[value |-> counts, rest |-> bytes]}
  ELSE UNION {ReadCounts(entry.rest, n - 1,
                         [counts EXCEPT ![entry.value[1] + 1] = entry.value[2]]) :
                entry \in {e \in ReadVarints("python", bytes, 2) :
                             /\ e.value[1] < Len(counts) /\ e.value[2] # 0
                             /\ counts[e.value[1] + 1] = 0}}

RECURSIVE ReadModels(_, _, _, _, _)
ReadModels(bytes, n, columns, alphabet, models) ==
  IF n = 0 THEN {[value |-> models, rest |-> bytes]}
  ELSE UNION {UNION {ReadModels(counts.rest, n - 1, columns, alphabet,
                                models @@ (SubSeq(head.value, 1, 2) :> counts.value)) :
                       counts \in {c \in ReadCounts(head.rest, head.value[3],
                                                    [s \in 1..alphabet |-> 0]) :
                                     Sum(c.value) # 0}} :
                head \in {h \in ReadVarints("python", bytes, 3) :
                            /\ h.value[1] < columns /\ h.value[2] <= alphabet
                            /\ SubSeq(h.value, 1, 2) \notin DOMAIN models}}
------------------------------------------------------------------------------
ColumnMajor(symbols, rows, columns) ==
  [i \in 1..(rows * columns) |->
     symbols[((i - 1) % rows) * columns + (i - 1) \div rows + 1]]

LaneCount(rows, alphabet) ==
  Min({rows, IF alphabet <= FewSymbols THEN Lanes ELSE Lanes - 1})

(* The symbols of the rows of a lane. *)
Lane(symbols, rows, columns, lanes, lane) ==
  SubSeq(symbols, ((rows * (lane - 1)) \div lanes) * columns + 1,
                  ((rows * lane) \div lanes) * columns)

(* dense_map_runs_parallel: the bytes whose runs a thread looks up.  What   *)
(* separates two rows goes with the first of them.                         *)
Chunks(data, lanes) ==
  LET lines == Lines(data)
      before(row) == Len(FlattenSeq(SubSeq(lines, 1, row)))
      begin(row) == IF row \in {0, Len(lines)} THEN before(row)
                    ELSE Min({i \in DOMAIN data : i > before(row) /\ data[i] \notin Separators}) - 1
  IN  [lane \in 1..lanes |->
         SubSeq(data, begin((Len(lines) * (lane - 1)) \div lanes) + 1,
                      begin((Len(lines) * lane) \div lanes))]

RunsOf(format, writer, data, alphabet) ==
  LET rows == Len(Lines(data))
      chunks == Chunks(data, IF format = "planes" THEN Min({rows, Lanes})
                             ELSE LaneCount(rows, alphabet))
  IN  IF writer = "native" /\ format \in {"planes", "parallel"}
      THEN FlattenSeq([c \in DOMAIN chunks |-> SplitRuns(chunks[c])])
      ELSE SplitRuns(data)

Shape(rows, columns, separators) == Varint(rows) \o Varint(columns) \o Varint(separators)

EncodeRuns(symbols, separators, alphabet) ==
  Varint(Len(symbols)) \o Varint(separators) \o Sized(PackIndices(symbols, alphabet))

EncodeMatrix(symbols, rows, columns, separators, alphabet) ==
  Shape(rows, columns, separators)
    \o Sized(PackIndices(ColumnMajor(symbols, rows, columns), alphabet))

EncodePlanes(symbols, separators, alphabet) ==
  Varint(Len(symbols)) \o Varint(separators) \o Sized(PackPlanes(symbols, alphabet))

EncodeContexts(symbols, rows, columns, separators, alphabet) ==
  LET models == Occurrences(symbols, columns, alphabet)
  IN  Shape(rows, columns, separators) \o WriteModels(models)
        \o Sized(ArithmeticEncode(symbols, columns, alphabet, models, FALSE))

EncodeAdaptive(symbols, rows, columns, separators, alphabet) ==
  Shape(rows, columns, separators) \o Sized(AdaptiveEncode(symbols, columns, alphabet))

EncodeLanes(symbols, rows, columns, separators, alphabet) ==
  LET lanes == LaneCount(rows, alphabet)
      stream(lane) == AdaptiveEncode(Lane(symbols, rows, columns, lanes, lane),
                                     columns, alphabet)
  IN  Shape(rows, columns, separators) \o Varint(lanes)
        \o FlattenSeq([lane \in 1..lanes |-> Sized(stream(lane))])

(* The counts and the tokens. *)
EncodeTokens(format, symbols, rows, columns, separators, alphabet) ==
  CASE format = "tokens"   -> EncodeRuns(symbols, separators, alphabet)
    [] format = "planes"   -> EncodePlanes(symbols, separators, alphabet)
    [] format = "matrix"   -> EncodeMatrix(symbols, rows, columns, separators, alphabet)
    [] format = "context"  -> EncodeContexts(symbols, rows, columns, separators, alphabet)
    [] format = "adaptive" -> EncodeAdaptive(symbols, rows, columns, separators, alphabet)
    [] format = "parallel" -> EncodeLanes(symbols, rows, columns, separators, alphabet)

(* The form with these dictionaries, if the writer makes one: only the Rust *)
(* looks at its limits.                                                    *)
EncodeWith(format, writer, data, tokens, separators) ==
  LET columns == IF format = "tokens" THEN 0 ELSE RowCounts(data)[1]
      runs == RunsOf(format, writer, data, Len(tokens))
      symbols == Indices(SelectSeq(runs, IsToken), tokens)
      indices == Indices(SelectSeq(runs, LAMBDA run : ~IsToken(run)), separators)
      fits == writer = "native" =>
                /\ Len(tokens) <= MaxDictionary /\ Len(separators) <= MaxDictionary
                /\ format # "planes" => CellsFit("native", columns, Len(tokens))
  IN  IF ~fits THEN {}
      ELSE {<<IF StartsWithToken(data) THEN 1 ELSE 0>>
              \o WriteDictionary(tokens) \o WriteDictionary(separators)
              \o EncodeTokens(format, symbols, Len(RowCounts(data)), columns,
                              Len(indices), Len(tokens))
              \o Sized(PackIndices(indices, Len(separators)))}

EncodeDense(format, writer, data) ==
  IF format # "tokens" /\ ~(Numeric(data) /\ Rectangular(data)) THEN {}
  ELSE EncodeWith(format, writer, data, TokenDictionary(format, writer, data),
                  SeparatorDictionary(data))
------------------------------------------------------------------------------
(* Tokens and separators in turn, if they are as many as that takes. *)
Woven(starts, tokens, separators, size) ==
  LET n == Len(tokens) + Len(separators)
      token(i) == starts = (i % 2 = 1)
      woven == FlattenSeq([i \in 1..n |-> IF token(i) THEN tokens[(i + 1) \div 2]
                                          ELSE separators[(i + 1) \div 2]])
  IN  IF /\ Len(tokens) = Cardinality({i \in 1..n : token(i)})
         /\ Len(woven) = size
      THEN {woven} ELSE {}

(* decode_dense_parallel does not look at a separator after the last lane  *)
(* if tokens come first.                                                   *)
WovenInLanes(reader, starts, tokens, separators, size) ==
  IF reader = "native" /\ starts /\ Len(separators) = Len(tokens) + 1
  THEN Woven(starts, tokens, Front(separators), size)
  ELSE Woven(starts, tokens, separators, size)

Far(left, right) == left > right + 1 \/ right > left + 1

(* What is known before the tokens are read: of each reader its bounds. *)
CountsPlausible(format, reader, tokens, separators, size) ==
  CASE format \in {"tokens", "planes"} ->
         tokens + separators <= size + 1 /\ ~Far(tokens, separators)
    [] format \notin {"tokens", "planes"} /\ (format = "matrix" \/ reader = "native") ->
         /\ tokens # 0 /\ tokens <= size + 1 /\ separators <= size + 1
         /\ ~Far(tokens, separators)
    [] OTHER -> tokens # 0 /\ tokens <= size + 1

RECURSIVE ReadLanes(_, _, _, _, _, _, _)
ReadLanes(reader, bytes, rows, columns, alphabet, lanes, lane) ==
  IF lane > lanes THEN {[value |-> <<>>, rest |-> bytes]}
  ELSE LET n == ((rows * lane) \div lanes - (rows * (lane - 1)) \div lanes) * columns
       IN  UNION {UNION {{[value |-> symbols \o others.value, rest |-> others.rest] :
                            others \in ReadLanes(reader, stream.rest, rows, columns,
                                                 alphabet, lanes, lane + 1)} :
                           symbols \in AdaptiveDecode(reader, stream.value, n, columns,
                                                      alphabet)} :
                    stream \in ReadSized(reader, bytes)}

(* What `decode` makes of the next bytes that have their number in front. *)
Unpacked(reader, bytes, decode(_)) ==
  UNION {{[value |-> symbols, rest |-> stream.rest] : symbols \in decode(stream.value)} :
           stream \in ReadSized(reader, bytes)}

ReadRuns(reader, bytes, n, alphabet) ==
  Unpacked(reader, bytes, LAMBDA b : UnpackIndices(b, n, alphabet))

ReadMatrix(reader, bytes, rows, columns, alphabet) ==
  LET turned(b) == {ColumnMajor(s, columns, rows) :
                      s \in UnpackIndices(b, rows * columns, alphabet)}
  IN  Unpacked(reader, bytes, turned)

ReadPlanes(reader, bytes, n, alphabet) ==
  Unpacked(reader, bytes, LAMBDA b : UnpackPlanes(b, n, alphabet))

ReadContexts(reader, bytes, n, columns, alphabet) ==
  LET decode(models, b) == ArithmeticDecode(b, n, columns, alphabet, models, FALSE)
  IN  UNION {UNION {Unpacked(reader, models.rest, LAMBDA b : decode(models.value, b)) :
                      models \in ReadModels(count.rest, count.value, columns, alphabet, <<>>)} :
               count \in {c \in ReadVarint(reader, bytes) : c.value <= n}}

ReadAdaptive(reader, bytes, n, columns, alphabet) ==
  Unpacked(reader, bytes, LAMBDA b : AdaptiveDecode(reader, b, n, columns, alphabet))

ReadParallel(reader, bytes, rows, columns, alphabet) ==
  UNION {ReadLanes(reader, lanes.rest, rows, columns, alphabet, lanes.value, 1) :
           lanes \in {l \in ReadVarint(reader, bytes) :
                        l.value \in 1..Lanes /\ l.value <= rows}}

(* The symbols, after the counts. *)
ReadSymbols(format, reader, bytes, rows, columns, alphabet) ==
  CASE format = "tokens"   -> ReadRuns(reader, bytes, columns, alphabet)
    [] format = "planes"   -> ReadPlanes(reader, bytes, columns, alphabet)
    [] format = "matrix"   -> ReadMatrix(reader, bytes, rows, columns, alphabet)
    [] format = "context"  -> ReadContexts(reader, bytes, rows * columns, columns, alphabet)
    [] format = "adaptive" -> ReadAdaptive(reader, bytes, rows * columns, columns, alphabet)
    [] format = "parallel" -> ReadParallel(reader, bytes, rows, columns, alphabet)

(* The tokens, or their rows and columns, and the separators. *)
ReadShape(format, reader, bytes) ==
  {[rows |-> IF format \in {"tokens", "planes"} THEN 1 ELSE counts.value[1],
    columns |-> IF format \in {"tokens", "planes"} THEN counts.value[1] ELSE counts.value[2],
    separators |-> Last(counts.value), rest |-> counts.rest] :
     counts \in ReadVarints(reader, bytes, IF format \in {"tokens", "planes"} THEN 2 ELSE 3)}

DecodeDense(format, reader, code, size) ==
  LET runs(indices, dictionary) == [i \in DOMAIN indices |-> dictionary[indices[i] + 1]]
      weave(tokens, separators) ==
        IF format = "parallel"
        THEN WovenInLanes(reader, code[1] = 1, tokens, separators, size)
        ELSE Woven(code[1] = 1, tokens, separators, size)
  IN  IF code = <<>> \/ code[1] \notin {0, 1} THEN {}
      ELSE UNION {UNION {UNION {UNION {UNION {UNION {
             weave(runs(symbols.value, tokens.value), runs(indices, separators.value)) :
               indices \in UnpackIndices(packed.value, shape.separators,
                                         Len(separators.value))} :
               packed \in {p \in ReadSized(reader, symbols.rest) : p.rest = <<>>}} :
               symbols \in ReadSymbols(format, reader, shape.rest, shape.rows, shape.columns,
                                       Len(tokens.value))} :
               shape \in {s \in ReadShape(format, reader, separators.rest) :
                            CountsPlausible(format, reader, s.rows * s.columns,
                                            s.separators, size)}} :
               separators \in ReadDictionary(reader, tokens.rest)} :
               tokens \in ReadDictionary(reader, Tail(code))}

(* The dictionaries and the counts of a form. *)
ShapeOf(format, reader, code) ==
  UNION {UNION {{[tokens |-> tokens.value, separators |-> separators.value, shape |-> shape] :
                   shape \in ReadShape(format, reader, separators.rest)} :
                  separators \in ReadDictionary(reader, tokens.rest)} :
           tokens \in ReadDictionary(reader, Tail(code))}
------------------------------------------------------------------------------
(* DMS2: planes if a sample has few distinct tokens, else lanes; the data  *)
(* itself if that fails or is the shorter once it is compressed.  The Rust *)
(* stops at the token that is one too many.                                *)
SampleAlphabet(host, data) ==
  LET tokens == TokensOf(SubSeq(data, 1, Min({Len(data), SampleSize})))
      distinct(n) == Cardinality(ToSet(SubSeq(tokens, 1, n)))
      seen == {n \in DOMAIN tokens : distinct(n) > FewValues}
      n == IF host = "native" /\ seen # {} THEN Min(seen) ELSE Len(tokens)
  IN  IF (host = "native" /\ data = <<>>) \/ \E i \in 1..n : ~IsNumericLexeme(tokens[i])
      THEN {} ELSE {Min({FewValues + 1, distinct(n)})}

(* What is compressed, with the flags of the frame and the size. *)
SelectorFrames(host, data) ==
  LET starts == IF StartsWithToken(data) THEN 1 ELSE 0
      planes(alphabet) == alphabet <= FewValues
      codes(alphabet) == EncodeDense(IF planes(alphabet) THEN "planes" ELSE "parallel",
                                     host, data)
  IN  {<<starts + 4, Len(data)>> \o data}
        \cup UNION {{<<starts + (IF planes(alphabet) THEN 2 ELSE 0), Len(data)>> \o Tail(code) :
                       code \in codes(alphabet)} :
                      alphabet \in SampleAlphabet(host, data)}

DecodeSelector(reader, frame) ==
  LET flags == frame[1]
      code == <<flags % 2>> \o Rest(frame, 2)
  IN  IF Len(frame) < 2 THEN {}
      ELSE CASE flags \in {0, 1} -> DecodeDense("parallel", reader, code, frame[2])
             [] flags \in {2, 3} -> DecodeDense("planes", reader, code, frame[2])
             [] flags \in {4, 5} -> IF Len(frame) - 2 = frame[2] THEN {Rest(frame, 2)} ELSE {}
             [] OTHER            -> {}
------------------------------------------------------------------------------
(* DSS1: a source is read a segment's size at a time; what is pending is   *)
(* cut after its last line end, if the byte after the segment's size may   *)
(* still be one: the segment is then longer than the size.                 *)
Boundary(pending) ==
  LET ends == {i \in 1..Min({Len(pending), StreamSegmentSize + 1}) : pending[i] = LineEnd}
  IN  IF ends = {} THEN StreamSegmentSize ELSE Max(ends)

RECURSIVE Segments(_, _)
Segments(source, pending) ==
  IF Len(pending) >= StreamSegmentSize
  THEN <<SubSeq(pending, 1, Boundary(pending))>>
         \o Segments(source, Rest(pending, Boundary(pending)))
  ELSE IF source # <<>>
       THEN Segments(Rest(source, StreamSegmentSize),
                     pending \o SubSeq(source, 1, Min({Len(source), StreamSegmentSize})))
       ELSE IF pending = <<>> THEN <<>> ELSE <<pending>>

(* One of the frames of each segment, between the sizes. *)
StreamsOf(choices, n) ==
  LET frames == {f \in [DOMAIN choices -> UNION Range(choices)] :
                   \A i \in DOMAIN choices : f[i] \in choices[i]}
  IN  {<<StreamSegmentSize>> \o FlattenSeq([i \in DOMAIN f |-> <<Len(f[i])>> \o f[i]])
         \o <<0, n>> : f \in frames}

EncodeStreams(host, data) ==
  LET segments == Segments(data, <<>>)
  IN  StreamsOf([i \in DOMAIN segments |-> SelectorFrames(host, segments[i])], Len(data))

(* The digests, of each segment and of all, are those of `original`. *)
RECURSIVE DecodeSegments(_, _, _, _, _)
DecodeSegments(reader, bytes, limit, original, output) ==
  LET n == bytes[1]
      fits(segment) ==
        /\ Len(segment) <= StreamSegmentSize /\ Len(output) + Len(segment) <= limit
        /\ segment = SubSeq(original, Len(output) + 1, Len(output) + Len(segment))
  IN  IF bytes = <<>> THEN {}
      ELSE IF n = 0 THEN (IF bytes = <<0, Len(output)>> /\ output = original THEN {output} ELSE {})
      ELSE UNION {UNION {DecodeSegments(reader, frame.rest, limit, original, output \o segment) :
                           segment \in {s \in DecodeSelector(reader, frame.value) : fits(s)}} :
                    frame \in Take(Tail(bytes), n)}

DecodeStream(reader, code, limit, original) ==
  IF code = <<>> \/ code[1] # StreamSegmentSize THEN {}
  ELSE DecodeSegments(reader, Tail(code), limit, original, <<>>)
==============================================================================
