------------------------------- MODULE MCFrames -------------------------------
(***************************************************************************)
(* Instances of AdaptiveCalls, Segmenter and TransformCalls for TLC, which *)
(* have nothing to do with each other: one run checks them all, each in    *)
(* behaviours of its own.                                                  *)
(***************************************************************************)
EXTENDS Segmenter, AdaptiveCalls, Bitwise, TLC

CONSTANTS
  VarintBase, VarintLimit, Word, LineEnd, Window, Slots,         \* of TransformCalls
  MaxReference, MaxRun, SpliceLimit, MinToken, MaxToken, MaxTokens,
  SampleBudget, MaxChannels, MaxRawExpansion, RawOverhead, Delimiter,
  FieldSize, BundleFrame, LogOverhead, Inputs, Damages,
  Separators, Digits, Plus, Minus, Point, ByteBits, CodeBits, RescaleAt,
  MaxDictionary, MaxCells, FewSymbols, Lanes, SampleSize, FewValues, StreamSegmentSize

VARIABLES
  which,
  input, stage, codes, size, broken, reader, fed

ByteXor(a, b) == a ^^ b

Transforms == INSTANCE TransformCalls WITH Xor <- ByteXor

transformVars == <<input, stage, codes, size, broken, reader, fed>>

ASSUME CutAssumption == SegmenterAssumption
ASSUME FramesAssumption == CallsAssumption
ASSUME TransformsAssumption == 
  /\ Transforms!BytesAssumption /\ Transforms!LogAssumption
  /\ Transforms!TableAssumption /\ Transforms!ColumnsAssumption
  /\ Transforms!DenseAssumption

NoFrames ==
  /\ host = {} /\ loader = NewProcess /\ source = None
  /\ phase = "write" /\ call = [t \in Threads |-> Idle]
  /\ raced = [t \in Threads |-> FALSE]
  /\ frame = None /\ damaged = FALSE

NoSegments ==
  /\ length = 0 /\ newlines = {} /\ target = 1 /\ start = 0
  /\ taken = 0 /\ eof = FALSE /\ pc = "fill" /\ ends = <<>>

NoTransform ==
  /\ input = None /\ stage = "none" /\ codes = <<>> /\ size = 0
  /\ broken = FALSE /\ reader = None /\ fed = 0

AnyInit ==
  \/ which = "frames" /\ FramesInit /\ NoSegments /\ NoTransform
  \/ which = "cut" /\ Init /\ NoFrames /\ NoTransform
  \/ which = "transform" /\ Transforms!TransformInit /\ NoFrames /\ NoSegments

AnyNext ==
  \/ which = "frames" /\ FramesNext /\ UNCHANGED <<which, vars, transformVars>>
  \/ which = "cut" /\ Next /\ UNCHANGED <<which, frameVars, transformVars>>
  \/ /\ which = "transform" /\ Transforms!TransformNext
     /\ UNCHANGED <<which, vars, frameVars>>

AnySpec == AnyInit /\ [][AnyNext]_<<which, vars, frameVars, transformVars>>

(* The transforms: see TransformCalls. *)
TransformsReadBack == which = "transform" => Transforms!TransformsReadBack
ReadersAgree == which = "transform" => Transforms!ReadersAgree
NativeEncodes == which = "transform" => Transforms!NativeEncodes
StreamsReadBack == which = "transform" => Transforms!StreamsReadBack
------------------------------------------------------------------------------
Perms == Permutations(Threads)

(* Amid a payload the reader may find what looks like a segment. *)
MCForeign == [head |-> TRUE, recipe |-> "store", size |-> 1, psize |-> 1, crc |-> <<0>>]

MCHosts == {{"native", "libzstd", "module"}, {"native", "module"}, {"module"},
            {"zstd", "lz4"}, {}}

(* A source of n units whose parts have the sizes `sizes` names, and one   *)
(* more unit than they hold where it names none.                           *)
Source(n, text, json, delta, pick, sizes) ==
  [data |-> [i \in 1..n |-> i], text |-> text, json |-> json,
   delta |-> delta, pick |-> pick,
   coded |-> [part \in {"data", "delta", "text", "channel"} \X (1..n) \X (1..n) |->
                IF part \in DOMAIN sizes THEN sizes[part] ELSE part[2] + 1]]

Plain(n, pick) ==
  {Source(n, FALSE, FALSE, delta, pick,
          (<<"data", 2, 1>> :> first) @@ (<<"data", n, 1>> :> whole)
            @@ (<<"delta", 2, 3>> :> 1) @@ (<<"delta", n, 1>> :> 2)) :
     delta \in SUBSET {1, 3}, first \in 1..3, whole \in {2, 3, n + 1}}

TextSources(n, pick) ==
  {Source(n, TRUE, json, {}, pick,
          (<<"data", n, 1>> :> whole) @@ (<<"text", n, 1>> :> text)
            @@ (<<"channel", n, 1>> :> 2)) :
     json \in BOOLEAN, whole \in {2, n + 1}, text \in {1, 3}}

MCSources ==
  {Source(0, FALSE, FALSE, {}, "store", <<>>), Source(1, FALSE, FALSE, {}, "plain", <<>>)}
    \cup Plain(4, "plain") \cup Plain(3, "delta") \cup TextSources(4, "store")
------------------------------------------------------------------------------
(* The sources of TransformCalls, and what stands for a byte of their      *)
(* forms when it is damaged.  Bytes are below the base of a number where a *)
(* format has no marker; letters and the marker keep their value.          *)
UpToTwo(S) == {<<>>} \cup {<<x>> : x \in S} \cup {<<x, y>> : x, y \in S}

(* Every source of four bytes, and lines that repeat with a difference.    *)
LineSources ==
  UNION {[1..n -> {1, 2, LineEnd}] : n \in 0..4}
    \cup {<<1, 1, 1, 1, LineEnd, 2, 1, 1, 1, LineEnd>>,
          <<1, 1, LineEnd, 2, 2, LineEnd, 2, 2, LineEnd>>,
          <<1, LineEnd, 2, LineEnd, 1, LineEnd>>,
          <<1, 2, 1, 2, LineEnd, 1, 2, 2, 2, LineEnd, 2>>}

(* Texts up to and beyond the sample: letters, digits, spaces, markers. *)
Texts ==
  UNION {[1..n -> {97, 49, 32, 255}] : n \in 0..3} \cup [1..6 -> {97, 32}]
    \cup {<<97, 97, 255, 97, 97>>, <<97, 98, 255, 255, 97>>}

(* Lines with up to two fields and the bytes between them. *)
Gaps == {<<1, 1, 1, 1>>, <<255, 1, 1, 1>>}
JsonFields == [key : {"k", "l", "m"}, before : Gaps,
               value : {<<1>>, <<255, 2>>, <<1, 1, 1, 1>>}]

Line(fields, after) == [fields |-> fields, after |-> after, json |-> TRUE]
NotJson == [fields |-> <<>>, after |-> <<255, 1>>, json |-> FALSE]
Lines1 == {Line(<<f>>, <<LineEnd>>) : f \in JsonFields} \cup {NotJson}
Lines2 == {Line(<<f, g>>, <<255>>) :
             f \in [key : {"k"}, before : {<<1, 1, 1, 1>>},
                    value : {<<1>>, <<255, 2>>, <<1, 1, 1, 1>>}],
             g \in [key : {"k", "l"}, before : {<<255, 1, 1, 1>>}, value : {<<1>>}]}

JsonSources ==
  {<<>>} \cup {<<line>> : line \in Lines1}
    \cup {<<two, one>> : two \in Lines2,
            one \in {line \in Lines1 :
                       line.json => line.fields[1].before = <<1, 1, 1, 1>>}}

(* Bundles of files and of pages, some of which are none: in disorder, not *)
(* text, or with numbers too far apart.                                    *)
Files == [path : {<<97>>, <<97, 46, 97>>, <<97, 46, 98>>, <<98, 46, 65>>,
                  <<97, 47, 46, 97>>, <<255>>},
          content : {<<>>, <<1>>, <<255, 1>>}]
Pages == [page : {0, 15, 31}, revision : {0, 16},
          title : {<<>>, <<97>>, <<97, 98>>}, text : {<<>>, <<97>>}]

(* Tables: separators 2 and LineEnd, digits 0 and 1, signs 4 and 7, dot 5; *)
(* 6 is a letter.  Four rows and more, with counts that are halved, more   *)
(* distinct numbers than a dictionary may have, numbers around zero.       *)
Cells == UNION {[1..n -> {0, 1, 2, LineEnd}] : n \in 0..3}
Tables ==
  {<<1, LineEnd, 1, LineEnd, 0, LineEnd, 1, LineEnd, 1, LineEnd, 1, LineEnd, 0>>,
   <<2, 1, 2, 0, LineEnd, 2, 0, 2, 2, 0, LineEnd, 1, 2, 1, LineEnd, LineEnd>>,
   <<1, 2, 0, LineEnd, 0, 2, 1, LineEnd, 2, 1, 2, 1, LineEnd, 0, 2, 0, LineEnd>>,
   <<1, LineEnd, 4, 1, LineEnd, 0, LineEnd, 1, 1, LineEnd, 1, 0>>,
   <<1, LineEnd, 4, 1, LineEnd, 0, LineEnd, 1, 1, LineEnd, 1, 0, LineEnd, 7, 0>>,
   <<0, 2, 5, 0, 1, LineEnd, 4, 5, 1, 2, 1>>, <<0, 2, 4, 0, LineEnd, 1, 5, 2, 0, 0, 1>>,
   <<1, 2, 0, 5, 1, 2, 1, 1, 2, 0, LineEnd>>, <<1, 6>>, <<5, 2, 1>>, <<1, 5, 5>>,
   <<4, LineEnd, 1>>}

TableFormats == {"tokens", "matrix", "planes", "context", "adaptive", "parallel"}

MCInputs ==
  [f \in TableFormats |-> Cells \cup Tables]
  @@ [f \in {"stream"} |->
        UNION {[1..n -> {1, LineEnd}] : n \in 0..6}
          \cup {<<0, 2, 1, LineEnd, 6, 1>>, <<1, 2, 0, 2, 1, 1, LineEnd, LineEnd, LineEnd>>}]
  @@ [f \in {"window", "recent", "splices", "table"} |-> LineSources]
  @@ [f \in {"text", "channels"} |-> Texts]
  @@ [f \in {"json"} |-> JsonSources]
  @@ [f \in {"source", "lanes"} |-> UpToTwo(Files)]
  @@ [f \in {"wikimedia"} |-> UpToTwo(Pages)]

(* A byte is lost, another one, twice there, or made a longer number. *)
Numbers == {<<>>, <<0>>, <<1>>, <<2>>, <<3>>, <<4>>, <<1, 1>>, <<5, 0>>, <<4, 4, 2>>}

MCDamages ==
  [f \in TableFormats |-> Numbers] @@ [f \in {"stream"} |-> {}] @@
  [f \in {"window", "recent", "splices", "table", "source", "lanes", "wikimedia"} |->
     Numbers]
  @@ [f \in {"text", "channels"} |->
        {<<>>, <<0>>, <<1>>, <<2>>, <<97>>, <<254>>, <<255>>, <<97, 97>>}]
  @@ [f \in {"json"} |-> Numbers \cup {<<255>>, <<254>>}]
==============================================================================
