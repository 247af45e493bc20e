---------------------------- MODULE StructuredText ----------------------------
(***************************************************************************)
(* STX1, the dictionary transform of texts (structured_text.py,            *)
(* native/src/lib.rs): every occurrence of a token of the dictionary       *)
(* becomes a marker and a code.  It is written in one piece or as two      *)
(* channels, of which the second has the codes, and read in one piece, as  *)
(* channels, or in chunks as they come out of libzstd.                     *)
(***************************************************************************)
EXTENDS ByteStrings

CONSTANTS MinToken, MaxToken,   \* 3 and 64 bytes
          MaxTokens,            \* 254
          SampleBudget          \* 1 MiB

TextMagic == 83       \* stands for the four bytes "STX1"
HeaderSize == 2   \* the magic and the number of tokens

TokenStart(byte) == byte = 95 \/ byte \in 65..90 \/ byte \in 97..122
TokenContinue(byte) == TokenStart(byte) \/ byte \in 48..57

ValidToken(token) ==
  /\ Len(token) \in MinToken..MaxToken /\ TokenStart(token[1])
  /\ \A i \in DOMAIN token : TokenContinue(token[i])

(* Where the run ends that could be a token from i on. *)
RunEnd(data, i) ==
  CHOOSE e \in i..Len(data) :
    /\ \A k \in i..e : TokenContinue(data[k])
    /\ e - i + 1 = MaxToken \/ e = Len(data) \/ ~TokenContinue(data[e + 1])

(* The tokens of data, as pairs of their first and last position. *)
RECURSIVE TokensFrom(_, _)
TokensFrom(data, i) ==
  IF i > Len(data) THEN <<>>
  ELSE IF ~TokenStart(data[i]) THEN TokensFrom(data, i + 1)
  ELSE LET e == RunEnd(data, i)
       IN  (IF e - i + 1 >= MinToken THEN << <<i, e>> >> ELSE <<>>)
             \o TokensFrom(data, e + 1)

(* The parts of the data that the dictionary is made from, as pairs of the *)
(* positions before the first and of the last byte.                        *)
Inside(data, i) ==
  i \in 1..(Len(data) - 1) /\ TokenContinue(data[i]) /\ TokenContinue(data[i + 1])

Trimmed(data, from, to) ==
  LET start == CHOOSE s \in from..Len(data) :
                 ~Inside(data, s) /\ \A k \in from..(s - 1) : Inside(data, k)
      end == IF to <= start THEN to
             ELSE CHOOSE e \in start..to :
                    /\ e = start \/ ~Inside(data, e)
                    /\ \A k \in (e + 1)..to : Inside(data, k)
  IN  <<start, end>>

Ranges(data) ==
  LET third == IF SampleBudget >= 3 THEN SampleBudget \div 3 ELSE 1
      tail == IF SampleBudget > 2 * third THEN SampleBudget - 2 * third ELSE 1
      middle == (Len(data) \div 2) - (third \div 2)
  IN  IF Len(data) <= SampleBudget THEN {<<0, Len(data)>>}
      ELSE {Trimmed(data, 0, third), Trimmed(data, middle, middle + third),
            Trimmed(data, Len(data) - tail, Len(data))}

SampledTokens(data) ==
  UNION {LET part == SubSeq(data, r[1] + 1, r[2])
             found == TokensFrom(part, 1)
         IN  {SubSeq(part, found[i][1], found[i][2]) : i \in DOMAIN found} :
         r \in Ranges(data)}

(* What may be ranked first of the sampled tokens; how they are counted    *)
(* and weighed is left out.                                                *)
Dictionaries(data) ==
  {d \in UNION {[1..n -> SampledTokens(data)] : n \in 1..MaxTokens} :
     \A i, j \in DOMAIN d : d[i] = d[j] => i = j}

(* The Rust slices its input with the range, start behind end or not. *)
NativeEncoderPanics(data) == \E r \in Ranges(data) : r[1] > r[2]
------------------------------------------------------------------------------
Coded(dictionary, token) ==
  IF \E c \in DOMAIN dictionary : dictionary[c] = token
  THEN <<Marker, (CHOOSE c \in DOMAIN dictionary : dictionary[c] = token) - 1>>
  ELSE token

Header(dictionary) ==
  <<TextMagic, Len(dictionary)>>
    \o FlattenSeq([i \in DOMAIN dictionary |->
         <<Len(dictionary[i])>> \o dictionary[i]])

EncodeText(data, dictionary) ==
  LET tokens == TokensFrom(data, 1)
      body[n \in 0..Len(tokens)] ==
        LET after == IF n = 0 THEN 0 ELSE tokens[n][2]
            next == IF n = Len(tokens) THEN Len(data) ELSE tokens[n + 1][1] - 1
            gap == Escaped(SubSeq(data, after + 1, next))
        IN  IF n = 0 THEN gap
            ELSE body[n - 1]
                   \o Coded(dictionary, SubSeq(data, tokens[n][1], tokens[n][2]))
                   \o gap
  IN  Header(dictionary) \o body[Len(tokens)]

MaxTextSize(size) == 2 * size + HeaderSize + MaxTokens * (1 + MaxToken)

RECURSIVE ReadTokens(_, _, _)
ReadTokens(bytes, count, dictionary) ==
  IF count = 0 THEN {[dictionary |-> dictionary, body |-> bytes]}
  ELSE IF bytes = <<>> \/ bytes[1] >= Len(bytes) THEN {}
  ELSE LET token == SubSeq(bytes, 2, bytes[1] + 1)
       IN  IF ~ValidToken(token) \/ Contains(dictionary, token) THEN {}
           ELSE ReadTokens(SubSeq(bytes, bytes[1] + 2, Len(bytes)), count - 1,
                           Append(dictionary, token))

ReadHeader(code) ==
  IF Len(code) < HeaderSize \/ code[1] # TextMagic \/ code[2] > MaxTokens THEN {}
  ELSE ReadTokens(SubSeq(code, HeaderSize + 1, Len(code)), code[2], <<>>)

Meaning(dictionary, code) ==
  CASE code = EscapedMarker -> {<<Marker>>}
    [] code # EscapedMarker /\ code < Len(dictionary) -> {dictionary[code + 1]}
    [] OTHER -> {}

(* The codes follow their markers in `body`, or are those of a channel,    *)
(* which `side` is the sequence of.                                        *)
RECURSIVE ReadBody(_, _, _, _, _)
ReadBody(dictionary, body, side, output, size) ==
  LET inline == side = <<>>
      codes == IF inline THEN Tail(body) ELSE side[1]
      room == size - Len(output)
      literal == IF room = 0 THEN {}
                 ELSE ReadBody(dictionary, Tail(body), side, Append(output, body[1]), size)
      coded == UNION {ReadBody(dictionary,
                               IF inline THEN Tail(codes) ELSE Tail(body),
                               IF inline THEN side ELSE <<Tail(codes)>>,
                               output \o token, size) :
                        token \in {t \in Meaning(dictionary, codes[1]) : Len(t) <= room}}
  IN  CASE body = <<>> ->
             IF side \in {<<>>, << <<>> >>} /\ room = 0 THEN {output} ELSE {}
        [] body # <<>> /\ body[1] # Marker -> literal
        [] OTHER -> IF codes = <<>> THEN {} ELSE coded

DecodeText(code, size) ==
  IF Len(code) > MaxTextSize(size) THEN {}
  ELSE UNION {ReadBody(h.dictionary, h.body, <<>>, <<>>, size) :
                h \in ReadHeader(code)}
------------------------------------------------------------------------------
(* Two channels: the text with its markers, and the codes. *)
RECURSIVE SplitBody(_, _, _)
SplitBody(body, skeleton, side) ==
  IF body = <<>> THEN <<skeleton, side>>
  ELSE IF body[1] # Marker
  THEN SplitBody(Tail(body), Append(skeleton, body[1]), side)
  ELSE SplitBody(SubSeq(body, 3, Len(body)), Append(skeleton, Marker),
                 Append(side, body[2]))

SplitChannels(data, dictionary) ==
  LET header == Header(dictionary)
      code == EncodeText(data, dictionary)
  IN  SplitBody(SubSeq(code, Len(header) + 1, Len(code)), header, <<>>)

DecodeChannels(skeleton, side, size) ==
  IF Len(skeleton) + Len(side) > MaxTextSize(size) \/ side = <<>> THEN {}
  ELSE UNION {ReadBody(h.dictionary, h.body, <<side>>, <<>>, size) :
                h \in ReadHeader(skeleton)}

(* The reference of the reader of channels: the codes put back, where      *)
(* there is one for each marker.                                           *)
RECURSIVE JoinBody(_, _, _)
JoinBody(body, side, joined) ==
  IF body = <<>> THEN IF side = <<>> THEN {joined} ELSE {}
  ELSE IF body[1] # Marker THEN JoinBody(Tail(body), side, Append(joined, body[1]))
  ELSE IF side = <<>> THEN {}
  ELSE JoinBody(Tail(body), Tail(side), joined \o <<Marker, side[1]>>)

JoinChannels(skeleton, side) ==
  UNION {JoinBody(h.body, side, Header(h.dictionary)) : h \in ReadHeader(skeleton)}
------------------------------------------------------------------------------
(* The reader that is fed chunks. *)
NewReader ==
  [header |-> <<>>, dictionary |-> <<>>, size |-> 0, token |-> <<>>,
   marker |-> FALSE, output |-> <<>>, invalid |-> FALSE]

Least(m, n) == IF m < n THEN m ELSE n

(* Of a chunk: the bytes one round of the loop consumes, and what becomes  *)
(* of the reader.                                                          *)
HeaderRound(r, chunk) ==
  LET taken == Least(HeaderSize - Len(r.header), Len(chunk))
      header == r.header \o SubSeq(chunk, 1, taken)
  IN  [taken |-> taken,
       reader |-> [r EXCEPT !.header = header,
                            !.invalid = /\ Len(header) = HeaderSize
                                        /\ \/ header[1] # TextMagic
                                           \/ header[2] > MaxTokens]]

SizeRound(r, chunk) ==
  [taken |-> 1,
   reader |-> [r EXCEPT !.size = chunk[1], !.token = <<>>,
                        !.invalid = chunk[1] \notin 1..MaxToken]]

TokenRound(r, chunk) ==
  LET taken == Least(r.size - Len(r.token), Len(chunk))
      token == r.token \o SubSeq(chunk, 1, taken)
  IN  [taken |-> taken,
       reader |-> IF Len(token) < r.size THEN [r EXCEPT !.token = token]
                  ELSE IF ~ValidToken(token) \/ Contains(r.dictionary, token)
                  THEN [r EXCEPT !.invalid = TRUE]
                  ELSE [r EXCEPT !.dictionary = Append(@, token), !.size = 0,
                                 !.token = <<>>]]

(* Appends as much as the output has room for, or all or nothing. *)
Appended(r, bytes, size) ==
  IF Len(bytes) > size - Len(r.output) THEN [r EXCEPT !.invalid = TRUE]
  ELSE [r EXCEPT !.output = @ \o bytes]

CodeRound(r, chunk, size) ==
  LET tokens == Meaning(r.dictionary, chunk[1])
      after == [r EXCEPT !.marker = FALSE]
  IN  [taken |-> 1,
       reader |-> IF tokens = {} THEN [after EXCEPT !.invalid = TRUE]
                  ELSE Appended(after, CHOOSE t \in tokens : TRUE, size)]

(* Mutant: the code of a marker is looked for in the same chunk. *)
ForgetsMarker(r, chunk, size) ==
  LET markers == {i \in DOMAIN chunk : chunk[i] = Marker}
      next == CHOOSE i \in markers : \A j \in markers : i <= j
  IN  IF markers = {}
      THEN [taken |-> Len(chunk), reader |-> Appended(r, chunk, size)]
      ELSE [taken |-> next,
            reader |-> [Appended(r, SubSeq(chunk, 1, next - 1), size)
                          EXCEPT !.marker = next < Len(chunk)]]

LiteralRound(r, chunk, size) ==
  LET markers == {i \in DOMAIN chunk : chunk[i] = Marker}
      next == CHOOSE i \in markers : \A j \in markers : i <= j
  IN  IF markers = {}
      THEN [taken |-> Len(chunk), reader |-> Appended(r, chunk, size)]
      ELSE [taken |-> next,
            reader |-> [Appended(r, SubSeq(chunk, 1, next - 1), size)
                          EXCEPT !.marker = TRUE]]

Round(r, chunk, size) ==
  CASE Len(r.header) < HeaderSize -> HeaderRound(r, chunk)
    [] Len(r.header) = HeaderSize /\ Len(r.dictionary) < r.header[2] /\ r.size = 0 ->
         SizeRound(r, chunk)
    [] Len(r.header) = HeaderSize /\ Len(r.dictionary) < r.header[2] /\ r.size > 0 ->
         TokenRound(r, chunk)
    [] OTHER -> IF r.marker THEN CodeRound(r, chunk, size)
                ELSE LiteralRound(r, chunk, size)

RECURSIVE Update(_, _, _)
Update(r, chunk, size) ==
  IF r.invalid \/ chunk = <<>> THEN r
  ELSE LET round == Round(r, chunk, size)
       IN  Update(round.reader, SubSeq(chunk, round.taken + 1, Len(chunk)), size)

Finished(r, size) ==
  /\ ~r.invalid /\ Len(r.header) = HeaderSize
  /\ Len(r.dictionary) = r.header[2] /\ r.size = 0 /\ ~r.marker
  /\ Len(r.output) = size
==============================================================================
