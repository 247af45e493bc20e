----------------------------- MODULE ByteStrings -----------------------------
(***************************************************************************)
(* What the byte formats of the repository have in common: lines, escaped  *)
(* markers and numbers of variable length.  A byte is a number; a reader   *)
(* returns the set of what it makes of its input, which is empty when it   *)
(* raises and otherwise has one element: the value, and the bytes that     *)
(* follow it.                                                              *)
(***************************************************************************)
EXTENDS Integers, SequencesExt, FiniteSetsExt

CONSTANTS VarintBase,    \* 128: what one byte of a number counts
          VarintLimit,   \* 10: bytes of the longest number that is read
          Word,          \* 2^64
          LineEnd        \* "\n"

(* The numbers that n bytes are too few for begin here. *)
Power(n) ==
  LET power[k \in Nat] == IF k = 0 THEN 1 ELSE VarintBase * power[k - 1]
  IN  power[n]

BytesAssumption ==
  /\ VarintBase \in Nat \ {0, 1} /\ VarintLimit \in Nat \ {0} /\ Word \in Nat
  /\ Power(VarintLimit - 1) <= Word /\ Word < Power(VarintLimit)
  /\ LineEnd \in Nat

Marker == 255
EscapedMarker == 254

Rest(bytes, n) == SubSeq(bytes, n + 1, Len(bytes))

(* The next n bytes. *)
Take(bytes, n) ==
  IF n > Len(bytes) THEN {}
  ELSE {[value |-> SubSeq(bytes, 1, n), rest |-> Rest(bytes, n)]}

WithByte(lines, byte) ==
  IF lines = <<>> \/ Last(Last(lines)) = LineEnd THEN Append(lines, <<byte>>)
  ELSE Append(Front(lines), Append(Last(lines), byte))

Lines(data) ==
  LET lines[n \in 0..Len(data)] == IF n = 0 THEN <<>> ELSE WithByte(lines[n - 1], data[n])
  IN  lines[Len(data)]

Escaped(bytes) ==
  FlattenSeq([i \in DOMAIN bytes |->
    IF bytes[i] = Marker THEN <<Marker, EscapedMarker>> ELSE <<bytes[i]>>])

CommonPrefix(left, right) ==
  Max({n \in 0..Len(left) : n <= Len(right)
                              /\ SubSeq(left, 1, n) = SubSeq(right, 1, n)})
------------------------------------------------------------------------------
Varint(value) ==
  LET digits[v \in Nat] ==
        IF v < VarintBase THEN <<v>>
        ELSE <<(v % VarintBase) + VarintBase>> \o digits[v \div VarintBase]
  IN  digits[value]

(* The value of the bytes that make a number, the last ones first. *)
Value(bytes) ==
  LET value[n \in 0..Len(bytes)] ==
        IF n = 0 THEN 0
        ELSE (bytes[Len(bytes) - n + 1] % VarintBase) + VarintBase * value[n - 1]
  IN  value[Len(bytes)]

(* Mutant: a number may have zeros to spare. *)
ReadPaddedVarint(reader, bytes) ==
  {[value |-> Value(SubSeq(bytes, 1, n)), rest |-> Rest(bytes, n)] :
     n \in {n \in 1..VarintLimit :
              /\ n <= Len(bytes) /\ bytes[n] < VarintBase
              /\ \A i \in 1..(n - 1) : bytes[i] >= VarintBase
              /\ reader = "strict" => Value(SubSeq(bytes, 1, n)) < Word}}

(* A number ends with its first byte below the base.  Python's integers    *)
(* have no width; the Rust shifts what is beyond its word away; the        *)
(* strict reader wants the shortest form of a number that fits.            *)
ReadVarint(reader, bytes) ==
  {[value |-> IF reader \in {"native", "jls2"} THEN Value(SubSeq(bytes, 1, n)) % Word
              ELSE Value(SubSeq(bytes, 1, n)),
    rest |-> Rest(bytes, n)] :
     n \in {n \in 1..VarintLimit :
              /\ n <= Len(bytes) /\ bytes[n] < VarintBase
              /\ \A i \in 1..(n - 1) : bytes[i] >= VarintBase
              /\ reader = "strict" => /\ n > 1 => bytes[n] # 0
                                      /\ Value(SubSeq(bytes, 1, n)) < Word}}

ReadVarints(reader, bytes, count) ==
  LET read[n \in 0..count] ==
        IF n = 0 THEN {[value |-> <<>>, rest |-> bytes]}
        ELSE UNION {{[value |-> Append(some.value, next.value), rest |-> next.rest] :
                       next \in ReadVarint(reader, some.rest)} : some \in read[n - 1]}
  IN  read[count]

(* Bytes with their number in front. *)
Sized(bytes) == Varint(Len(bytes)) \o bytes

ReadSized(reader, bytes) ==
  UNION {Take(n.rest, n.value) : n \in ReadVarint(reader, bytes)}

ReadAllSized(reader, bytes, count) ==
  LET read[n \in 0..count] ==
        IF n = 0 THEN {[value |-> <<>>, rest |-> bytes]}
        ELSE UNION {{[value |-> Append(some.value, next.value), rest |-> next.rest] :
                       next \in ReadSized(reader, some.rest)} : some \in read[n - 1]}
  IN  read[count]
==============================================================================
