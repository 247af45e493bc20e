---------------------------- MODULE LogTransforms ----------------------------
(***************************************************************************)
(* Three reversible transforms of logs, line by line: LWX1 codes a line    *)
(* against one of the last lines of its length, LWX2 against the line in   *)
(* the slot of its length, LWS1 against the edges of the line before       *)
(* (where a carriage return ends a line too).  The magic number in front   *)
(* is left out, and that a source of 2^32 lines or more is refused.        *)
(***************************************************************************)
EXTENDS ByteStrings

CONSTANTS Window,          \* lines of one length that LWX1 remembers
          Slots,           \* 1024
          MaxReference,    \* 32 KiB: longest line a slot holds
          MaxRun,          \* 128: bytes of one command
          SpliceLimit,     \* 1 MiB: longest line that is spliced
          Xor(_, _)        \* of two bytes, bit by bit

Byte == 0..255

LogAssumption ==
  /\ {Window, Slots, MaxRun} \subseteq Nat \ {0}
  /\ {MaxReference, SpliceLimit} \subseteq Nat
  /\ LineEnd \in Byte
  /\ \A a, b \in Byte : Xor(a, b) \in Byte /\ Xor(Xor(a, b), b) = a
                          /\ (Xor(a, b) = 0 <=> a = b)

Raw == 0
Reference == 1

Difference(record, reference) ==
  [i \in DOMAIN record |-> Xor(record[i], reference[i])]

ZeroRun(residual, i) ==
  Max({n \in 0..MaxRun : /\ i + n <= Len(residual) + 1
                         /\ \A k \in i..(i + n - 1) : residual[k] = 0})

(* Where the bytes end that are given as they are from i on. *)
LiteralEnd(residual, i) ==
  Min({e \in (i + 1)..(Len(residual) + 1) :
         e = Len(residual) + 1 \/ e - i = MaxRun \/ ZeroRun(residual, e) >= 2})

(* Where the bytes end of the command for those from i on. *)
CommandEnd(residual, i) ==
  IF ZeroRun(residual, i) >= 2 THEN i + ZeroRun(residual, i) ELSE LiteralEnd(residual, i)

Command(residual, i) ==
  LET size == CommandEnd(residual, i) - i
  IN  IF ZeroRun(residual, i) >= 2 THEN <<MaxRun + size - 1>>
      ELSE <<size - 1>> \o SubSeq(residual, i, i + size - 1)

(* All commands, by what is left of the residual. *)
Commands(residual) ==
  LET commands[left \in 0..Len(residual)] ==
        IF left = 0 THEN <<>>
        ELSE LET i == Len(residual) - left + 1
             IN  Command(residual, i) \o commands[Len(residual) - CommandEnd(residual, i) + 1]
  IN  commands[Len(residual)]

(* The line, as far as it is known, after one more command. *)
ReadCommand(line, reference) ==
  IF Len(line.value) = Len(reference) THEN {line}
  ELSE UNION
    {LET size == (c.value[1] % MaxRun) + 1
         same == SubSeq(reference, Len(line.value) + 1, Len(line.value) + size)
     IN  IF size > Len(reference) - Len(line.value) THEN {}
         ELSE IF c.value[1] >= MaxRun
         THEN {[value |-> line.value \o same, rest |-> c.rest]}
         ELSE {[value |-> line.value \o Difference(l.value, same), rest |-> l.rest] :
                 l \in Take(c.rest, size)} :
     c \in Take(line.rest, 1)}

(* The line that the commands make of the reference: each of them gives at *)
(* least one byte.                                                         *)
ReadCommands(bytes, reference) ==
  LET read[n \in 0..Len(reference)] ==
        IF n = 0 THEN {[value |-> <<>>, rest |-> bytes]}
        ELSE UNION {ReadCommand(line, reference) : line \in read[n - 1]}
  IN  read[Len(reference)]
------------------------------------------------------------------------------
(* The lines that have had the place of one of n bytes, `past` being those *)
(* before it, the last one first; and how many of them came after line k.  *)
Placed(format, past, n) ==
  {k \in DOMAIN past :
     IF format = "window" THEN Len(past[k]) = n
     ELSE Len(past[k]) <= MaxReference /\ Len(past[k]) % Slots = n % Slots}

Age(format, past, n, k) == Cardinality({j \in Placed(format, past, n) : j < k})

(* The lines that one of n bytes can refer to. *)
Candidates(format, past, n) ==
  {k \in Placed(format, past, n) :
     /\ Len(past[k]) = n
     /\ Age(format, past, n, k) < IF format = "window" THEN Window ELSE 1}

LineCommands(past, record, k) == Commands(Difference(record, past[k]))

(* The candidate of the shortest commands, the last line of several. *)
Best(format, past, record) ==
  LET lines == Candidates(format, past, Len(record))
      cost(k) == Len(LineCommands(past, record, k))
  IN  CHOOSE k \in lines :
        \A j \in lines : cost(k) < cost(j) \/ (cost(k) = cost(j) /\ k <= j)

LineCode(format, past, record) ==
  LET lines == Candidates(format, past, Len(record))
      best == Best(format, past, record)
      index == IF format = "window" THEN <<Age(format, past, Len(record), best)>> ELSE <<>>
      code == index \o LineCommands(past, record, best)
  IN  Varint(Len(record))
        \o IF lines # {} /\ Len(code) < Len(record) THEN <<Reference>> \o code
           ELSE <<Raw>> \o record

(* The lines before line n, the last one first. *)
Past(lines, n) == [k \in 1..(n - 1) |-> lines[n - k]]

(* LWX1 (format "window") and LWX2 (format "recent"). *)
EncodeLines(format, data) ==
  LET lines == Lines(data)
  IN  <<Len(lines)>>
        \o FlattenSeq([n \in DOMAIN lines |->
             LineCode(format, Past(lines, n), lines[n])])

ReadReference(format, bytes, past, n) ==
  LET lines == Candidates(format, past, n)
  IN  IF format = "window"
      THEN UNION {UNION {ReadCommands(i.rest, past[k]) :
                           k \in {k \in lines : Age(format, past, n, k) = i.value[1]}} :
                    i \in Take(bytes, 1)}
      ELSE UNION {ReadCommands(bytes, past[k]) : k \in lines}

ReadLine(format, bytes, past, n) ==
  UNION {CASE mode.value[1] = Raw -> Take(mode.rest, n)
           [] mode.value[1] = Reference -> ReadReference(format, mode.rest, past, n)
           [] OTHER -> {} :
         mode \in Take(bytes, 1)}

(* What follows the lines that were read, with one more of them. *)
ReadNext(reader, format, read, size) ==
  {[past |-> <<line.value>> \o read.past, output |-> read.output \o line.value,
    rest |-> line.rest] :
     line \in UNION {ReadLine(format, n.rest, read.past, n.value) :
                     n \in {n \in ReadVarint(reader, read.rest) :
                              n.value <= size - Len(read.output)}}}

ReadLines(reader, format, bytes, count, size) ==
  LET read[n \in 0..count] ==
        IF n = 0 THEN {[past |-> <<>>, output |-> <<>>, rest |-> bytes]}
        ELSE UNION {ReadNext(reader, format, some, size) : some \in read[n - 1]}
  IN  {all.output : all \in {all \in read[count] : all.rest = <<>> /\ Len(all.output) = size}}

DecodeLines(reader, format, code, size) ==
  UNION {ReadLines(reader, format, c.rest, c.value[1], size) : c \in Take(code, 1)}
------------------------------------------------------------------------------
(* What both lines end with, apart from the common beginning. *)
CommonSuffix(previous, record) ==
  LET prefix == CommonPrefix(previous, record)
  IN  Max({n \in 0..Len(record) :
             /\ n + prefix <= Len(record) /\ n + prefix <= Len(previous)
             /\ Rest(previous, Len(previous) - n) = Rest(record, Len(record) - n)})

Splice(previous, record) ==
  LET prefix == CommonPrefix(previous, record)
      suffix == CommonSuffix(previous, record)
      middle == SubSeq(record, prefix + 1, Len(record) - suffix)
  IN  <<Reference>> \o Varint(prefix) \o Varint(suffix)
        \o Sized(middle)

(* LWS1. *)
EncodeSplices(data) ==
  LET lines == Lines(data)
      raw(n) == <<Raw>> \o Sized(lines[n])
      shorter(n) ==
        /\ n > 1 /\ Len(lines[n - 1]) <= SpliceLimit /\ Len(lines[n]) <= SpliceLimit
        /\ Len(Splice(lines[n - 1], lines[n])) < Len(raw(n))
  IN  <<Len(lines)>>
        \o FlattenSeq([n \in DOMAIN lines |->
             IF shorter(n) THEN Splice(lines[n - 1], lines[n]) ELSE raw(n)])

ReadSplice(bytes, previous) ==
  UNION {UNION {UNION {
    {[value |-> SubSeq(previous, 1, prefix.value) \o middle.value
                  \o Rest(previous, Len(previous) - suffix.value),
      rest |-> middle.rest] :
       middle \in {m \in Take(size.rest, size.value) :
                     prefix.value + suffix.value + Len(m.value) <= SpliceLimit}} :
    size \in {s \in ReadVarint("python", suffix.rest) :
                prefix.value + suffix.value <= Len(previous)}} :
    suffix \in ReadVarint("python", prefix.rest)} :
    prefix \in {p \in ReadVarint("python", bytes) : Len(previous) <= SpliceLimit}}

(* A line after its mode; `previous` is a sequence of no or one line. *)
ReadEdges(mode, bytes, previous) ==
  CASE mode = Raw -> ReadSized("python", bytes)
    [] mode = Reference ->
         UNION {ReadSplice(bytes, previous[i]) : i \in DOMAIN previous}
    [] OTHER -> {}

(* What follows the lines that were read, with one more of them. *)
ReadNextSplice(read, size) ==
  UNION {{[previous |-> <<line.value>>, output |-> read.output \o line.value,
           rest |-> line.rest] :
            line \in {l \in ReadEdges(mode.value[1], mode.rest, read.previous) :
                        Len(read.output) + Len(l.value) <= size}} :
           mode \in Take(read.rest, 1)}

ReadSplices(bytes, count, size) ==
  LET read[n \in 0..count] ==
        IF n = 0 THEN {[previous |-> <<>>, output |-> <<>>, rest |-> bytes]}
        ELSE UNION {ReadNextSplice(some, size) : some \in read[n - 1]}
  IN  {all.output : all \in {all \in read[count] : all.rest = <<>> /\ Len(all.output) = size}}

DecodeSplices(code, size) ==
  UNION {ReadSplices(c.rest, c.value[1], size) : c \in Take(code, 1)}
==============================================================================
