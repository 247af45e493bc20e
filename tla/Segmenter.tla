------------------------------- MODULE Segmenter -------------------------------
(***************************************************************************)
(* How json_log_codec cuts a source into segments at line ends.            *)
(*                                                                         *)
(* _segments cuts bytes in memory and is a function of the source here;    *)
(* _file_segments is a generator over a buffer it refills, and is the      *)
(* state machine.  compress() uses the first, compress_file() the second.  *)
(* A source is its length and the set of offsets that hold a newline; a    *)
(* segment is the offset after its last byte.                              *)
(***************************************************************************)
EXTENDS Integers, Sequences, FiniteSets

CONSTANTS
  MaxLength,  \* bound: bytes of the source
  MaxTarget,  \* bound: the target size of a segment
  Chunk       \* most bytes one read past the target asks for (1 MiB)

SegmenterAssumption ==
  MaxLength \in Nat /\ MaxTarget \in Nat \ {0} /\ Chunk \in Nat \ {0}

VARIABLES
  length, newlines,  \* the source
  target,            \* target_size
  start,             \* offset of the first byte in the buffer
  taken,             \* offset after the last byte in the buffer
  eof,               \* reached_eof
  pc,                \* "fill", "search" or "done"
  ends               \* the segments yielded so far

vars == <<length, newlines, target, start, taken, eof, pc, ends>>

Smaller(a, b) == IF a < b THEN a ELSE b
Newlines(from, to) == {n \in newlines : from <= n /\ n < to}
Last(S) == CHOOSE n \in S : \A other \in S : other <= n
First(S) == CHOOSE n \in S : \A other \in S : n <= other

Init ==
  /\ length \in 0..MaxLength
  /\ newlines \in SUBSET (0..(length - 1))
  /\ target \in 1..MaxTarget
  /\ start = 0 /\ taken = 0
  /\ eof = FALSE
  /\ pc = "fill"
  /\ ends = <<>>
------------------------------------------------------------------------------
(* _segments: where the segment that starts at `offset` ends. *)
MemoryEnd(offset) ==
  LET goal == Smaller(length, offset + target)
  IN  CASE goal = length -> length
        [] goal # length /\ Newlines(offset, goal) # {} ->
             Last(Newlines(offset, goal)) + 1
        [] goal # length /\ Newlines(offset, goal) = {} ->
             IF Newlines(goal, length) = {} THEN length
             ELSE First(Newlines(goal, length)) + 1

(* The segments from `offset` on, and those of the whole source. *)
EndsFrom[offset \in 0..length] ==
  IF offset = length THEN <<>>
  ELSE <<MemoryEnd(offset)>> \o EndsFrom[MemoryEnd(offset)]

MemoryEnds == EndsFrom[0]
------------------------------------------------------------------------------
(* yield bytes(buffer[:end]); del buffer[:end] *)
Yield(end) == ends' = Append(ends, end) /\ start' = end

(* One read of the refill loop: exactly what is missing, or nothing at the *)
(* end of the source.                                                      *)
Fill ==
  /\ pc = "fill" /\ taken - start < target /\ ~eof
  /\ taken' = Smaller(length, start + target)
  /\ eof' = (taken' = taken)
  /\ UNCHANGED <<length, newlines, target, start, pc, ends>>

Filled == pc = "fill" /\ (taken - start >= target \/ eof)

(* Nothing is left, or what is left is the last segment. *)
YieldRest ==
  /\ Filled
  /\ taken = start \/ eof
  /\ pc' = "done"
  /\ IF taken = start THEN UNCHANGED <<ends, start>> ELSE Yield(taken)
  /\ UNCHANGED <<length, newlines, target, taken, eof>>

(* Mutant: the first newline of the buffer, find for rfind. *)
CutAtFirstNewline ==
  /\ Filled /\ taken # start /\ ~eof
  /\ Newlines(start, start + target) # {}
  /\ Yield(First(Newlines(start, start + target)) + 1)
  /\ UNCHANGED <<length, newlines, target, taken, eof, pc>>

(* buffer.rfind(newline, 0, target_size) finds one. *)
CutAtLastNewline ==
  /\ Filled /\ taken # start /\ ~eof
  /\ Newlines(start, start + target) # {}
  /\ Yield(Last(Newlines(start, start + target)) + 1)
  /\ UNCHANGED <<length, newlines, target, taken, eof, pc>>

(* The line is longer than the target. *)
LineTooLong ==
  /\ Filled /\ taken # start /\ ~eof
  /\ Newlines(start, start + target) = {}
  /\ pc' = "search"
  /\ UNCHANGED <<length, newlines, target, start, taken, eof, ends>>

CutAfterLongLine ==
  /\ pc = "search"
  /\ Newlines(start + target, taken) # {}
  /\ Yield(First(Newlines(start + target, taken)) + 1)
  /\ pc' = "fill"
  /\ UNCHANGED <<length, newlines, target, taken, eof>>

(* Another chunk of the long line. *)
ReadOn ==
  /\ pc = "search"
  /\ Newlines(start + target, taken) = {}
  /\ taken < length
  /\ taken' = Smaller(length, taken + Smaller(target, Chunk))
  /\ UNCHANGED <<length, newlines, target, start, eof, pc, ends>>

(* Mutant: a last line without a newline is dropped. *)
DropUnfinishedLine ==
  /\ pc = "search"
  /\ Newlines(start + target, taken) = {}
  /\ taken = length
  /\ eof' = TRUE
  /\ pc' = "done"
  /\ UNCHANGED <<length, newlines, target, start, taken, ends>>

(* The long line ends with the source. *)
YieldUnfinishedLine ==
  /\ pc = "search"
  /\ Newlines(start + target, taken) = {}
  /\ taken = length
  /\ eof' = TRUE
  /\ Yield(taken)
  /\ pc' = "done"
  /\ UNCHANGED <<length, newlines, target, taken>>

Steps == \/ Fill \/ YieldRest \/ CutAtLastNewline \/ LineTooLong
         \/ CutAfterLongLine \/ ReadOn \/ YieldUnfinishedLine

Ended == pc = "done" /\ UNCHANGED vars

Next == Steps \/ Ended

Spec == Init /\ [][Next]_vars
------------------------------------------------------------------------------
TypeOK ==
  /\ length \in 0..MaxLength /\ newlines \in SUBSET (0..(length - 1))
  /\ target \in 1..MaxTarget
  /\ start \in 0..length /\ taken \in start..length
  /\ eof \in BOOLEAN /\ pc \in {"fill", "search", "done"}
  /\ ends \in Seq(1..length)

(* Where the n-th segment starts. *)
StartOf(segments, n) == IF n = 1 THEN 0 ELSE segments[n - 1]

(* Segments follow each other without a gap or an overlap, none is empty,  *)
(* and together they are the source: what compress_file digests is it.     *)
Partition ==
  /\ \A n \in 1..Len(ends) : StartOf(ends, n) < ends[n]
  /\ start = StartOf(ends, Len(ends) + 1)
  /\ pc = "done" => start = length

(* The two segmenters differ at most in their last segment, and only where *)
(* exactly `target` bytes without a final newline are left: the generator  *)
(* has not seen the end of the file yet and cuts at an earlier newline.    *)
SameUnlessExactFit ==
  pc = "done" /\ ends # MemoryEnds =>
    LET n == Len(MemoryEnds)
    IN  /\ SubSeq(ends, 1, n - 1) = SubSeq(MemoryEnds, 1, n - 1)
        /\ length - StartOf(MemoryEnds, n) = target
        /\ (length - 1) \notin newlines

==============================================================================
