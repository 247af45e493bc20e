----------------------------- MODULE FramesProofs -----------------------------
(***************************************************************************)
(* The segments of _file_segments partition the source and end where they  *)
(* would in memory, for sources, reads and targets of any size; and the    *)
(* frames of compress() and of the adaptive codecs are read back, or the   *)
(* reason is known, whichever sources, sizes of coded parts, hosts, threads*)
(* and limits there are.  The two have no state in common.                 *)
(***************************************************************************)
EXTENDS Segmenter, AdaptiveCalls, Sums, SequenceTheorems, TLAPS

(* Newlines are looked for by their least and their greatest offset, so    *)
(* that both exist has to be known first.                                  *)
LEMMA FirstIsLeast ==
  ASSUME NEW S \in SUBSET Nat, S # {}
  PROVE  First(S) \in S /\ \A other \in S : First(S) <= other
<1>1. PICK n \in S : \A other \in S : n <= other
  BY Least
<1>2. QED
  BY <1>1, Zenon DEF First

(* A non-empty set of offsets below a bound has a greatest one. *)
LEMMA Greatest ==
  ASSUME NEW bound \in Nat, NEW S \in SUBSET (0..bound), S # {}
  PROVE  Last(S) \in S /\ \A other \in S : other <= Last(S)
<1> DEFINE Mirror == {bound - n : n \in S}
<1>0. PICK some \in S : TRUE
  OBVIOUS
<1>1. Mirror \in SUBSET Nat /\ Mirror # {}
  <2>1. \A n \in S : n \in 0..bound /\ bound - n \in Nat
    OBVIOUS
  <2>2. bound - some \in Mirror
    OBVIOUS
  <2>3. QED
    BY <2>1, <2>2
<1> DEFINE m == First(Mirror)
<1>2. m \in Mirror /\ \A other \in Mirror : m <= other
  BY <1>1, FirstIsLeast
<1>3. PICK n \in S : m = bound - n
  BY <1>2
<1>4. ASSUME NEW other \in S PROVE other <= n
  <2>1. bound - other \in Mirror
    OBVIOUS
  <2>2. m <= bound - other
    BY <1>2, <2>1
  <2>3. n \in 0..bound /\ other \in 0..bound
    OBVIOUS
  <2> HIDE DEF m
  <2>4. QED
    BY <1>3, <2>2, <2>3
<1>5. QED
  BY <1>4, Zenon DEF Last

(* What the places of the generator know: the end of the source has been   *)
(* seen only where the buffer ends with it, and a search goes on from a    *)
(* buffer of at least one segment.                                         *)
Reading ==
  /\ pc = "fill" /\ eof => taken = length
  /\ pc = "search" => start + target <= taken /\ ~eof

IInv == TypeOK /\ Reading /\ Partition

LEMMA InitIInv == ASSUME SegmenterAssumption PROVE Init => IInv
<1> SUFFICES ASSUME SegmenterAssumption, Init PROVE IInv
  OBVIOUS
<1>1. TypeOK
  <2>1. length \in Nat /\ start \in 0..length /\ taken \in start..length
    BY DEF SegmenterAssumption, Init
  <2>2. ends \in Seq(1..length)
    BY DEF Init
  <2>3. QED
    BY <2>1, <2>2 DEF Init, TypeOK
<1>2. Reading
  BY DEF SegmenterAssumption, Init, Reading
<1>3. Len(ends) = 0 /\ start = 0 /\ pc = "fill"
  BY DEF Init
<1>4. Partition
  BY <1>3 DEF Partition, StartOf
<1>5. QED
  BY <1>1, <1>2, <1>4 DEF IInv

(* A segment that ends after the one before it and within the buffer. *)
LEMMA YieldKeeps ==
  ASSUME TypeOK, Partition, NEW end \in (start + 1)..taken, Yield(end),
         UNCHANGED <<length, newlines, target>>
  PROVE  /\ start' \in 0..length /\ ends' \in Seq(1..length)
         /\ \A n \in 1..Len(ends') : StartOf(ends', n) < ends'[n]
         /\ start' = StartOf(ends', Len(ends') + 1)
<1> USE DEF TypeOK
<1>1. end \in 1..length /\ start' = end /\ ends' = Append(ends, end)
  BY DEF Yield
<1>2. /\ ends' \in Seq(1..length) /\ Len(ends') = Len(ends) + 1
      /\ ends'[Len(ends) + 1] = end
      /\ \A n \in 1..Len(ends) : ends'[n] = ends[n]
  BY <1>1
<1>3. start' = StartOf(ends', Len(ends') + 1)
  BY <1>1, <1>2 DEF StartOf
<1>4. ASSUME NEW n \in 1..Len(ends') PROVE StartOf(ends', n) < ends'[n]
  <2>1. StartOf(ends', n) = StartOf(ends, n)
    <3>1. CASE n = 1
      BY <3>1 DEF StartOf
    <3>2. CASE n # 1
      <4>1. n - 1 \in 1..Len(ends)
        BY <1>2, <3>2
      <4>2. ends'[n - 1] = ends[n - 1]
        BY <1>2, <4>1
      <4>3. QED
        BY <3>2, <4>2 DEF StartOf
    <3>3. QED
      BY <3>1, <3>2
  <2>2. CASE n \in 1..Len(ends)
    BY <2>1, <2>2, <1>2 DEF Partition
  <2>3. CASE n = Len(ends) + 1
    BY <2>1, <2>3, <1>2 DEF Partition
  <2>4. QED
    BY <2>2, <2>3, <1>2
<1>5. QED
  BY <1>1, <1>2, <1>3, <1>4

LEMMA NextIInv ==
  ASSUME SegmenterAssumption PROVE IInv /\ [Next]_vars => IInv'
<1> SUFFICES ASSUME IInv, [Next]_vars PROVE IInv'
  OBVIOUS
<1> USE DEF IInv, TypeOK
<1>0. target \in Nat \ {0} /\ length \in Nat /\ newlines \in SUBSET (0..length)
  BY DEF SegmenterAssumption
<1>1. CASE Fill
  <2>1. /\ pc = "fill" /\ taken - start < target /\ ~eof
        /\ taken' = Smaller(length, start + target)
        /\ UNCHANGED <<length, newlines, target, start, pc, ends>>
    BY <1>1 DEF Fill
  <2>2. taken' \in taken..length
    BY <1>0, <2>1 DEF Smaller
  <2>3. eof' => taken' = length
    <3>1. CASE taken' = taken
      BY <1>0, <2>1, <3>1 DEF Smaller
    <3>2. CASE taken' # taken
      BY <1>1, <3>2, Zenon DEF Fill
    <3>3. QED
      BY <3>1, <3>2
  <2>4. eof' \in BOOLEAN
    BY <1>1, Zenon DEF Fill
  <2>5. QED
    BY <1>0, <2>1, <2>2, <2>3, <2>4 DEF Reading, Partition, StartOf
<1>2. CASE YieldRest
  <2>1. taken = length
    BY <1>0, <1>2 DEF YieldRest, Filled, Reading
  <2>2. CASE taken = start
    BY <1>2, <2>1, <2>2 DEF YieldRest, Reading, Partition, StartOf
  <2>3. CASE taken # start
    <3>1. taken \in (start + 1)..taken /\ Yield(taken)
      BY <1>2, <2>3 DEF YieldRest
    <3>2. UNCHANGED <<length, newlines, target, taken, eof>> /\ pc' = "done"
      BY <1>2 DEF YieldRest
    <3>3. start' = taken
      BY <3>1 DEF Yield
    <3>4. QED
      BY <2>1, <3>1, <3>2, <3>3, YieldKeeps DEF Reading, Partition
  <2>4. QED
    BY <2>2, <2>3
<1>3. CASE CutAtLastNewline
  <2> DEFINE S == Newlines(start, start + target)
  <2>1. S \in SUBSET (0..length) /\ S # {}
    BY <1>0, <1>3 DEF CutAtLastNewline, Newlines
  <2> DEFINE last == Last(S)
  <2>2. last \in S
    BY <1>0, <2>1, Greatest
  <2>3. start + target <= taken /\ Yield(last + 1)
    BY <1>0, <1>3 DEF CutAtLastNewline, Filled
  <2>4. last \in 0..length /\ start <= last /\ last < start + target
    BY <1>0, <2>2 DEF Newlines
  <2>5. UNCHANGED <<length, newlines, target, taken, eof, pc>> /\ pc = "fill" /\ ~eof
    BY <1>3 DEF CutAtLastNewline, Filled
  <2>6. start' = last + 1
    BY <2>3 DEF Yield
  <2> HIDE DEF S, last
  <2>7. last + 1 \in (start + 1)..taken
    BY <1>0, <2>3, <2>4
  <2>8. QED
    BY <2>3, <2>5, <2>6, <2>7, YieldKeeps DEF Reading, Partition
<1>4. CASE LineTooLong
  BY <1>0, <1>4 DEF LineTooLong, Filled, Reading, Partition, StartOf
<1>5. CASE CutAfterLongLine
  <2> DEFINE S == Newlines(start + target, taken)
  <2> DEFINE first == First(S)
  <2>0. S # {} /\ Yield(first + 1)
    BY <1>5 DEF CutAfterLongLine
  <2>1. S \in SUBSET Nat
    <3>1. S \subseteq newlines
      BY DEF Newlines
    <3> HIDE DEF S
    <3>2. \A n \in S : n \in Nat
      BY <1>0, <3>1
    <3>3. QED
      BY <3>2
  <2>2. first \in S
    BY <2>0, <2>1, FirstIsLeast
  <2>3. first \in 0..length /\ start + target <= first /\ first < taken
    BY <1>0, <2>2 DEF Newlines
  <2>4. UNCHANGED <<length, newlines, target, taken, eof>> /\ pc' = "fill" /\ ~eof
    BY <1>5 DEF CutAfterLongLine, Reading
  <2>5. start' = first + 1
    BY <2>0 DEF Yield
  <2> HIDE DEF S, first
  <2>6. first + 1 \in (start + 1)..taken
    BY <1>0, <2>3
  <2>7. QED
    BY <2>0, <2>4, <2>5, <2>6, YieldKeeps DEF Reading, Partition
<1>6. CASE ReadOn
  BY SMTT(30), <1>0, <1>6 DEF ReadOn, Smaller, SegmenterAssumption, Reading, Partition, StartOf
<1>7. CASE YieldUnfinishedLine
  <2>1. /\ taken = length /\ pc' = "done" /\ Yield(taken)
        /\ UNCHANGED <<length, newlines, target, taken>> /\ eof' = TRUE
        /\ start + target <= taken
    BY <1>7 DEF YieldUnfinishedLine, Reading
  <2>2. taken \in (start + 1)..taken
    BY <1>0, <2>1
  <2>3. start' = taken
    BY <2>1 DEF Yield
  <2>4. QED
    BY <2>1, <2>2, <2>3, YieldKeeps DEF Reading, Partition
<1>8. CASE UNCHANGED vars
  BY <1>8 DEF vars, Reading, Partition, StartOf
<1>9. QED
  BY <1>1, <1>2, <1>3, <1>4, <1>5, <1>6, <1>7, <1>8 DEF Next, Steps, Ended

(* Every reachable state is one of IInv. *)
THEOREM Invariant == ASSUME SegmenterAssumption PROVE Spec => []IInv
  BY InitIInv, NextIInv, PTL DEF Spec

(* The generator's variables keep their types: the buffer stays inside the *)
(* source, and no segment ends outside it.                                 *)
THEOREM TypeCorrect == ASSUME SegmenterAssumption PROVE Spec => []TypeOK
  BY Invariant, PTL DEF IInv

(* Whatever lines the source has and however its reads are sized, the      *)
(* segments follow each other without gap or overlap, and end with it.     *)
THEOREM SegmentsPartition == ASSUME SegmenterAssumption PROVE Spec => []Partition
  BY Invariant, PTL DEF IInv
------------------------------------------------------------------------------
(* _segments always moves on: a segment ends after it starts and within    *)
(* the source.                                                             *)
LEMMA MemoryEndMoves ==
  ASSUME length \in Nat, newlines \in SUBSET (0..(length - 1)), target \in Nat \ {0},
         NEW offset \in 0..(length - 1)
  PROVE  MemoryEnd(offset) \in (offset + 1)..length
<1>0. \A n \in newlines : n \in Nat /\ n < length
  OBVIOUS
<1> DEFINE goal == Smaller(length, offset + target)
<1>1. goal \in (offset + 1)..length
  BY DEF Smaller
<1>2. CASE goal = length
  BY <1>1, <1>2 DEF MemoryEnd
<1> DEFINE N == Newlines(offset, goal)
           M == Newlines(goal, length)
<1>3. CASE goal # length /\ N # {}
  <2>1. N \in SUBSET (0..length)
    <3>1. N \subseteq newlines
      BY DEF Newlines
    <3> HIDE DEF N
    <3>2. QED
      BY <1>0, <3>1
  <2>2. Last(N) \in N
    BY <1>3, <2>1, Greatest
  <2>3. Last(N) \in Nat /\ offset <= Last(N) /\ Last(N) < goal
    BY <1>0, <2>2 DEF Newlines
  <2>4. MemoryEnd(offset) = Last(N) + 1
    BY <1>3 DEF MemoryEnd
  <2> HIDE DEF N, goal
  <2>5. QED
    BY <2>3, <2>4, <1>1
<1>4. CASE goal # length /\ N = {}
  <2>1. MemoryEnd(offset) = IF M = {} THEN length ELSE First(M) + 1
    BY <1>4 DEF MemoryEnd
  <2>2. CASE M = {}
    BY <2>1, <2>2
  <2>3. CASE M # {}
    <3>1. M \in SUBSET Nat
      BY <1>0 DEF Newlines
    <3>2. First(M) \in M
      BY <2>3, <3>1, FirstIsLeast
    <3>3. First(M) \in Nat /\ goal <= First(M) /\ First(M) < length
      BY <1>0, <3>2 DEF Newlines
    <3> HIDE DEF M, N, goal
    <3>4. QED
      BY <2>1, <2>3, <3>3, <1>1
  <2>4. QED
    BY <2>2, <2>3
<1>5. QED
  BY <1>2, <1>3, <1>4

(* The equation that defines EndsFrom, for a function on k..length. *)
EndsFrom_k(g, k) ==
  g = [offset \in k..length |->
         IF offset = length THEN <<>>
         ELSE <<MemoryEnd(offset)>> \o g[MemoryEnd(offset)]]

(* It has a solution on the whole source: the least source offset counted  *)
(* from the end that has none would have one.                              *)
LEMMA EndsFromExists ==
  ASSUME length \in Nat, newlines \in SUBSET (0..(length - 1)), target \in Nat \ {0}
  PROVE  \E g : EndsFrom_k(g, 0)
<1> DEFINE Good(k) == \E g : EndsFrom_k(g, length - k)
           Bad == {k \in 0..length : ~Good(k)}
<1>1. SUFFICES Bad = {}
  <2>1. length \in 0..length /\ length - length = 0
    OBVIOUS
  <2>2. Good(length)
    BY <1>1, <2>1
  <2>3. QED
    BY <2>1, <2>2
<1>2. SUFFICES ASSUME Bad # {} PROVE FALSE
  OBVIOUS
<1> DEFINE k == First(Bad)
<1>3. k \in Bad /\ \A j \in Bad : k <= j
  <2>1. Bad \in SUBSET Nat
    OBVIOUS
  <2> HIDE DEF Bad
  <2>2. QED
    BY <2>1, <1>2, FirstIsLeast
<1>4. k \in 0..length /\ ~Good(k)
  BY <1>3
<1> HIDE DEF k, Bad
<1>5. CASE k = 0
  <2> DEFINE e == [offset \in length..length |-> <<>>]
  <2>1. EndsFrom_k(e, length)
    BY DEF EndsFrom_k
  <2>2. length - k = length
    BY <1>5
  <2>3. QED
    BY <2>1, <2>2, <1>4
<1>6. CASE k # 0
  <2>1. k - 1 \in 0..length /\ k - 1 \notin Bad
    BY <1>3, <1>4, <1>6
  <2>2. Good(k - 1)
    BY <2>1 DEF Bad
  <2> DEFINE at == length - k
  <2>3. at \in 0..(length - 1) /\ length - (k - 1) = at + 1
    BY <1>4, <1>6
  <2>4. PICK g : EndsFrom_k(g, at + 1)
    BY <2>2, <2>3
  <2> DEFINE h == [offset \in at..length |->
                     IF offset = at THEN <<MemoryEnd(at)>> \o g[MemoryEnd(at)]
                     ELSE g[offset]]
  <2>5. \A offset \in at..length : offset # length =>
          MemoryEnd(offset) \in (offset + 1)..length
    BY <2>3, MemoryEndMoves
  <2>6. \A offset \in (at + 1)..length : h[offset] = g[offset]
    BY <2>3
  <2>7. \A offset \in at..length : offset # length =>
          h[MemoryEnd(offset)] = g[MemoryEnd(offset)]
    BY <2>3, <2>5, <2>6
  <2>8. \A offset \in (at + 1)..length :
          g[offset] = IF offset = length THEN <<>>
                      ELSE <<MemoryEnd(offset)>> \o g[MemoryEnd(offset)]
    BY <2>4 DEF EndsFrom_k
  <2>9. \A offset \in at..length :
          h[offset] = IF offset = length THEN <<>>
                      ELSE <<MemoryEnd(offset)>> \o h[MemoryEnd(offset)]
    <3> SUFFICES ASSUME NEW offset \in at..length
                 PROVE  h[offset] = IF offset = length THEN <<>>
                          ELSE <<MemoryEnd(offset)>> \o h[MemoryEnd(offset)]
      OBVIOUS
    <3>1. CASE offset = at
      <4>1. offset # length
        BY <3>1, <2>3
      <4>2. h[offset] = <<MemoryEnd(offset)>> \o g[MemoryEnd(offset)]
        BY <3>1
      <4> HIDE DEF h, at
      <4>3. QED
        BY <4>1, <4>2, <2>7
    <3>2. CASE offset # at
      <4>1. offset \in (at + 1)..length
        BY <3>2, <2>3
      <4> HIDE DEF h
      <4>2. QED
        BY <4>1, <2>6, <2>7, <2>8
    <3>3. QED
      BY <3>1, <3>2
  <2>10. EndsFrom_k(h, at)
    <3>1. h = [offset \in at..length |-> h[offset]]
      OBVIOUS
    <3> HIDE DEF h
    <3>2. QED
      BY <3>1, <2>9 DEF EndsFrom_k
  <2>11. QED
    BY <2>10, <1>4
<1>7. QED
  BY <1>5, <1>6

(* What EndsFrom is: after the segment at `offset`, those of its end. *)
LEMMA EndsFromUnfolds ==
  ASSUME length \in Nat, newlines \in SUBSET (0..(length - 1)), target \in Nat \ {0}
  PROVE  /\ EndsFrom[length] = <<>>
         /\ \A offset \in 0..(length - 1) :
              EndsFrom[offset] = <<MemoryEnd(offset)>> \o EndsFrom[MemoryEnd(offset)]
<1>1. EndsFrom_k(EndsFrom, 0)
  BY EndsFromExists, Zenon DEF EndsFrom, EndsFrom_k
<1>2. ASSUME NEW offset \in 0..length
      PROVE  EndsFrom[offset] = IF offset = length THEN <<>>
                                ELSE <<MemoryEnd(offset)>> \o EndsFrom[MemoryEnd(offset)]
  <2>1. offset \in 0..length
    OBVIOUS
  <2>2. QED
    BY <1>1, <2>1, Zenon DEF EndsFrom_k
<1>3. length \in 0..length
  OBVIOUS
<1>4. EndsFrom[length] = <<>>
  BY <1>2, <1>3
<1>5. ASSUME NEW offset \in 0..(length - 1)
      PROVE  EndsFrom[offset] = <<MemoryEnd(offset)>> \o EndsFrom[MemoryEnd(offset)]
  <2>1. offset \in 0..length /\ offset # length
    OBVIOUS
  <2>2. QED
    BY <1>2, <2>1
<1>6. QED
  BY <1>4, <1>5

(* The source, as TypeOK has it. *)
Source ==
  length \in Nat /\ newlines \in SUBSET (0..(length - 1)) /\ target \in Nat \ {0}

(* Segments are sequences of offsets: the last offset from which they were *)
(* not would have an end from which they are not either.                   *)
LEMMA EndsFromType ==
  ASSUME Source
  PROVE  \A offset \in 0..length : EndsFrom[offset] \in Seq(1..length)
<1> USE DEF Source
<1> DEFINE Bad == {offset \in 0..length : EndsFrom[offset] \notin Seq(1..length)}
<1>1. SUFFICES ASSUME Bad # {} PROVE FALSE
  OBVIOUS
<1> DEFINE last == Last(Bad)
<1>2. last \in Bad /\ \A other \in Bad : other <= last
  <2>1. Bad \in SUBSET (0..length)
    OBVIOUS
  <2> HIDE DEF Bad
  <2>2. QED
    BY <2>1, <1>1, Greatest
<1> HIDE DEF last
<1>3. last \in 0..length /\ EndsFrom[last] \notin Seq(1..length)
  BY <1>2
<1>4. <<>> \in Seq(1..length)
  OBVIOUS
<1>5. last # length
  BY <1>3, <1>4, EndsFromUnfolds
<1>6. MemoryEnd(last) \in (last + 1)..length
  BY <1>3, <1>5, MemoryEndMoves
<1>7. EndsFrom[MemoryEnd(last)] \in Seq(1..length)
  <2>1. MemoryEnd(last) \notin Bad
    BY <1>2, <1>3, <1>6
  <2>2. MemoryEnd(last) \in 0..length
    BY <1>3, <1>6
  <2>3. QED
    BY <2>1, <2>2
<1>8. <<MemoryEnd(last)>> \in Seq(1..length)
  BY <1>3, <1>6
<1>9. EndsFrom[last] = <<MemoryEnd(last)>> \o EndsFrom[MemoryEnd(last)]
  BY <1>3, <1>5, EndsFromUnfolds
<1>10. QED
  BY <1>3, <1>7, <1>8, <1>9, ConcatProperties

(* Both segmenters have made the same cuts and have the same bytes left. *)
Same == MemoryEnds = ends \o EndsFrom[start]

(* The generator has cut into the last segment of the other: exactly one   *)
(* target was left then, without a newline at its end.                     *)
Parted ==
  \E n \in 0..Len(ends) :
    /\ Len(MemoryEnds) = n + 1
    /\ SubSeq(ends, 1, n) = SubSeq(MemoryEnds, 1, n)
    /\ length - StartOf(MemoryEnds, n + 1) = target
    /\ (length - 1) \notin newlines

(* Where the generator is in its buffer, as far as its next cut needs it. *)
Buffered ==
  /\ pc = "fill" /\ eof => taken - start < target
  /\ pc = "search" => Newlines(start, start + target) = {}

CInv == Buffered /\ (Same \/ Parted)

LEMMA SourceKept ==
  ASSUME UNCHANGED <<length, newlines, target>>
  PROVE  /\ EndsFrom' = EndsFrom /\ MemoryEnds' = MemoryEnds
         /\ \A offset : MemoryEnd(offset)' = MemoryEnd(offset)
<1>1. length' = length /\ newlines' = newlines /\ target' = target
  OBVIOUS
<1>2. ASSUME NEW offset PROVE MemoryEnd(offset)' = MemoryEnd(offset)
  BY <1>1 DEF MemoryEnd, Smaller, Newlines
<1>3. EndsFrom' = EndsFrom
  BY <1>1, <1>2, Zenon DEF EndsFrom
<1>4. MemoryEnds' = MemoryEnds
  BY <1>3 DEF MemoryEnds
<1>5. QED
  BY <1>2, <1>3, <1>4

(* A cut moves from the segments to come to those that were made. *)
LEMMA MoveCut ==
  ASSUME NEW S, NEW made \in Seq(S), NEW cut \in S, NEW rest \in Seq(S)
  PROVE  made \o (<<cut>> \o rest) = Append(made, cut) \o rest
<1>1. <<cut>> \in Seq(S)
  OBVIOUS
<1>2. (made \o <<cut>>) \o rest = made \o (<<cut>> \o rest)
  BY <1>1, ConcatAssociative
<1>3. Append(made, cut) = made \o <<cut>>
  BY AppendIsConcat
<1>4. QED
  BY <1>2, <1>3

(* The same cut as _segments'. *)
LEMMA SameCut ==
  ASSUME Source, TypeOK, Same, start < length, UNCHANGED <<length, newlines, target>>,
         Yield(MemoryEnd(start))
  PROVE  Same'
<1> USE DEF Source
<1> DEFINE end == MemoryEnd(start)
<1>1. start \in 0..(length - 1) /\ ends \in Seq(1..length)
  BY DEF TypeOK
<1>2. end \in (start + 1)..length
  BY <1>1, MemoryEndMoves
<1>3. EndsFrom[start] = <<end>> \o EndsFrom[end]
  BY <1>1, EndsFromUnfolds
<1>4. EndsFrom[end] \in Seq(1..length)
  <2>1. end \in 0..length
    BY <1>1, <1>2
  <2>2. QED
    BY <2>1, EndsFromType
<1>5. start' = end /\ ends' = Append(ends, end)
  BY DEF Yield
<1>6. MemoryEnds' = MemoryEnds /\ EndsFrom' = EndsFrom
  BY SourceKept
<1>7. ends \o (<<end>> \o EndsFrom[end]) = Append(ends, end) \o EndsFrom[end]
  <2>1. end \in 1..length
    BY <1>1, <1>2
  <2> HIDE DEF end
  <2>2. PICK made \in Seq(1..length) : made = ends
    BY <1>1
  <2>3. PICK cut \in 1..length : cut = end
    BY <2>1
  <2>4. PICK rest \in Seq(1..length) : rest = EndsFrom[end]
    BY <1>4
  <2>5. made \o (<<cut>> \o rest) = Append(made, cut) \o rest
    BY ONLY MoveCut, <2>2, <2>3
  <2>6. QED
    BY <2>2, <2>3, <2>4, <2>5
<1> HIDE DEF end
<1>9. QED
  BY <1>3, <1>5, <1>6, <1>7 DEF Same

(* Whatever is cut after the parting does not matter. *)
LEMMA PartedCut ==
  ASSUME TypeOK, Parted, UNCHANGED <<length, newlines, target>>,
         NEW end \in 1..length, Yield(end)
  PROVE  Parted'
<1>1. MemoryEnds' = MemoryEnds
  BY SourceKept
<1>2. PICK n \in 0..Len(ends) :
        /\ Len(MemoryEnds) = n + 1
        /\ SubSeq(ends, 1, n) = SubSeq(MemoryEnds, 1, n)
        /\ length - StartOf(MemoryEnds, n + 1) = target
        /\ (length - 1) \notin newlines
  BY DEF Parted
<1>3. ends' = Append(ends, end) /\ ends \in Seq(1..length)
  BY DEF Yield, TypeOK
<1>4. n \in 0..Len(ends') /\ SubSeq(ends', 1, n) = SubSeq(ends, 1, n)
  BY <1>3
<1>5. StartOf(MemoryEnds, n + 1)' = StartOf(MemoryEnds, n + 1)
  BY <1>1 DEF StartOf
<1>6. QED
  BY <1>1, <1>2, <1>4, <1>5 DEF Parted

(* The cut that parts them. *)
LEMMA PartingCut ==
  ASSUME Source, TypeOK, Partition, Same, UNCHANGED <<length, newlines, target>>,
         start + target = length, (length - 1) \notin newlines,
         NEW end \in 1..length, Yield(end)
  PROVE  Parted'
<1> USE DEF Source
<1>1. MemoryEnds' = MemoryEnds
  BY SourceKept
<1>2. start \in 0..(length - 1) /\ ends \in Seq(1..length) /\ length \in 1..length
  BY DEF TypeOK
<1>3. MemoryEnd(start) = length
  BY DEF MemoryEnd, Smaller
<1>4. EndsFrom[start] = <<length>>
  <2>1. EndsFrom[length] = <<>>
    BY EndsFromUnfolds
  <2>2. EndsFrom[start] = <<length>> \o EndsFrom[length]
    BY <1>2, <1>3, EndsFromUnfolds
  <2>3. QED
    BY <2>1, <2>2, <1>2
<1>5. MemoryEnds = ends \o <<length>>
  BY <1>4 DEF Same
<1> PICK n \in Nat : n = Len(ends)
  BY <1>2
<1>6. /\ n \in Nat /\ Len(MemoryEnds) = n + 1
      /\ \A i \in 1..n : MemoryEnds[i] = ends[i]
      /\ SubSeq(MemoryEnds, 1, n) = SubSeq(ends, 1, n)
  BY <1>2, <1>5
<1>7. StartOf(MemoryEnds, n + 1) = start
  <2>1. CASE n = 0
    BY <2>1, <1>6 DEF Partition, StartOf
  <2>2. CASE n # 0
    BY <2>2, <1>6 DEF Partition, StartOf
  <2>3. QED
    BY <2>1, <2>2
<1>8. ends' = Append(ends, end)
  BY DEF Yield
<1>9. n \in 0..Len(ends') /\ SubSeq(ends', 1, n) = SubSeq(ends, 1, n)
  BY <1>2, <1>8
<1>10. StartOf(MemoryEnds', n + 1) = start /\ length - start = target
  BY <1>1, <1>2, <1>7
<1>11. QED
  BY <1>1, <1>6, <1>9, <1>10 DEF Parted

LEMMA NextCInv ==
  ASSUME SegmenterAssumption, IInv, CInv, [Next]_vars
  PROVE  CInv'
<1> USE DEF CInv
<1>1. /\ Source /\ TypeOK /\ Reading /\ Partition
      /\ start \in 0..length /\ taken \in start..length
  BY DEF SegmenterAssumption, IInv, TypeOK, Source
<1>2. \A n \in newlines : n \in Nat /\ n < length
  BY <1>1 DEF Source
<1>3. ASSUME UNCHANGED <<length, newlines, target, start, ends>>
      PROVE  (Same \/ Parted)'
  <2>1. MemoryEnds' = MemoryEnds /\ EndsFrom' = EndsFrom
    BY <1>3, SourceKept
  <2>2. CASE Same
    BY <1>3, <2>1, <2>2 DEF Same
  <2>3. CASE Parted
    BY <1>3, <2>1, <2>3 DEF Parted, StartOf
  <2>4. QED
    BY <2>2, <2>3 DEF CInv
<1>4. CASE Fill
  <2>1. (Same \/ Parted)'
    BY <1>3, <1>4 DEF Fill
  <2>2. /\ pc' = "fill" /\ start' = start /\ target' = target /\ taken - start < target
        /\ taken' = Smaller(length, start + target)
    BY <1>4 DEF Fill
  <2>3. eof' => taken' = taken
    BY <1>4, Zenon DEF Fill
  <2>4. QED
    BY <2>1, <2>2, <2>3 DEF Buffered
<1>5. CASE YieldRest
  <2>1. taken = length /\ length <= start + target /\ pc' = "done"
    BY <1>1, <1>5 DEF YieldRest, Filled, Reading, Buffered, Source
  <2>2. CASE taken = start
    BY <1>3, <1>5, <2>1, <2>2 DEF YieldRest, Buffered
  <2>3. CASE taken # start
    <3>1. /\ Yield(taken) /\ UNCHANGED <<length, newlines, target>>
          /\ start < length /\ length \in 1..length
      BY <1>1, <1>5, <2>1, <2>3 DEF YieldRest, Source
    <3>2. MemoryEnd(start) = length
      BY <1>1, <2>1, <3>1 DEF MemoryEnd, Smaller, Source
    <3>3. Same => Same'
      BY <1>1, <2>1, <3>1, <3>2, SameCut
    <3>4. Parted => Parted'
      BY <1>1, <2>1, <3>1, PartedCut
    <3>5. QED
      BY <2>1, <3>3, <3>4 DEF Buffered
  <2>4. QED
    BY <2>2, <2>3
<1>6. CASE CutAtLastNewline
  <2> DEFINE S == Newlines(start, start + target)
             end == Last(S) + 1
  <2>1. /\ S # {} /\ Yield(end) /\ UNCHANGED <<length, newlines, target>>
        /\ pc' = "fill" /\ ~eof' /\ start + target <= taken
    BY <1>1, <1>6 DEF CutAtLastNewline, Filled, Source
  <2>2. S \in SUBSET (0..length)
    <3>1. S \subseteq newlines
      BY DEF Newlines
    <3> HIDE DEF S
    <3>2. QED
      BY <1>1, <1>2, <3>1 DEF Source
  <2>3. Last(S) \in S /\ \A other \in S : other <= Last(S)
    <3> HIDE DEF S
    <3>1. QED
      BY <1>1, <2>1, <2>2, Greatest DEF Source
  <2>4. Last(S) \in Nat /\ Last(S) < length /\ start <= Last(S) /\ Last(S) < start + target
    BY <1>2, <2>3 DEF Newlines
  <2>5. end \in 1..length /\ start < length
    <3> HIDE DEF S
    <3>1. QED
      BY <1>1, <2>4 DEF Source
  <2>6. Parted => Parted'
    BY <1>1, <2>1, <2>5, PartedCut
  <2>7. CASE start + target # length
    <3>1. Smaller(length, start + target) = start + target
      BY <1>1, <2>1, <2>7 DEF Smaller, Source
    <3>2. MemoryEnd(start) = end
      BY <2>1, <2>7, <3>1 DEF MemoryEnd
    <3>3. Same => Same'
      BY <1>1, <2>1, <2>5, <3>2, SameCut
    <3>4. QED
      BY <2>1, <2>6, <3>3 DEF Buffered
  <2>8. CASE start + target = length /\ (length - 1) \in newlines
    <3>1. MemoryEnd(start) = length
      BY <1>1, <2>8 DEF MemoryEnd, Smaller, Source
    <3>2. length - 1 \in S
      BY <1>1, <2>5, <2>8 DEF Newlines, Source
    <3>3. length - 1 <= Last(S)
      BY <2>3, <3>2
    <3>4. end = length
      <4> HIDE DEF S
      <4>1. QED
        BY <1>1, <2>4, <3>3 DEF Source
    <3>5. Same => Same'
      BY <1>1, <2>1, <2>5, <3>1, <3>4, SameCut
    <3>6. QED
      BY <2>1, <2>6, <3>5 DEF Buffered
  <2>9. CASE start + target = length /\ (length - 1) \notin newlines
    <3>1. Same => Parted'
      BY <1>1, <2>1, <2>5, <2>9, PartingCut
    <3>2. QED
      BY <2>1, <2>6, <3>1 DEF Buffered
  <2>10. QED
    BY <2>7, <2>8, <2>9
<1>7. CASE LineTooLong
  BY <1>3, <1>7 DEF LineTooLong, Buffered, Newlines
<1>8. CASE CutAfterLongLine
  <2> DEFINE goal == start + target
             S == Newlines(goal, taken)
             All == Newlines(goal, length)
             end == First(S) + 1
  <2>1. /\ S # {} /\ Yield(end) /\ UNCHANGED <<length, newlines, target>>
        /\ pc' = "fill" /\ ~eof' /\ goal <= taken /\ Newlines(start, goal) = {}
    BY <1>1, <1>8 DEF CutAfterLongLine, Reading, Buffered
  <2>2. S \subseteq All /\ All \in SUBSET Nat /\ S \in SUBSET Nat
    <3>1. All \subseteq newlines /\ S \subseteq newlines
      BY DEF Newlines
    <3>2. S \subseteq All
      BY <1>1, <1>2, <3>1 DEF Newlines, Source
    <3> HIDE DEF All, S
    <3>3. QED
      BY <1>2, <3>1, <3>2
  <2>3. /\ First(S) \in S /\ \A other \in S : First(S) <= other
        /\ First(All) \in All /\ \A other \in All : First(All) <= other
    <3> HIDE DEF All, S
    <3>1. All # {}
      BY <2>1, <2>2
    <3>2. QED
      BY <2>1, <2>2, <3>1, FirstIsLeast
  <2>4. /\ First(S) \in Nat /\ goal <= First(S) /\ First(S) < taken
        /\ First(All) \in Nat /\ First(All) <= First(S)
    BY <1>2, <2>2, <2>3 DEF Newlines
  <2>5. First(All) \in S
    <3>1. First(All) \in newlines /\ goal <= First(All)
      BY <2>3 DEF Newlines
    <3> HIDE DEF All
    <3>2. QED
      BY <1>1, <2>4, <3>1 DEF Newlines, Source
  <2>6. First(All) = First(S)
    <3>1. First(S) <= First(All)
      BY <2>3, <2>5
    <3> HIDE DEF S, All
    <3>2. QED
      BY <2>4, <3>1
  <2>7. end \in 1..length /\ start < length /\ goal # length /\ goal < length
    <3> HIDE DEF S, All
    <3>1. QED
      BY <1>1, <2>4 DEF Source
  <2>8. MemoryEnd(start) = end
    <3>1. Smaller(length, goal) = goal
      BY <1>1, <2>7 DEF Smaller, Source
    <3>2. All # {}
      BY <2>3
    <3>3. MemoryEnd(start) = First(All) + 1
      BY <2>1, <2>7, <3>1, <3>2 DEF MemoryEnd
    <3>4. QED
      BY <2>6, <3>3
  <2>9. Same => Same'
    BY <1>1, <2>1, <2>7, <2>8, SameCut
  <2>10. Parted => Parted'
    BY <1>1, <2>1, <2>7, PartedCut
  <2>11. QED
    BY <2>1, <2>9, <2>10 DEF Buffered
<1>9. CASE ReadOn
  BY <1>3, <1>9 DEF ReadOn, Buffered, Newlines
<1>10. CASE YieldUnfinishedLine
  <2>0. pc = "search" /\ taken = length
    BY <1>10 DEF YieldUnfinishedLine
  <2>1. /\ Yield(taken) /\ UNCHANGED <<length, newlines, target>> /\ taken = length
        /\ pc' = "done" /\ start + target <= length
        /\ Newlines(start, start + target) = {} /\ Newlines(start + target, length) = {}
    BY <1>1, <1>10, <2>0 DEF YieldUnfinishedLine, Reading, Buffered
  <2>2. start < length /\ length \in 1..length
    BY <1>1, <2>1 DEF Source
  <2>3. MemoryEnd(start) = length
    <3>1. Smaller(length, start + target) = start + target
      BY <1>1, <2>1 DEF Smaller, Source
    <3>2. QED
      BY <2>1, <3>1 DEF MemoryEnd
  <2>4. Same => Same'
    BY <1>1, <2>1, <2>2, <2>3, SameCut
  <2>5. Parted => Parted'
    BY <1>1, <2>1, <2>2, PartedCut
  <2>6. QED
    BY <2>1, <2>4, <2>5 DEF Buffered
<1>11. CASE UNCHANGED vars
  BY <1>3, <1>11 DEF vars, Buffered, Newlines
<1>12. QED
  BY <1>4, <1>5, <1>6, <1>7, <1>8, <1>9, <1>10, <1>11 DEF Next, Steps, Ended

(* The generator makes the cuts _segments makes, for every source, target  *)
(* and read size, except in a last piece of exactly one target without a   *)
(* final newline.                                                          *)
THEOREM SameCuts == ASSUME SegmenterAssumption PROVE Spec => []SameUnlessExactFit
<1>1. Init => CInv
  <2> SUFFICES ASSUME Init PROVE CInv
    OBVIOUS
  <2>1. IInv
    BY InitIInv
  <2>2. Source /\ ends = <<>> /\ start = 0
    BY <2>1 DEF SegmenterAssumption, Init, IInv, TypeOK, Source
  <2>3. EndsFrom[0] \in Seq(1..length)
    BY <2>2, EndsFromType DEF Source
  <2>4. Same
    BY <2>2, <2>3, ConcatEmptySeq DEF Same, MemoryEnds
  <2>5. QED
    BY <2>4 DEF CInv, Buffered, Init
<1>2. IInv /\ CInv /\ [Next]_vars => CInv'
  BY NextCInv
<1>3. IInv /\ CInv => SameUnlessExactFit
  <2> SUFFICES ASSUME IInv, CInv, pc = "done", ends # MemoryEnds
               PROVE  LET n == Len(MemoryEnds)
                      IN  /\ SubSeq(ends, 1, n - 1) = SubSeq(MemoryEnds, 1, n - 1)
                          /\ length - StartOf(MemoryEnds, n) = target
                          /\ (length - 1) \notin newlines
    BY DEF SameUnlessExactFit
  <2>1. Source /\ start = length /\ ends \in Seq(1..length)
    BY DEF SegmenterAssumption, IInv, TypeOK, Partition, Source
  <2>2. ends \o EndsFrom[start] = ends
    BY <2>1, EndsFromUnfolds, ConcatEmptySeq DEF Source
  <2>3. PICK n \in 0..Len(ends) :
          /\ Len(MemoryEnds) = n + 1
          /\ SubSeq(ends, 1, n) = SubSeq(MemoryEnds, 1, n)
          /\ length - StartOf(MemoryEnds, n + 1) = target
          /\ (length - 1) \notin newlines
    BY <2>2 DEF CInv, Same, Parted
  <2>4. Len(MemoryEnds) - 1 = n
    BY <2>3
  <2>5. QED
    BY <2>3, <2>4
<1>4. QED
  BY Invariant, <1>1, <1>2, <1>3, PTL DEF Spec
------------------------------------------------------------------------------
(* The frames are parsed by loops, recursive functions in the model, each  *)
(* turn of which goes on from where the turn before has got to.            *)
IsWalk(f, first, step, k) ==
  f = [i \in 0..k |-> IF i = 0 THEN first ELSE step[i][f[i - 1]]]

LEMMA WalkTurns ==
  ASSUME NEW first, NEW step, NEW k \in Nat, NEW f, IsWalk(f, first, step, k)
  PROVE  /\ DOMAIN f = 0..k
         /\ f[0] = first
         /\ \A n \in 1..k : f[n] = step[n][f[n - 1]]
<1>1. DOMAIN f = 0..k
  BY Zenon DEF IsWalk
<1>2. ASSUME NEW i \in 0..k
      PROVE  f[i] = IF i = 0 THEN first ELSE step[i][f[i - 1]]
  BY Zenon DEF IsWalk
<1>3. f[0] = first
  BY <1>2
<1>4. ASSUME NEW n \in 1..k PROVE f[n] = step[n][f[n - 1]]
  BY <1>2
<1>5. QED
  BY <1>1, <1>3, <1>4

LEMMA WalkExists ==
  ASSUME NEW first, NEW step PROVE \A k \in Nat : \E f : IsWalk(f, first, step, k)
<1> DEFINE Bad == {k \in Nat : ~ \E f : IsWalk(f, first, step, k)}
<1>1. SUFFICES ASSUME Bad # {} PROVE FALSE
  OBVIOUS
<1>2. PICK k \in Bad : \A other \in Bad : k <= other
  <2>1. Bad \in SUBSET Nat
    OBVIOUS
  <2> HIDE DEF Bad
  <2>2. QED
    BY <2>1, <1>1, Least
<1>3. k \in Nat /\ ~ \E f : IsWalk(f, first, step, k)
  OBVIOUS
<1>4. CASE k = 0
  <2> DEFINE f == [i \in 0..0 |-> first]
  <2>1. \A i \in 0..0 : i = 0
    OBVIOUS
  <2>2. IsWalk(f, first, step, 0)
    BY <2>1 DEF IsWalk
  <2>3. QED
    BY <1>3, <1>4, <2>2
<1>5. CASE k # 0
  <2>1. k - 1 \in Nat /\ k - 1 \notin Bad
    BY <1>2, <1>3, <1>5
  <2>2. PICK g : IsWalk(g, first, step, k - 1)
    BY <2>1
  <2>3. /\ g[0] = first
        /\ \A i \in 1..(k - 1) : g[i] = step[i][g[i - 1]]
    <3>1. PICK j \in Nat : j = k - 1
      BY <2>1
    <3>2. IsWalk(g, first, step, j)
      BY <2>2, <3>1
    <3>3. QED
      BY <3>1, <3>2, WalkTurns
  <2> DEFINE f == [i \in 0..k |-> IF i = k THEN step[k][g[k - 1]] ELSE g[i]]
  <2>4. /\ \A i \in 0..(k - 1) : f[i] = g[i]
        /\ f[k] = step[k][g[k - 1]]
        /\ f = [i \in 0..k |-> f[i]]
    BY <1>3
  <2> HIDE DEF f
  <2>5. ASSUME NEW i \in 0..k PROVE f[i] = IF i = 0 THEN first ELSE step[i][f[i - 1]]
    <3>1. CASE i = k
      <4>1. k - 1 \in 0..(k - 1) /\ k # 0
        BY <2>1, <1>5
      <4>2. f[k] = step[k][f[k - 1]]
        BY <4>1, <2>4
      <4>3. QED
        BY <3>1, <4>1, <4>2
    <3>2. CASE i = 0 /\ i # k
      <4>1. 0 \in 0..(k - 1)
        BY <2>1
      <4>2. QED
        BY <3>2, <4>1, <2>3, <2>4
    <3>3. CASE i # 0 /\ i # k
      <4>1. i \in 1..(k - 1) /\ i \in 0..(k - 1) /\ i - 1 \in 0..(k - 1)
        BY <3>3, <1>3
      <4>2. f[i] = step[i][f[i - 1]]
        BY <4>1, <2>3, <2>4
      <4>3. QED
        BY <3>3, <4>2
    <3>4. QED
      BY <3>1, <3>2, <3>3
  <2>6. IsWalk(f, first, step, k)
    BY <2>4, <2>5, Zenon DEF IsWalk
  <2>7. QED
    BY <2>6, <1>3
<1>6. QED
  BY <1>4, <1>5

(* A fact that the start has and every turn keeps holds of each turn. *)
LEMMA WalkKeeps ==
  ASSUME NEW k \in Nat, NEW Good, 0 \in Good, Good \in SUBSET Nat,
         \A n \in 0..k : n \in Good /\ n + 1 <= k => n + 1 \in Good
  PROVE  \A n \in 0..k : n \in Good
<1> DEFINE Bad == {n \in 0..k : n \notin Good}
<1>1. SUFFICES ASSUME Bad # {} PROVE FALSE
  OBVIOUS
<1>2. PICK n \in Bad : \A other \in Bad : n <= other
  <2>1. Bad \in SUBSET Nat
    OBVIOUS
  <2> HIDE DEF Bad
  <2>2. QED
    BY <2>1, <1>1, Least
<1>3. n \in 0..k /\ n \notin Good /\ n # 0
  OBVIOUS
<1>4. n - 1 \in 0..k /\ n - 1 \in Good /\ (n - 1) + 1 = n
  BY <1>2, <1>3
<1>5. QED
  BY <1>3, <1>4

(* A walk whose turns stay in a set. *)
StaysIn(walk, k, S, first, step) ==
  /\ walk = [n \in 0..k |-> walk[n]]
  /\ walk[0] = first
  /\ \A n \in 1..k : walk[n] = step[n][walk[n - 1]]
  /\ \A n \in 0..k : walk[n] \in S

LEMMA WalkWithin ==
  ASSUME NEW k \in Nat, NEW S, NEW first, NEW step,
         first \in S, step \in [1..k -> [S -> S]]
  PROVE  \E walk : StaysIn(walk, k, S, first, step)
<1>1. PICK walk : IsWalk(walk, first, step, k)
  BY WalkExists
<1>2. /\ DOMAIN walk = 0..k
      /\ walk[0] = first
      /\ \A n \in 1..k : walk[n] = step[n][walk[n - 1]]
  BY <1>1, WalkTurns
<1>3. \A n \in 0..k : walk[n] \in S
  <2> DEFINE Good == {n \in Nat : walk[n] \in S}
  <2>1. 0 \in Good /\ Good \in SUBSET Nat
    BY <1>2
  <2>2. ASSUME NEW n \in 0..k, n \in Good, n + 1 <= k PROVE n + 1 \in Good
    <3>1. n + 1 \in 1..k /\ (n + 1) - 1 = n /\ n + 1 \in Nat /\ walk[n] \in S
      BY <2>2
    <3>2. walk[n + 1] = step[n + 1][walk[n]]
      BY <1>2, <3>1
    <3>3. step[n + 1] \in [S -> S]
      BY <3>1
    <3>4. walk[n + 1] \in S
      BY <3>1, <3>2, <3>3
    <3>5. QED
      BY <3>1, <3>4
  <2>3. \A n \in 0..k : n \in Good
    <3> HIDE DEF Good
    <3>1. \A n \in 0..k : n \in Good /\ n + 1 <= k => n + 1 \in Good
      BY <2>2
    <3>2. QED
      BY <2>1, <3>1, WalkKeeps
  <2>4. QED
    BY <2>3
<1>4. walk = [n \in 0..k |-> walk[n]]
  BY <1>1, <1>2, Zenon DEF IsWalk
<1>5. QED
  BY <1>2, <1>3, <1>4, Zenon DEF StaysIn
--------------------------------------------------------------------------------
(* Frames as they are written, carried and damaged: what is read as a      *)
(* header has sizes, what a payload unit belongs to has bytes, of which    *)
(* none is 0.                                                              *)
Bytes == Seq(Nat \ {0})
Coders == {"none", "gzip", "zstd", "lz4", "broken"}
Kinds == {"data", "delta", "text", "channel"}
Payloads == [coder : Coders, kind : Kinds, bytes : Bytes, size : Nat]
Headers == [head : {TRUE}, recipe : RecipesOfV3 \cup {"other"},
            size : Nat, psize : Nat, crc : Seq(Nat)]
Backends ==
  {"segmented", "store", "gzip", "delta gzip", "zstd", "delta zstd", "lz4", "other"}
PayloadUnits == [head : {FALSE}, payload : Payloads, at : Nat]
FrameShapes ==
  [magic : BOOLEAN, version : Nat, backend : Backends, original : Nat,
   hash : Seq(Nat), whole : {"nothing", "header", "count"}, count : Nat,
   body : Seq(Headers \cup PayloadUnits)]

LEMMA BrokenType == Broken \in Payloads /\ Broken.bytes = <<>>
<1>1. <<>> \in Bytes
  BY DEF Bytes
<1>2. Broken = [coder |-> "broken", kind |-> "data", bytes |-> <<>>, size |-> 0]
  BY Zenon DEF Broken, Payload
<1>3. PICK none : none = <<>>
  OBVIOUS
<1>4. Broken = [coder |-> "broken", kind |-> "data", bytes |-> none, size |-> 0]
  BY <1>2, <1>3
<1>5. Broken \in Payloads
  BY <1>1, <1>3, <1>4 DEF Payloads, Coders, Kinds
<1>6. Broken.bytes = <<>>
  BY <1>3, <1>4
<1>7. QED
  BY <1>5, <1>6

LEMMA HeaderTypes ==
  ASSUME CallsAssumption, NEW f \in FrameShapes, NEW offset \in 1..Len(f.body)
  PROVE  HeaderAt(f, offset).size \in Nat /\ HeaderAt(f, offset).psize \in Nat
<1>1. PICK unit : unit = f.body[offset]
  OBVIOUS
<1>2. unit \in Headers \cup PayloadUnits
  BY <1>1 DEF FrameShapes
<1>3. CASE unit.head
  <2>1. unit \in Headers
    BY <1>2, <1>3 DEF PayloadUnits
  <2>2. QED
    BY <1>1, <1>3, <2>1 DEF HeaderAt, Headers
<1>4. CASE ~unit.head
  BY <1>1, <1>4 DEF HeaderAt, CallsAssumption
<1>5. QED
  BY <1>3, <1>4

LEMMA SliceTypes ==
  ASSUME NEW f \in FrameShapes, NEW offset \in Nat \ {0}, NEW size \in Nat,
         offset + size <= Len(f.body) + 1
  PROVE  Slice(f, offset, size) \in Payloads
<1> DEFINE units == SubSeq(f.body, offset, offset + size - 1)
<1>0. f.body \in Seq(Headers \cup PayloadUnits)
  BY DEF FrameShapes
<1>1. CASE units # <<>> /\ ~units[1].head /\ units = Units(units[1].payload)
  <2>1. size # 0
    <3>1. ASSUME size = 0 PROVE FALSE
      <4>1. units = <<>>
        BY <3>1, <1>0
      <4>2. QED
        BY <4>1, <1>1
    <3>2. QED
      BY <3>1
  <2>2. offset \in 1..Len(f.body) /\ offset <= offset + size - 1
    BY <2>1, <1>0
  <2>3. units[1] = f.body[offset]
    BY <2>2, <1>0
  <2>4. f.body[offset] \in Headers \cup PayloadUnits
    BY <2>2, <1>0
  <2>5. units[1] \in PayloadUnits
    <3>1. units[1] \in Headers \cup PayloadUnits /\ ~units[1].head
      BY <2>3, <2>4, <1>1
    <3> HIDE DEF units
    <3>2. QED
      BY <3>1 DEF Headers
  <2>6. units[1].payload \in Payloads
    <3> HIDE DEF units
    <3>1. QED
      BY <2>5 DEF PayloadUnits
  <2>7. QED
    BY <1>1, <2>6, Zenon DEF Slice
<1>2. CASE ~(units # <<>> /\ ~units[1].head /\ units = Units(units[1].payload))
  <2>1. Slice(f, offset, size) = Broken
    BY <1>2, Zenon DEF Slice
  <2>2. QED
    BY <2>1, BrokenType
<1>3. QED
  BY <1>1, <1>2
--------------------------------------------------------------------------------
(* The loop of adaptive_v3.decompress. *)
DecodeStart == [ok |-> TRUE, offset |-> 1, data |-> <<>>]
Decoding == [ok : {TRUE}, offset : Nat \ {0}, data : Bytes]
DecodeStates == {Invalid, Unavailable} \cup Decoding

(* What a turn that goes on has found. *)
GoesOn(f, engines, w, h, payload) ==
  /\ w.offset <= Len(f.body)
  /\ h = HeaderAt(f, w.offset) /\ payload = Slice(f, w.offset + 1, h.psize)
  /\ h.recipe \in RecipesOfV3 /\ h.size \in Nat \ {0} /\ h.psize \in Nat
  /\ h.size <= f.original - Len(w.data)
  /\ h.psize <= Len(f.body) - w.offset
  /\ payload \in Payloads /\ Len(payload.bytes) = h.size
  /\ DecodeSegment(f, engines, w) =
       [ok |-> TRUE, offset |-> w.offset + 1 + h.psize,
        data |-> w.data \o payload.bytes]

LEMMA DecodeGoesOn ==
  ASSUME CallsAssumption, NEW f \in FrameShapes, NEW engines, NEW w \in Decoding,
         DecodeSegment(f, engines, w).ok
  PROVE  \E h, payload : GoesOn(f, engines, w, h, payload)
<1>0. /\ w.ok /\ w.offset \in Nat \ {0} /\ w.data \in Bytes
      /\ f.body \in Seq(Headers \cup PayloadUnits) /\ f.original \in Nat
  BY DEF Decoding, FrameShapes
<1>1. ~Invalid.ok /\ ~Unavailable.ok
  BY DEF Invalid, Unavailable
<1>2. w.offset <= Len(f.body)
  <2>1. ASSUME w.offset > Len(f.body) PROVE FALSE
    <3>1. DecodeSegment(f, engines, w) = Invalid
      BY <1>0, <2>1 DEF DecodeSegment
    <3>2. QED
      BY <3>1, <1>1
  <2>2. QED
    BY <2>1, <1>0
<1>3. PICK h : h = HeaderAt(f, w.offset)
  OBVIOUS
<1>4. PICK payload : payload = Slice(f, w.offset + 1, h.psize)
  OBVIOUS
<1>5. h.size \in Nat /\ h.psize \in Nat
  BY <1>0, <1>2, <1>3, HeaderTypes
<1>6. DecodeSegment(f, engines, w) =
        IF \/ h.size = 0 \/ h.size > f.original - Len(w.data)
           \/ h.psize > Len(f.body) - w.offset
           \/ h.recipe \notin RecipesOfV3
        THEN Invalid
        ELSE IF ~(Needs(h.recipe) \subseteq engines) THEN Unavailable
        ELSE IF ~Restores(h.recipe, payload, h.size) \/ payload.bytes # h.crc
        THEN Invalid
        ELSE [ok |-> TRUE, offset |-> w.offset + 1 + h.psize,
              data |-> w.data \o payload.bytes]
  <2>1. ~(w.offset > Len(f.body)) /\ ~ ~w.ok
    BY <1>0, <1>2
  <2>2. QED
    BY <2>1, <1>3, <1>4, Zenon DEF DecodeSegment
<1>7. /\ h.size # 0 /\ ~(h.size > f.original - Len(w.data))
      /\ ~(h.psize > Len(f.body) - w.offset)
      /\ h.recipe \in RecipesOfV3
  BY <1>1, <1>6, Zenon
<1>8. Needs(h.recipe) \subseteq engines
  BY <1>1, <1>6, <1>7, Zenon
<1>9. Restores(h.recipe, payload, h.size) /\ payload.bytes = h.crc
  BY <1>1, <1>6, <1>7, <1>8, Zenon
<1>10. DecodeSegment(f, engines, w) =
        [ok |-> TRUE, offset |-> w.offset + 1 + h.psize,
         data |-> w.data \o payload.bytes]
  BY <1>6, <1>7, <1>8, <1>9, Zenon
<1>11. payload \in Payloads
  <2>1. /\ w.offset + 1 \in Nat \ {0}
        /\ w.offset + 1 + h.psize <= Len(f.body) + 1
    BY <1>0, <1>5, <1>7
  <2>2. QED
    BY <2>1, <1>4, <1>5, SliceTypes
<1>12. Len(payload.bytes) = h.size
  BY <1>9, Zenon DEF Restores
<1>13. h.size <= f.original - Len(w.data) /\ h.psize <= Len(f.body) - w.offset
  BY <1>0, <1>5, <1>7
<1>14. h.size \in Nat \ {0}
  BY <1>5, <1>7
<1>15. GoesOn(f, engines, w, h, payload)
  BY <1>2, <1>3, <1>4, <1>5, <1>7, <1>10, <1>11, <1>12, <1>13, <1>14, Zenon DEF GoesOn
<1>16. QED
  BY <1>15


(* Turns stay among these states. *)
LEMMA DecodeTurns ==
  ASSUME CallsAssumption, NEW f \in FrameShapes, NEW engines, NEW w \in DecodeStates
  PROVE  DecodeSegment(f, engines, w) \in DecodeStates
<1>1. CASE w \in {Invalid, Unavailable}
  <2>1. ~w.ok
    BY <1>1 DEF Invalid, Unavailable
  <2>2. DecodeSegment(f, engines, w) = w
    BY <2>1, Zenon DEF DecodeSegment
  <2>3. QED
    BY <2>2
<1>2. CASE w \in Decoding
  <2>1. CASE DecodeSegment(f, engines, w).ok
    <3>0. PICK h, payload : GoesOn(f, engines, w, h, payload)
      BY <1>2, <2>1, DecodeGoesOn, Zenon
    <3>1. /\ w.offset <= Len(f.body)
          /\ h = HeaderAt(f, w.offset) /\ payload = Slice(f, w.offset + 1, h.psize)
          /\ h.recipe \in RecipesOfV3 /\ h.size \in Nat \ {0} /\ h.psize \in Nat
          /\ h.size <= f.original - Len(w.data)
          /\ h.psize <= Len(f.body) - w.offset
          /\ payload \in Payloads /\ Len(payload.bytes) = h.size
          /\ DecodeSegment(f, engines, w) =
               [ok |-> TRUE, offset |-> w.offset + 1 + h.psize,
                data |-> w.data \o payload.bytes]
      BY <3>0, Zenon DEF GoesOn
    <3>2. w.offset \in Nat \ {0} /\ w.data \in Bytes /\ payload.bytes \in Bytes
      BY <1>2, <3>1 DEF Decoding, Payloads
    <3>3. w.data \o payload.bytes \in Bytes
      BY <3>2 DEF Bytes
    <3>4. w.offset + 1 + h.psize \in Nat \ {0}
      BY <3>1, <3>2
    <3>5. PICK offset, data : /\ offset = w.offset + 1 + h.psize
                              /\ data = w.data \o payload.bytes
      OBVIOUS
    <3>6. /\ DecodeSegment(f, engines, w) = [ok |-> TRUE, offset |-> offset, data |-> data]
          /\ offset \in Nat \ {0} /\ data \in Bytes
      BY <3>1, <3>3, <3>4, <3>5
    <3>7. [ok |-> TRUE, offset |-> offset, data |-> data] \in Decoding
      BY <3>6 DEF Decoding
    <3>8. QED
      BY <3>6, <3>7 DEF DecodeStates
  <2>2. CASE ~DecodeSegment(f, engines, w).ok
    <3>1. PICK h : h = HeaderAt(f, w.offset)
      OBVIOUS
    <3>2. PICK payload : payload = Slice(f, w.offset + 1, h.psize)
      OBVIOUS
    <3>3. PICK turn : turn = [ok |-> TRUE, offset |-> w.offset + 1 + h.psize,
                              data |-> w.data \o payload.bytes]
      OBVIOUS
    <3>4. turn.ok /\ w.ok
      BY <1>2, <3>3 DEF Decoding
    <3>5. DecodeSegment(f, engines, w) \in {Invalid, Unavailable, turn}
      BY <3>1, <3>2, <3>3, <3>4, Zenon DEF DecodeSegment
    <3>6. QED
      BY <2>2, <3>4, <3>5 DEF DecodeStates
  <2>3. QED
    BY <2>1, <2>2
<1>3. QED
  BY <1>1, <1>2 DEF DecodeStates

IsDecodeWalk(walk, f, engines) ==
  walk = [n \in 0..f.count |->
            IF n = 0 THEN DecodeStart ELSE DecodeSegment(f, engines, walk[n - 1])]

LEMMA DecodeStartType == DecodeStart \in Decoding /\ DecodeStart \in DecodeStates
<1>1. <<>> \in Bytes
  BY DEF Bytes
<1>2. PICK none : none = <<>>
  OBVIOUS
<1>3. DecodeStart = [ok |-> TRUE, offset |-> 1, data |-> none]
  BY <1>2, Zenon DEF DecodeStart
<1>4. DecodeStart \in Decoding
  BY <1>1, <1>2, <1>3 DEF Decoding
<1>5. QED
  BY <1>4 DEF DecodeStates

LEMMA DecodeWalkExists ==
  ASSUME CallsAssumption, NEW f \in FrameShapes, NEW engines
  PROVE  \E walk : IsDecodeWalk(walk, f, engines)
<1>1. PICK k \in Nat : k = f.count
  BY DEF FrameShapes
<1> DEFINE turn == [w \in DecodeStates |-> DecodeSegment(f, engines, w)]
<1>2. turn \in [DecodeStates -> DecodeStates]
  BY DecodeTurns
<1>3. DecodeStart \in DecodeStates
  BY DecodeStartType
<1>4. PICK step : step = [n \in 1..k |-> turn]
  OBVIOUS
<1>5. step \in [1..k -> [DecodeStates -> DecodeStates]]
  BY <1>2, <1>4, Zenon
<1>6. PICK walk :
        /\ walk = [n \in 0..k |-> walk[n]]
        /\ walk[0] = DecodeStart
        /\ \A n \in 1..k : walk[n] = step[n][walk[n - 1]]
        /\ \A n \in 0..k : walk[n] \in DecodeStates
  <2>1. \E walk : StaysIn(walk, k, DecodeStates, DecodeStart, step)
    BY <1>3, <1>5, WalkWithin, Zenon
  <2>2. QED
    BY <2>1, Zenon DEF StaysIn
<1>7. ASSUME NEW n \in 0..k
      PROVE  walk[n] = IF n = 0 THEN DecodeStart ELSE DecodeSegment(f, engines, walk[n - 1])
  <2>1. CASE n = 0
    BY <1>6, <2>1
  <2>2. CASE n # 0
    <3>1. n \in 1..k /\ n - 1 \in 0..k
      BY <2>2
    <3>2. walk[n] = step[n][walk[n - 1]] /\ walk[n - 1] \in DecodeStates
      BY <1>6, <3>1
    <3>3. step[n] = turn
      BY <1>4, <3>1, Zenon
    <3>4. turn[walk[n - 1]] = DecodeSegment(f, engines, walk[n - 1])
      BY <3>2
    <3>5. QED
      BY <2>2, <3>2, <3>3, <3>4
  <2>3. QED
    BY <2>1, <2>2
<1>8. IsDecodeWalk(walk, f, engines)
  BY <1>1, <1>6, <1>7, Zenon DEF IsDecodeWalk
<1>9. QED
  BY <1>8

LEMMA DecodeWalkTurns ==
  ASSUME NEW f \in FrameShapes, NEW engines, NEW walk, IsDecodeWalk(walk, f, engines)
  PROVE  /\ walk[0] = DecodeStart
         /\ \A n \in 1..f.count : walk[n] = DecodeSegment(f, engines, walk[n - 1])
<1>1. f.count \in Nat
  BY DEF FrameShapes
<1>2. ASSUME NEW n \in 0..f.count
      PROVE  walk[n] = IF n = 0 THEN DecodeStart ELSE DecodeSegment(f, engines, walk[n - 1])
  BY Zenon DEF IsDecodeWalk
<1>3. walk[0] = DecodeStart
  BY <1>1, <1>2
<1>4. ASSUME NEW n \in 1..f.count
      PROVE  walk[n] = DecodeSegment(f, engines, walk[n - 1])
  <2>1. n \in 0..f.count /\ n # 0
    BY <1>1
  <2>2. QED
    BY <1>2, <2>1
<1>5. QED
  BY <1>3, <1>4

LEMMA DecodeWalkTypes ==
  ASSUME CallsAssumption, NEW f \in FrameShapes, NEW engines,
         NEW walk, IsDecodeWalk(walk, f, engines)
  PROVE  \A n \in 0..f.count : walk[n] \in DecodeStates
<1>1. PICK k \in Nat : k = f.count
  BY DEF FrameShapes
<1>2. /\ walk[0] = DecodeStart
      /\ \A n \in 1..f.count : walk[n] = DecodeSegment(f, engines, walk[n - 1])
  BY DecodeWalkTurns
<1> DEFINE Good == {n \in Nat : walk[n] \in DecodeStates}
<1>3. 0 \in Good /\ Good \in SUBSET Nat
  BY <1>2, DecodeStartType
<1>4. ASSUME NEW n \in 0..k, n \in Good, n + 1 <= k PROVE n + 1 \in Good
  <2>1. n + 1 \in 1..f.count /\ (n + 1) - 1 = n /\ n + 1 \in Nat
    BY <1>1, <1>4
  <2>2. walk[n + 1] = DecodeSegment(f, engines, walk[(n + 1) - 1])
    BY <1>2, <2>1
  <2>3. DecodeSegment(f, engines, walk[n]) \in DecodeStates
    BY <1>4, DecodeTurns
  <2>4. QED
    BY <2>1, <2>2, <2>3
<1> HIDE DEF Good
<1>5. \A n \in 0..k : n \in Good
  BY <1>3, <1>4, WalkKeeps
<1>6. QED
  BY <1>1, <1>5 DEF Good

(* What the walk comes to. *)
LEMMA DecodeSegmentsIs ==
  ASSUME CallsAssumption, NEW f \in FrameShapes, NEW engines
  PROVE  \E walk :
           /\ IsDecodeWalk(walk, f, engines)
           /\ \A n \in 0..f.count : walk[n] \in DecodeStates
           /\ DecodeSegments(f, engines) =
                IF ~walk[f.count].ok THEN walk[f.count]
                ELSE IF \/ walk[f.count].offset # Len(f.body) + 1
                        \/ Len(walk[f.count].data) # f.original
                        \/ walk[f.count].data # f.hash
                THEN Invalid ELSE walk[f.count]
<1> DEFINE walk[n \in 0..f.count] ==
             IF n = 0 THEN [ok |-> TRUE, offset |-> 1, data |-> <<>>]
             ELSE DecodeSegment(f, engines, walk[n - 1])
<1>1. walk = [n \in 0..f.count |->
                IF n = 0 THEN [ok |-> TRUE, offset |-> 1, data |-> <<>>]
                ELSE DecodeSegment(f, engines, walk[n - 1])]
  <2>1. \E any : any = [n \in 0..f.count |->
                          IF n = 0 THEN [ok |-> TRUE, offset |-> 1, data |-> <<>>]
                          ELSE DecodeSegment(f, engines, any[n - 1])]
    <3>1. \E any : IsDecodeWalk(any, f, engines)
      BY DecodeWalkExists
    <3>2. QED
      BY <3>1, Zenon DEF IsDecodeWalk, DecodeStart
  <2>2. QED
    BY <2>1, Zenon
<1>2. DecodeSegments(f, engines) =
        IF ~walk[f.count].ok THEN walk[f.count]
        ELSE IF \/ walk[f.count].offset # Len(f.body) + 1
                \/ Len(walk[f.count].data) # f.original
                \/ walk[f.count].data # f.hash
        THEN Invalid ELSE walk[f.count]
  BY Zenon DEF DecodeSegments
<1> HIDE DEF walk
<1>3. IsDecodeWalk(walk, f, engines)
  BY <1>1, Zenon DEF IsDecodeWalk, DecodeStart
<1>4. \A n \in 0..f.count : walk[n] \in DecodeStates
  BY <1>3, DecodeWalkTypes
<1>5. QED
  BY <1>2, <1>3, <1>4, Zenon

--------------------------------------------------------------------------------
(* The loop of inspect_frame. *)
InspectStart == [ok |-> TRUE, offset |-> 1, total |-> 0, recipes |-> <<>>]
Inspecting ==
  [ok : {TRUE}, offset : Nat \ {0}, total : Nat, recipes : Seq(RecipesOfV3)]
InspectStates == {Rejected} \cup Inspecting

LEMMA InspectStartType == InspectStart \in Inspecting /\ InspectStart \in InspectStates
<1>1. <<>> \in Seq(RecipesOfV3)
  OBVIOUS
<1>2. PICK none : none = <<>>
  OBVIOUS
<1>3. InspectStart = [ok |-> TRUE, offset |-> 1, total |-> 0, recipes |-> none]
  BY <1>2, Zenon DEF InspectStart
<1>4. InspectStart \in Inspecting
  BY <1>1, <1>2, <1>3 DEF Inspecting
<1>5. QED
  BY <1>4 DEF InspectStates

(* A turn goes on where these tests say so. *)
LEMMA InspectGoesOn ==
  ASSUME CallsAssumption, NEW f \in FrameShapes, NEW w \in Inspecting, NEW h,
         w.offset <= Len(f.body), h = HeaderAt(f, w.offset),
         h.recipe \in RecipesOfV3, h.size # 0,
         h.size <= f.original - w.total, h.psize <= Len(f.body) - w.offset
  PROVE  /\ InspectSegment(f, w) =
              [ok |-> TRUE, offset |-> w.offset + 1 + h.psize,
               total |-> w.total + h.size, recipes |-> Append(w.recipes, h.recipe)]
         /\ InspectSegment(f, w) \in Inspecting
<1>0. /\ w.ok /\ w.offset \in Nat \ {0} /\ w.total \in Nat
      /\ w.recipes \in Seq(RecipesOfV3)
      /\ f.body \in Seq(Headers \cup PayloadUnits) /\ f.original \in Nat
  BY DEF Inspecting, FrameShapes
<1>1. h.size \in Nat /\ h.psize \in Nat
  BY <1>0, HeaderTypes
<1>2. /\ ~(~w.ok \/ w.offset > Len(f.body))
      /\ ~(h.size > f.original - w.total) /\ ~(h.psize > Len(f.body) - w.offset)
  BY <1>0, <1>1
<1>3. InspectSegment(f, w) =
        [ok |-> TRUE, offset |-> w.offset + 1 + h.psize,
         total |-> w.total + h.size, recipes |-> Append(w.recipes, h.recipe)]
  BY <1>2, Zenon DEF InspectSegment
<1>4. PICK offset \in Nat \ {0} : offset = w.offset + 1 + h.psize
  BY <1>0, <1>1
<1>5. PICK total \in Nat : total = w.total + h.size
  BY <1>0, <1>1
<1>6. PICK recipes \in Seq(RecipesOfV3) : recipes = Append(w.recipes, h.recipe)
  <2>1. PICK recipe \in RecipesOfV3 : recipe = h.recipe
    OBVIOUS
  <2>2. PICK before \in Seq(RecipesOfV3) : before = w.recipes
    BY <1>0
  <2>3. Append(before, recipe) \in Seq(RecipesOfV3)
    OBVIOUS
  <2>4. QED
    BY <2>1, <2>2, <2>3
<1>7. [ok |-> TRUE, offset |-> offset, total |-> total, recipes |-> recipes] \in Inspecting
  BY DEF Inspecting
<1>8. QED
  BY <1>3, <1>4, <1>5, <1>6, <1>7

LEMMA InspectTurns ==
  ASSUME CallsAssumption, NEW f \in FrameShapes, NEW w \in InspectStates
  PROVE  InspectSegment(f, w) \in InspectStates
<1>1. CASE ~w.ok \/ w.offset > Len(f.body)
  BY <1>1, Zenon DEF InspectSegment, InspectStates
<1>2. CASE ~(~w.ok \/ w.offset > Len(f.body))
  <2>1. w \in Inspecting
    BY <1>2 DEF InspectStates, Rejected
  <2>2. PICK h : h = HeaderAt(f, w.offset)
    OBVIOUS
  <2>3. /\ w.offset \in Nat \ {0} /\ w.total \in Nat /\ w.offset <= Len(f.body)
        /\ f.body \in Seq(Headers \cup PayloadUnits) /\ f.original \in Nat
    BY <1>2, <2>1 DEF Inspecting, FrameShapes
  <2>4. h.size \in Nat /\ h.psize \in Nat
    BY <2>2, <2>3, HeaderTypes
  <2>5. CASE \/ h.recipe \notin RecipesOfV3
             \/ h.size = 0 \/ h.size > f.original - w.total
             \/ h.psize > Len(f.body) - w.offset
    BY <1>2, <2>2, <2>5, Zenon DEF InspectSegment, InspectStates
  <2>6. CASE ~(\/ h.recipe \notin RecipesOfV3
               \/ h.size = 0 \/ h.size > f.original - w.total
               \/ h.psize > Len(f.body) - w.offset)
    <3>1. h.size <= f.original - w.total /\ h.psize <= Len(f.body) - w.offset
      BY <2>3, <2>4, <2>6
    <3>2. QED
      BY <2>1, <2>2, <2>3, <2>6, <3>1, InspectGoesOn DEF InspectStates
  <2>7. QED
    BY <2>5, <2>6
<1>3. QED
  BY <1>1, <1>2

IsInspectWalk(walk, f) ==
  walk = [n \in 0..f.count |->
            IF n = 0 THEN InspectStart ELSE InspectSegment(f, walk[n - 1])]

LEMMA InspectWalkExists ==
  ASSUME CallsAssumption, NEW f \in FrameShapes
  PROVE  \E walk : IsInspectWalk(walk, f)
<1>1. PICK k \in Nat : k = f.count
  BY DEF FrameShapes
<1> DEFINE turn == [w \in InspectStates |-> InspectSegment(f, w)]
<1>2. turn \in [InspectStates -> InspectStates]
  BY InspectTurns
<1>3. InspectStart \in InspectStates
  BY InspectStartType
<1>4. PICK step : step = [n \in 1..k |-> turn]
  OBVIOUS
<1>5. step \in [1..k -> [InspectStates -> InspectStates]]
  BY <1>2, <1>4, Zenon
<1>6. PICK walk :
        /\ walk = [n \in 0..k |-> walk[n]]
        /\ walk[0] = InspectStart
        /\ \A n \in 1..k : walk[n] = step[n][walk[n - 1]]
        /\ \A n \in 0..k : walk[n] \in InspectStates
  <2>1. \E walk : StaysIn(walk, k, InspectStates, InspectStart, step)
    BY <1>3, <1>5, WalkWithin, Zenon
  <2>2. QED
    BY <2>1, Zenon DEF StaysIn
<1>7. ASSUME NEW n \in 0..k
      PROVE  walk[n] = IF n = 0 THEN InspectStart ELSE InspectSegment(f, walk[n - 1])
  <2>1. CASE n = 0
    BY <1>6, <2>1
  <2>2. CASE n # 0
    <3>1. n \in 1..k /\ n - 1 \in 0..k
      BY <2>2
    <3>2. walk[n] = step[n][walk[n - 1]] /\ walk[n - 1] \in InspectStates
      BY <1>6, <3>1
    <3>3. step[n] = turn
      BY <1>4, <3>1, Zenon
    <3>4. turn[walk[n - 1]] = InspectSegment(f, walk[n - 1])
      BY <3>2
    <3>5. QED
      BY <2>2, <3>2, <3>3, <3>4
  <2>3. QED
    BY <2>1, <2>2
<1>8. IsInspectWalk(walk, f)
  BY <1>1, <1>6, <1>7, Zenon DEF IsInspectWalk
<1>9. QED
  BY <1>8

LEMMA InspectWalkTurns ==
  ASSUME NEW f \in FrameShapes, NEW walk, IsInspectWalk(walk, f)
  PROVE  /\ walk[0] = InspectStart
         /\ \A n \in 1..f.count : walk[n] = InspectSegment(f, walk[n - 1])
<1>1. f.count \in Nat
  BY DEF FrameShapes
<1>2. ASSUME NEW n \in 0..f.count
      PROVE  walk[n] = IF n = 0 THEN InspectStart ELSE InspectSegment(f, walk[n - 1])
  BY Zenon DEF IsInspectWalk
<1>3. walk[0] = InspectStart
  BY <1>1, <1>2
<1>4. ASSUME NEW n \in 1..f.count PROVE walk[n] = InspectSegment(f, walk[n - 1])
  <2>1. n \in 0..f.count /\ n # 0
    BY <1>1
  <2>2. QED
    BY <1>2, <2>1
<1>5. QED
  BY <1>3, <1>4

LEMMA InspectSegmentsIs ==
  ASSUME CallsAssumption, NEW f \in FrameShapes
  PROVE  \E walk :
           /\ IsInspectWalk(walk, f)
           /\ InspectSegments(f) =
                IF /\ walk[f.count].ok /\ walk[f.count].offset = Len(f.body) + 1
                   /\ walk[f.count].total = f.original
                THEN [ok |-> TRUE, version |-> 3, size |-> f.original,
                      recipes |-> walk[f.count].recipes]
                ELSE Rejected
<1> DEFINE walk[n \in 0..f.count] ==
             IF n = 0 THEN [ok |-> TRUE, offset |-> 1, total |-> 0, recipes |-> <<>>]
             ELSE InspectSegment(f, walk[n - 1])
<1>1. walk = [n \in 0..f.count |->
                IF n = 0 THEN [ok |-> TRUE, offset |-> 1, total |-> 0, recipes |-> <<>>]
                ELSE InspectSegment(f, walk[n - 1])]
  <2>1. \E any : any = [n \in 0..f.count |->
                IF n = 0 THEN [ok |-> TRUE, offset |-> 1, total |-> 0, recipes |-> <<>>]
                ELSE InspectSegment(f, any[n - 1])]
    <3>1. \E any : IsInspectWalk(any, f)
      BY InspectWalkExists
    <3>2. QED
      BY <3>1, Zenon DEF IsInspectWalk, InspectStart
  <2>2. QED
    BY <2>1, Zenon
<1>2. InspectSegments(f) =
        IF /\ walk[f.count].ok /\ walk[f.count].offset = Len(f.body) + 1
           /\ walk[f.count].total = f.original
        THEN [ok |-> TRUE, version |-> 3, size |-> f.original,
              recipes |-> walk[f.count].recipes]
        ELSE Rejected
  BY Zenon DEF InspectSegments
<1> HIDE DEF walk
<1>3. IsInspectWalk(walk, f)
  BY <1>1, Zenon DEF IsInspectWalk, InspectStart
<1>4. QED
  BY <1>2, <1>3, Zenon

--------------------------------------------------------------------------------
(* The two parsers side by side: where adaptive_v3.decompress has read n   *)
(* segments, inspect_frame has accepted them and is at the same place.     *)
LEMMA ParsersAgree ==
  ASSUME CallsAssumption, NEW f \in FrameShapes, NEW engines,
         NEW decoded, IsDecodeWalk(decoded, f, engines),
         NEW inspected, IsInspectWalk(inspected, f)
  PROVE  \A n \in 0..f.count :
           decoded[n].ok => /\ decoded[n] \in Decoding /\ inspected[n] \in Inspecting
                            /\ inspected[n].offset = decoded[n].offset
                            /\ inspected[n].total = Len(decoded[n].data)
<1>1. PICK k \in Nat : k = f.count
  BY DEF FrameShapes
<1>2. /\ decoded[0] = DecodeStart
      /\ \A n \in 1..k : decoded[n] = DecodeSegment(f, engines, decoded[n - 1])
  BY <1>1, DecodeWalkTurns
<1>3. /\ inspected[0] = InspectStart
      /\ \A n \in 1..k : inspected[n] = InspectSegment(f, inspected[n - 1])
  BY <1>1, InspectWalkTurns
<1>4. \A n \in 0..k : decoded[n] \in DecodeStates
  BY <1>1, DecodeWalkTypes
<1> DEFINE Agree(n) ==
      decoded[n].ok => /\ decoded[n] \in Decoding /\ inspected[n] \in Inspecting
                       /\ inspected[n].offset = decoded[n].offset
                       /\ inspected[n].total = Len(decoded[n].data)
           Good == {n \in Nat : Agree(n)}
<1>5. Agree(0)
  <2>1. DecodeStart.offset = 1 /\ InspectStart.offset = 1 /\ InspectStart.total = 0
    BY DEF DecodeStart, InspectStart
  <2>2. Len(DecodeStart.data) = 0
    BY DEF DecodeStart
  <2>3. QED
    BY <1>2, <1>3, <2>1, <2>2, DecodeStartType, InspectStartType
<1>6. ASSUME NEW n \in 0..k, Agree(n), n + 1 <= k PROVE Agree(n + 1)
  <2>1. SUFFICES ASSUME decoded[n + 1].ok PROVE Agree(n + 1)
    OBVIOUS
  <2>2. n + 1 \in 1..k /\ (n + 1) - 1 = n
    BY <1>6
  <2>3. PICK w : w = decoded[n]
    OBVIOUS
  <2>4. PICK v : v = inspected[n]
    OBVIOUS
  <2>5. decoded[n + 1] = DecodeSegment(f, engines, w)
    BY <1>2, <2>2, <2>3
  <2>6. inspected[n + 1] = InspectSegment(f, v)
    BY <1>3, <2>2, <2>4
  <2>7. w \in DecodeStates /\ w.ok
    <3>1. w \in DecodeStates
      BY <1>4, <2>3
    <3>2. ASSUME ~w.ok PROVE FALSE
      <4>1. DecodeSegment(f, engines, w) = w
        BY <3>2, Zenon DEF DecodeSegment
      <4>2. QED
        BY <4>1, <3>2, <2>1, <2>5
    <3>3. QED
      BY <3>1, <3>2
  <2>8. /\ w \in Decoding /\ v \in Inspecting
        /\ v.offset = w.offset /\ v.total = Len(w.data)
    BY <1>6, <2>3, <2>4, <2>7
  <2>9. DecodeSegment(f, engines, w).ok
    BY <2>1, <2>5
  <2>10. PICK h, payload : GoesOn(f, engines, w, h, payload)
    BY <2>8, <2>9, DecodeGoesOn, Zenon
  <2>11. /\ w.offset <= Len(f.body)
         /\ h = HeaderAt(f, w.offset)
         /\ h.recipe \in RecipesOfV3 /\ h.size \in Nat \ {0} /\ h.psize \in Nat
         /\ h.size <= f.original - Len(w.data)
         /\ h.psize <= Len(f.body) - w.offset
         /\ payload \in Payloads /\ Len(payload.bytes) = h.size
    BY <2>10, Zenon DEF GoesOn
  <2>12. DecodeSegment(f, engines, w) =
           [ok |-> TRUE, offset |-> w.offset + 1 + h.psize,
            data |-> w.data \o payload.bytes]
    BY <2>10, Zenon DEF GoesOn
  <2>13. /\ v.offset <= Len(f.body) /\ h = HeaderAt(f, v.offset) /\ h.size # 0
         /\ h.size <= f.original - v.total /\ h.psize <= Len(f.body) - v.offset
    BY <2>8, <2>11
  <2>14. /\ InspectSegment(f, v) =
              [ok |-> TRUE, offset |-> v.offset + 1 + h.psize,
               total |-> v.total + h.size, recipes |-> Append(v.recipes, h.recipe)]
         /\ InspectSegment(f, v) \in Inspecting
    BY <2>8, <2>11, <2>13, InspectGoesOn
  <2>15. DecodeSegment(f, engines, w) \in Decoding
    <3>1. DecodeSegment(f, engines, w) \in DecodeStates
      BY <2>7, DecodeTurns
    <3>2. QED
      BY <3>1, <2>9 DEF DecodeStates, Invalid, Unavailable
  <2>16. Len(w.data \o payload.bytes) = Len(w.data) + h.size
    <3>1. PICK before \in Bytes : before = w.data
      BY <2>8 DEF Decoding
    <3>2. PICK more \in Bytes : more = payload.bytes
      BY <2>11 DEF Payloads
    <3>3. Len(before \o more) = Len(before) + Len(more)
      BY DEF Bytes
    <3>4. QED
      BY <3>1, <3>2, <3>3, <2>11
  <2>17. /\ inspected[n + 1].offset = v.offset + 1 + h.psize
         /\ inspected[n + 1].total = v.total + h.size
    BY <2>6, <2>14
  <2>18. /\ decoded[n + 1].offset = w.offset + 1 + h.psize
         /\ decoded[n + 1].data = w.data \o payload.bytes
    <3>1. PICK offset, data : offset = w.offset + 1 + h.psize /\ data = w.data \o payload.bytes
      OBVIOUS
    <3>2. decoded[n + 1] = [ok |-> TRUE, offset |-> offset, data |-> data]
      BY <2>5, <2>12, <3>1
    <3>3. decoded[n + 1].offset = offset /\ decoded[n + 1].data = data
      BY <3>2
    <3>4. QED
      BY <3>1, <3>3
  <2>19. QED
    BY <2>5, <2>6, <2>8, <2>14, <2>15, <2>16, <2>17, <2>18
<1>7. 0 \in Good /\ Good \in SUBSET Nat
  BY <1>5
<1>8. \A n \in 0..k : n \in Good /\ n + 1 <= k => n + 1 \in Good
  <2> HIDE DEF Agree
  <2>1. QED
    BY <1>6
<1>9. \A n \in 0..k : n \in Good
  <2> HIDE DEF Good
  <2>1. QED
    BY <1>7, <1>8, WalkKeeps
<1>10. QED
  BY <1>1, <1>9

(* What decodes is what the header has the digest of, and is accepted.     *)
LEMMA DecodableIsAccepted ==
  ASSUME CallsAssumption, NEW f \in FrameShapes, NEW engines, Decode(f, engines).ok
  PROVE  /\ Decode(f, engines).data \in Bytes /\ Decode(f, engines).data = f.hash
         /\ Inspect(f).ok /\ Inspect(f).size = Len(Decode(f, engines).data)
<1>0. ~Invalid.ok /\ ~Unavailable.ok
  BY DEF Invalid, Unavailable
<1>1. ~(f.whole = "nothing" \/ ~f.magic)
  BY <1>0, Zenon DEF Decode
<1>2. CASE f.version \in {1, 2}
  <2>1. Decode(f, engines) = DecodeLegacy(f, engines)
    BY <1>1, <1>2, Zenon DEF Decode
  <2>2. PICK payload :
          payload = IF f.body = <<>> THEN Payload("none", "data", <<>>, 0)
                    ELSE Slice(f, 1, Len(f.body))
    OBVIOUS
  <2>3. DecodeLegacy(f, engines) =
          IF f.backend \notin LegacyBackends[f.version] THEN Invalid
          ELSE IF ~(Needs(f.backend) \subseteq engines) THEN Unavailable
          ELSE IF \/ ~Restores(f.backend, payload, f.original)
                  \/ payload.bytes # f.hash
          THEN Invalid ELSE [ok |-> TRUE, data |-> payload.bytes]
    BY <2>2, Zenon DEF DecodeLegacy
  <2>4. /\ Restores(f.backend, payload, f.original) /\ payload.bytes = f.hash
        /\ DecodeLegacy(f, engines) = [ok |-> TRUE, data |-> payload.bytes]
    BY <1>0, <2>1, <2>3, Zenon
  <2>5. Len(payload.bytes) = f.original
    BY <2>4, Zenon DEF Restores
  <2>6. payload \in Payloads
    <3>1. CASE f.body = <<>>
      <4>1. PICK none : none = <<>>
        OBVIOUS
      <4>2. payload = [coder |-> "none", kind |-> "data", bytes |-> none, size |-> 0]
        BY <2>2, <3>1, <4>1, Zenon DEF Payload
      <4>3. none \in Bytes
        BY <4>1 DEF Bytes
      <4>4. QED
        BY <4>2, <4>3 DEF Payloads, Coders, Kinds
    <3>2. CASE f.body # <<>>
      <4>1. f.body \in Seq(Headers \cup PayloadUnits)
        BY DEF FrameShapes
      <4>2. Len(f.body) \in Nat /\ 1 + Len(f.body) <= Len(f.body) + 1 /\ 1 \in Nat \ {0}
        BY <4>1
      <4>3. payload = Slice(f, 1, Len(f.body))
        BY <2>2, <3>2
      <4>4. QED
        BY <4>2, <4>3, SliceTypes
    <3>3. QED
      BY <3>1, <3>2
  <2>7. payload.bytes \in Bytes
    BY <2>6 DEF Payloads
  <2>8. Inspect(f).ok /\ Inspect(f).size = f.original
    <3>1. f.version \in {1, 2, 3} /\ f.version # 3
      BY <1>2
    <3>2. PICK recipes : recipes = IF f.original = 0 THEN <<>> ELSE <<f.backend>>
      OBVIOUS
    <3>3. Inspect(f) = [ok |-> TRUE, version |-> f.version, size |-> f.original,
                        recipes |-> recipes]
      BY <1>1, <3>1, <3>2, Zenon DEF Inspect
    <3>4. QED
      BY <3>3
  <2>9. QED
    BY <2>1, <2>4, <2>5, <2>7, <2>8
<1>3. CASE f.version \notin {1, 2}
  <2>1. /\ ~(\/ f.version # 3 \/ f.backend # "segmented"
             \/ f.whole = "header"
             \/ f.original = 0 /\ f.count # 0
             \/ f.original > 0 /\ (f.count = 0 \/ f.count > f.original))
        /\ Decode(f, engines) = DecodeSegments(f, engines)
    BY <1>0, <1>1, <1>3, Zenon DEF Decode
  <2>2. Inspect(f) = InspectSegments(f)
    <3>1. f.version \in {1, 2, 3} /\ f.version = 3
      BY <2>1
    <3>2. QED
      BY <1>1, <2>1, <3>1, Zenon DEF Inspect
  <2>3. PICK decoded :
          /\ IsDecodeWalk(decoded, f, engines)
          /\ \A n \in 0..f.count : decoded[n] \in DecodeStates
          /\ DecodeSegments(f, engines) =
                IF ~decoded[f.count].ok THEN decoded[f.count]
                ELSE IF \/ decoded[f.count].offset # Len(f.body) + 1
                        \/ Len(decoded[f.count].data) # f.original
                        \/ decoded[f.count].data # f.hash
                THEN Invalid ELSE decoded[f.count]
    BY DecodeSegmentsIs, Zenon
  <2>4. PICK inspected :
          /\ IsInspectWalk(inspected, f)
          /\ InspectSegments(f) =
                IF /\ inspected[f.count].ok /\ inspected[f.count].offset = Len(f.body) + 1
                   /\ inspected[f.count].total = f.original
                THEN [ok |-> TRUE, version |-> 3, size |-> f.original,
                      recipes |-> inspected[f.count].recipes]
                ELSE Rejected
    BY InspectSegmentsIs, Zenon
  <2>5. /\ decoded[f.count].ok /\ decoded[f.count].offset = Len(f.body) + 1
        /\ Len(decoded[f.count].data) = f.original
        /\ decoded[f.count].data = f.hash
        /\ DecodeSegments(f, engines) = decoded[f.count]
    BY <1>0, <2>1, <2>3, Zenon
  <2>6. f.count \in 0..f.count
    BY DEF FrameShapes
  <2>7. /\ decoded[f.count] \in Decoding /\ inspected[f.count] \in Inspecting
        /\ inspected[f.count].offset = decoded[f.count].offset
        /\ inspected[f.count].total = Len(decoded[f.count].data)
    BY <2>3, <2>4, <2>5, <2>6, ParsersAgree
  <2>8. inspected[f.count].ok /\ decoded[f.count].data \in Bytes
    BY <2>7 DEF Inspecting, Decoding
  <2>9. PICK recipes : recipes = inspected[f.count].recipes
    OBVIOUS
  <2>10. Inspect(f) = [ok |-> TRUE, version |-> 3, size |-> f.original,
                       recipes |-> recipes]
    BY <2>2, <2>4, <2>5, <2>7, <2>8, <2>9
  <2>11. Inspect(f).ok /\ Inspect(f).size = f.original
    BY <2>10
  <2>12. QED
    BY <2>1, <2>5, <2>8, <2>11
<1>4. QED
  BY <1>2, <1>3

--------------------------------------------------------------------------------
(* What _pack_frame puts into a frame. *)
SegmentSet == [recipe : RecipesOfV3, original : Bytes, payload : Payloads]

LEMMA OneMore ==
  ASSUME NEW S, NEW list \in Seq(S), NEW item \in S
  PROVE  /\ list \o <<item>> \in Seq(S)
         /\ Len(list \o <<item>>) = Len(list) + 1
         /\ \A i \in 1..Len(list) : (list \o <<item>>)[i] = list[i]
         /\ (list \o <<item>>)[Len(list) + 1] = item
<1>1. PICK one : one = <<item>>
  OBVIOUS
<1>2. one \in Seq(S) /\ Len(one) = 1 /\ one[1] = item
  BY <1>1
<1>3. /\ list \o one \in Seq(S)
      /\ Len(list \o one) = Len(list) + 1
      /\ \A i \in 1..Len(list) : (list \o one)[i] = list[i]
      /\ (list \o one)[Len(list) + 1] = item
  <2>1. list \o one \in Seq(S) /\ Len(list \o one) = Len(list) + 1
    BY <1>2, ConcatProperties
  <2>2. \A i \in 1..Len(list) : (list \o one)[i] = list[i]
    BY <1>2
  <2>3. (list \o one)[Len(list) + 1] = one[1]
    <3>1. Len(list) \in Nat /\ Len(list) + 1 \in (Len(list) + 1)..(Len(list) + Len(one))
      BY <1>2
    <3>2. (Len(list) + 1) - Len(list) = 1
      BY <3>1
    <3>3. QED
      BY <1>2, <3>1, <3>2
  <2>4. QED
    BY <1>2, <2>1, <2>2, <2>3
<1>4. QED
  BY <1>1, <1>3

LEMMA UnitsType ==
  ASSUME NEW payload \in Payloads
  PROVE  /\ Units(payload) \in Seq(Headers \cup PayloadUnits)
         /\ Len(Units(payload)) = payload.size
         /\ \A i \in 1..payload.size :
              Units(payload)[i] = [head |-> FALSE, payload |-> payload, at |-> i]
<1>1. PICK size \in Nat : size = payload.size
  BY DEF Payloads
<1>2. PICK units : units = Units(payload)
  OBVIOUS
<1>3. units = [i \in 1..size |-> [head |-> FALSE, payload |-> payload, at |-> i]]
  BY <1>1, <1>2, Zenon DEF Units
<1>4. ASSUME NEW i \in 1..size
      PROVE  /\ units[i] = [head |-> FALSE, payload |-> payload, at |-> i]
             /\ units[i] \in PayloadUnits
  BY <1>3 DEF PayloadUnits
<1>5. units \in [1..size -> Headers \cup PayloadUnits]
  BY <1>3, <1>4
<1>6. units \in Seq(Headers \cup PayloadUnits) /\ Len(units) = size
  BY <1>5
<1>7. QED
  BY <1>1, <1>2, <1>4, <1>6

LEMMA SegmentHeaderType ==
  ASSUME NEW s \in SegmentSet
  PROVE  SegmentHeader(s.recipe, s.original, s.payload) \in Headers
<1>1. PICK size \in Nat : size = Len(s.original)
  BY DEF SegmentSet, Bytes
<1>2. PICK psize \in Nat : psize = s.payload.size
  BY DEF SegmentSet, Payloads
<1>3. PICK crc \in Seq(Nat) : crc = s.original
  BY DEF SegmentSet, Bytes
<1>4. PICK recipe \in RecipesOfV3 : recipe = s.recipe
  BY DEF SegmentSet
<1>5. SegmentHeader(s.recipe, s.original, s.payload) =
        [head |-> TRUE, recipe |-> recipe, size |-> size, psize |-> psize, crc |-> crc]
  BY <1>1, <1>2, <1>3, <1>4, Zenon DEF SegmentHeader
<1>6. QED
  BY <1>5 DEF Headers

(* One more segment. *)
PackTurn(s, before) ==
  before \o <<SegmentHeader(s.recipe, s.original, s.payload)>> \o Units(s.payload)

LEMMA PackTurnIs ==
  ASSUME NEW s \in SegmentSet, NEW before \in Seq(Headers \cup PayloadUnits)
  PROVE  /\ PackTurn(s, before) \in Seq(Headers \cup PayloadUnits)
         /\ Len(PackTurn(s, before)) = Len(before) + 1 + s.payload.size
         /\ \A i \in 1..Len(before) : PackTurn(s, before)[i] = before[i]
         /\ PackTurn(s, before)[Len(before) + 1]
              = SegmentHeader(s.recipe, s.original, s.payload)
         /\ \A i \in 1..s.payload.size :
              PackTurn(s, before)[Len(before) + 1 + i] = Units(s.payload)[i]
<1>1. PICK header \in Headers \cup PayloadUnits :
        header = SegmentHeader(s.recipe, s.original, s.payload)
  BY SegmentHeaderType
<1>2. PICK payload \in Payloads : payload = s.payload
  BY DEF SegmentSet
<1>3. PICK units \in Seq(Headers \cup PayloadUnits) :
        units = Units(payload) /\ Len(units) = payload.size
  BY UnitsType
<1>4. PICK size \in Nat : size = payload.size
  BY DEF Payloads
<1>5. PICK S : S = Headers \cup PayloadUnits
  OBVIOUS
<1>6. before \in Seq(S) /\ header \in S /\ units \in Seq(S) /\ Len(units) = size
  BY <1>3, <1>4, <1>5
<1>7. PICK head : head = before \o <<header>>
  OBVIOUS
<1>8. /\ head \in Seq(S)
      /\ Len(head) = Len(before) + 1
      /\ \A i \in 1..Len(before) : head[i] = before[i]
      /\ head[Len(before) + 1] = header
  BY <1>6, <1>7, OneMore
<1>9. /\ head \o units \in Seq(S)
      /\ Len(head \o units) = Len(before) + 1 + size
      /\ \A i \in 1..Len(head) : (head \o units)[i] = head[i]
      /\ \A i \in 1..size : (head \o units)[Len(head) + i] = units[i]
  BY <1>6, <1>8
<1>10. PackTurn(s, before) = head \o units
  BY <1>1, <1>2, <1>3, <1>7, Zenon DEF PackTurn
<1>11. Len(before) \in Nat /\ 1..Len(before) \subseteq 1..Len(head)
  BY <1>6, <1>8
<1>12. \A i \in 1..Len(before) : (head \o units)[i] = before[i]
  BY <1>8, <1>9, <1>11
<1>13. (head \o units)[Len(before) + 1] = header
  BY <1>8, <1>9, <1>11
<1>14. QED
  BY <1>1, <1>2, <1>3, <1>4, <1>5, <1>8, <1>9, <1>10, <1>12, <1>13

IsPackWalk(body, segments) ==
  /\ body[0] = <<>>
  /\ \A n \in 1..Len(segments) : body[n] = PackTurn(segments[n], body[n - 1])
  /\ \A n \in 0..Len(segments) : body[n] \in Seq(Headers \cup PayloadUnits)

LEMMA PackFrameIs ==
  ASSUME NEW data, NEW segments \in Seq(SegmentSet)
  PROVE  \E body :
           /\ IsPackWalk(body, segments)
           /\ PackFrame(data, segments) =
                [magic |-> TRUE, version |-> 3, backend |-> "segmented",
                 original |-> Len(data), hash |-> data, whole |-> "count",
                 count |-> Len(segments), body |-> body[Len(segments)]]
<1> DEFINE body[n \in 0..Len(segments)] ==
      IF n = 0 THEN <<>>
      ELSE body[n - 1] \o <<SegmentHeader(segments[n].recipe, segments[n].original,
                                          segments[n].payload)>>
                       \o Units(segments[n].payload)
<1>1. PICK k \in Nat : k = Len(segments)
  OBVIOUS
<1>2. PICK S : S = Seq(Headers \cup PayloadUnits)
  OBVIOUS
<1>3. \E walk : walk = [n \in 0..k |->
                          IF n = 0 THEN <<>> ELSE PackTurn(segments[n], walk[n - 1])]
  <2> DEFINE turn(n) == [before \in S |-> PackTurn(segments[n], before)]
  <2>1. PICK step : step = [n \in 1..k |-> turn(n)]
    OBVIOUS
  <2>2. \A n \in 1..k : turn(n) \in [S -> S]
    <3>1. ASSUME NEW n \in 1..k, NEW before \in S
          PROVE  PackTurn(segments[n], before) \in S
      <4>1. PICK s \in SegmentSet : s = segments[n]
        BY <1>1
      <4>2. PackTurn(s, before) \in S
        BY <1>2, PackTurnIs
      <4>3. QED
        BY <4>1, <4>2
    <3>2. QED
      BY <3>1
  <2>3. step \in [1..k -> [S -> S]]
    <3> HIDE DEF turn
    <3>1. QED
      BY <2>1, <2>2, Zenon
  <2>4. <<>> \in S
    BY <1>2
  <2>5. PICK none : none = <<>>
    OBVIOUS
  <2>6. PICK walk : StaysIn(walk, k, S, none, step)
    BY <2>3, <2>4, <2>5, WalkWithin, Zenon
  <2>7. /\ walk = [n \in 0..k |-> walk[n]]
        /\ walk[0] = <<>>
        /\ \A n \in 1..k : walk[n] = step[n][walk[n - 1]]
        /\ \A n \in 0..k : walk[n] \in S
    BY <2>5, <2>6, Zenon DEF StaysIn
  <2>8. ASSUME NEW n \in 0..k
        PROVE  walk[n] = IF n = 0 THEN <<>> ELSE PackTurn(segments[n], walk[n - 1])
    <3>1. CASE n = 0
      BY <2>7, <3>1
    <3>2. CASE n # 0
      <4>1. n \in 1..k /\ n - 1 \in 0..k
        BY <3>2
      <4>2. walk[n] = step[n][walk[n - 1]] /\ walk[n - 1] \in S
        BY <2>7, <4>1
      <4>3. step[n] = turn(n)
        BY <2>1, <4>1, Zenon
      <4>4. turn(n)[walk[n - 1]] = PackTurn(segments[n], walk[n - 1])
        BY <4>2
      <4>5. QED
        BY <3>2, <4>2, <4>3, <4>4
    <3>3. QED
      BY <3>1, <3>2
  <2>9. QED
    BY <2>7, <2>8, Zenon
<1>4. \E any : any = [n \in 0..Len(segments) |->
        IF n = 0 THEN <<>>
        ELSE any[n - 1] \o <<SegmentHeader(segments[n].recipe, segments[n].original,
                                           segments[n].payload)>>
                        \o Units(segments[n].payload)]
  BY <1>1, <1>3, Zenon DEF PackTurn
<1>5. body = [n \in 0..Len(segments) |->
        IF n = 0 THEN <<>>
        ELSE body[n - 1] \o <<SegmentHeader(segments[n].recipe, segments[n].original,
                                            segments[n].payload)>>
                         \o Units(segments[n].payload)]
  BY <1>4, Zenon
<1>6. PackFrame(data, segments) =
        [magic |-> TRUE, version |-> 3, backend |-> "segmented",
         original |-> Len(data), hash |-> data, whole |-> "count",
         count |-> Len(segments), body |-> body[Len(segments)]]
  BY Zenon DEF PackFrame
<1> HIDE DEF body
<1>7. ASSUME NEW n \in 0..k
      PROVE  body[n] = IF n = 0 THEN <<>> ELSE PackTurn(segments[n], body[n - 1])
  BY <1>1, <1>5, Zenon DEF PackTurn
<1>8. body[0] = <<>>
  <2>1. 0 \in 0..k
    OBVIOUS
  <2>2. body[0] = IF 0 = 0 THEN <<>> ELSE PackTurn(segments[0], body[0 - 1])
    BY <1>7, <2>1
  <2>3. QED
    BY ONLY <2>2
<1>9. ASSUME NEW n \in 1..k PROVE body[n] = PackTurn(segments[n], body[n - 1])
  <2>1. n \in 0..k /\ n # 0
    OBVIOUS
  <2>2. QED
    BY <1>7, <2>1
<1>10. \A n \in 0..k : body[n] \in S
  <2> DEFINE Good == {n \in Nat : body[n] \in S}
  <2>1. 0 \in Good /\ Good \in SUBSET Nat
    <3>1. <<>> \in S
      BY <1>2
    <3>2. body[0] \in S
      BY <1>8, <3>1
    <3>3. QED
      BY <3>2
  <2>2. ASSUME NEW n \in 0..k, n \in Good, n + 1 <= k PROVE n + 1 \in Good
    <3>1. n + 1 \in 1..k /\ (n + 1) - 1 = n /\ n + 1 \in Nat /\ body[n] \in S
      BY <2>2
    <3>2. body[n + 1] = PackTurn(segments[n + 1], body[n])
      BY <1>9, <3>1
    <3>3. PICK s \in SegmentSet : s = segments[n + 1]
      BY <1>1, <3>1
    <3>4. PackTurn(s, body[n]) \in S
      BY <1>2, <3>1, PackTurnIs
    <3>5. QED
      BY <3>1, <3>2, <3>3, <3>4
  <2> HIDE DEF Good
  <2>3. \A n \in 0..k : n \in Good
    BY <2>1, <2>2, WalkKeeps
  <2>4. QED
    BY <2>3 DEF Good
<1>11. IsPackWalk(body, segments)
  BY <1>1, <1>2, <1>8, <1>9, <1>10, Zenon DEF IsPackWalk
<1>12. QED
  BY <1>6, <1>11, Zenon


(* What has been packed stays where it is. *)
LEMMA PackPrefix ==
  ASSUME NEW segments \in Seq(SegmentSet), NEW body, IsPackWalk(body, segments),
         NEW n \in 0..Len(segments), NEW m \in n..Len(segments)
  PROVE  /\ Len(body[n]) <= Len(body[m])
         /\ \A i \in 1..Len(body[n]) : body[m][i] = body[n][i]
<1>1. PICK k \in Nat : k = Len(segments)
  OBVIOUS
<1>2. n \in Nat /\ n \in 0..k /\ m \in 0..k /\ n <= m
  BY <1>1
<1>3. /\ \A j \in 1..k : body[j] = PackTurn(segments[j], body[j - 1])
      /\ \A j \in 0..k : body[j] \in Seq(Headers \cup PayloadUnits)
  BY <1>1, Zenon DEF IsPackWalk
<1> DEFINE Kept(j) == /\ Len(body[n]) <= Len(body[j])
                      /\ \A i \in 1..Len(body[n]) : body[j][i] = body[n][i]
           Good == {j \in Nat : n <= j => Kept(j)}
<1>4. Len(body[n]) \in Nat
  BY <1>2, <1>3
<1>5. Kept(n)
  BY <1>4
<1>6. ASSUME NEW j \in 0..k, n <= j, Kept(j), j + 1 <= k PROVE Kept(j + 1)
  <2>1. j + 1 \in 1..k /\ (j + 1) - 1 = j
    BY <1>6
  <2>2. PICK s \in SegmentSet : s = segments[j + 1]
    BY <1>1, <2>1
  <2>3. PICK before \in Seq(Headers \cup PayloadUnits) : before = body[j]
    BY <1>3
  <2>4. body[j + 1] = PackTurn(s, before)
    BY <1>3, <2>1, <2>2, <2>3
  <2>5. PICK after \in Seq(Headers \cup PayloadUnits) : after = PackTurn(s, before)
    BY PackTurnIs
  <2>6. /\ Len(after) = Len(before) + 1 + s.payload.size
        /\ \A i \in 1..Len(before) : after[i] = before[i]
    BY <2>5, PackTurnIs
  <2>7. s.payload.size \in Nat /\ Len(before) \in Nat
    BY DEF SegmentSet, Payloads
  <2>8. Len(body[n]) <= Len(before) /\ \A i \in 1..Len(body[n]) : before[i] = body[n][i]
    BY <1>6, <2>3
  <2>9. Len(body[n]) <= Len(after)
    BY <1>4, <2>6, <2>7, <2>8
  <2>10. \A i \in 1..Len(body[n]) : after[i] = body[n][i]
    <3>1. 1..Len(body[n]) \subseteq 1..Len(before)
      BY <1>4, <2>7, <2>8
    <3>2. QED
      BY <2>6, <2>8, <3>1
  <2>11. QED
    BY <2>4, <2>5, <2>9, <2>10
<1>7. 0 \in Good /\ Good \in SUBSET Nat
  <2>1. 0 <= n /\ (n <= 0 => n = 0)
    BY <1>2
  <2>2. n <= 0 => Kept(0)
    BY <1>5, <2>1
  <2> HIDE DEF Kept
  <2>3. QED
    BY <2>2
<1>8. ASSUME NEW j \in 0..k, j \in Good, j + 1 <= k PROVE j + 1 \in Good
  <2>1. CASE n <= j
    <3>1. Kept(j)
      BY <1>8, <2>1
    <3>2. Kept(j + 1)
      BY <1>6, <1>8, <2>1, <3>1
    <3> HIDE DEF Kept
    <3>3. QED
      BY <3>2
  <2>2. CASE ~(n <= j)
    <3>1. n <= j + 1 => n = j + 1
      BY <1>2, <2>2
    <3>2. n <= j + 1 => Kept(j + 1)
      BY <1>5, <3>1
    <3> HIDE DEF Kept
    <3>3. QED
      BY <3>2
  <2>3. QED
    BY <2>1, <2>2
<1>9. \A j \in 0..k : j \in Good
  <2> HIDE DEF Good
  <2>1. QED
    BY <1>7, <1>8, WalkKeeps
<1>10. Kept(m)
  <2> HIDE DEF Kept
  <2>1. QED
    BY <1>2, <1>9
<1>11. QED
  BY <1>10

(* Where the n-th segment of a frame is, and that it is read as packed. *)
InPlace(f, body, n, s) ==
  /\ Len(body[n - 1]) + 1 \in 1..Len(f.body)
  /\ HeaderAt(f, Len(body[n - 1]) + 1)
       = SegmentHeader(s.recipe, s.original, s.payload)
  /\ Slice(f, Len(body[n - 1]) + 1 + 1, s.payload.size) = s.payload
  /\ s.payload.size <= Len(f.body) - (Len(body[n - 1]) + 1)
  /\ Len(body[n]) = Len(body[n - 1]) + 1 + s.payload.size

LEMMA SegmentInPlace ==
  ASSUME NEW segments \in Seq(SegmentSet), NEW body, IsPackWalk(body, segments),
         NEW f, f.body = body[Len(segments)],
         NEW n \in 1..Len(segments), NEW s \in SegmentSet, s = segments[n],
         s.payload.size > 0
  PROVE  InPlace(f, body, n, s)
<1>1. PICK k \in Nat : k = Len(segments)
  OBVIOUS
<1>2. n \in 0..k /\ n - 1 \in 0..k /\ k \in n..k
  BY <1>1
<1>3. PICK before \in Seq(Headers \cup PayloadUnits) : before = body[n - 1]
  BY <1>1, <1>2, Zenon DEF IsPackWalk
<1>4. PICK whole \in Seq(Headers \cup PayloadUnits) : whole = f.body
  <2>1. k \in 0..k
    OBVIOUS
  <2>2. QED
    BY <1>1, <2>1, Zenon DEF IsPackWalk
<1>5. body[n] = PackTurn(s, before)
  BY <1>1, <1>3, Zenon DEF IsPackWalk
<1>6. PICK after \in Seq(Headers \cup PayloadUnits) : after = PackTurn(s, before)
  BY PackTurnIs
<1>7. PICK payload \in Payloads : payload = s.payload
  BY DEF SegmentSet
<1>8. PICK size \in Nat : size = payload.size
  BY DEF Payloads
<1>9. PICK header : header = SegmentHeader(s.recipe, s.original, s.payload)
  OBVIOUS
<1>10. PICK o \in Nat : o = Len(before) + 1
  OBVIOUS
<1>11. /\ Len(after) = o + size /\ after[o] = header
       /\ \A i \in 1..size : after[o + i] = Units(payload)[i]
  BY <1>6, <1>7, <1>8, <1>9, <1>10, PackTurnIs
<1>12. Len(after) <= Len(whole) /\ \A i \in 1..Len(after) : whole[i] = after[i]
  <2>1. /\ Len(body[n]) <= Len(body[k])
        /\ \A i \in 1..Len(body[n]) : body[k][i] = body[n][i]
    BY <1>1, <1>2, PackPrefix
  <2>2. QED
    BY <1>1, <1>4, <1>5, <1>6, <2>1
<1>13. size > 0 /\ o >= 1 /\ Len(whole) \in Nat /\ Len(after) \in Nat
  BY <1>7, <1>8, <1>10
<1>14. o \in 1..Len(whole) /\ o \in 1..Len(after) /\ size <= Len(whole) - o
  BY <1>11, <1>12, <1>13
<1>15. whole[o] = header
  BY <1>11, <1>12, <1>14
<1>16. HeaderAt(f, o) = header
  <2>1. header.head
    BY <1>9 DEF SegmentHeader
  <2>2. QED
    BY <1>4, <1>15, <2>1, Zenon DEF HeaderAt
<1>17. ASSUME NEW i \in 1..size PROVE whole[o + i] = Units(payload)[i]
  <2>1. o + i \in 1..Len(after)
    BY <1>11, <1>13
  <2>2. QED
    BY <1>11, <1>12, <2>1
<1>18. SubSeq(whole, o + 1, o + 1 + size - 1) = Units(payload)
  <2>1. PICK units \in Seq(Headers \cup PayloadUnits) :
          units = Units(payload) /\ Len(units) = size
    BY <1>8, UnitsType
  <2>2. PICK part : part = SubSeq(whole, o + 1, o + size)
    OBVIOUS
  <2>3. \A i \in (o + 1)..(o + size) : whole[i] \in Headers \cup PayloadUnits
    BY <1>13, <1>14
  <2>4. /\ part \in Seq(Headers \cup PayloadUnits)
        /\ Len(part) = size
        /\ \A i \in 1..size : part[i] = whole[o + 1 + i - 1]
    <3>1. PICK S : S = Headers \cup PayloadUnits
      OBVIOUS
    <3>2. PICK from \in Int, to \in Int : from = o + 1 /\ to = o + size
      OBVIOUS
    <3>3. \A i \in from..to : whole[i] \in S
      BY <2>3, <3>1, <3>2
    <3>4. /\ SubSeq(whole, from, to) \in Seq(S)
          /\ Len(SubSeq(whole, from, to)) = IF from <= to THEN to - from + 1 ELSE 0
          /\ \A i \in 1..(to - from + 1) :
               SubSeq(whole, from, to)[i] = whole[from + i - 1]
      BY <3>3, SubSeqProperties
    <3>5. from <= to /\ to - from + 1 = size
      BY <3>2, <1>13
    <3>6. QED
      BY <2>2, <3>1, <3>2, <3>4, <3>5
  <2>5. \A i \in 1..size : part[i] = units[i]
    <3>1. ASSUME NEW i \in 1..size PROVE part[i] = units[i]
      <4>1. o + 1 + i - 1 = o + i
        OBVIOUS
      <4>2. QED
        BY <1>17, <2>1, <2>4, <4>1
    <3>2. QED
      BY <3>1
  <2>6. part = units
    BY <2>1, <2>4, <2>5, SeqEqual
  <2>7. o + 1 + size - 1 = o + size
    OBVIOUS
  <2>8. QED
    BY <2>1, <2>2, <2>6, <2>7
<1>19. Slice(f, o + 1, size) = payload
  <2>1. PICK units : units = Units(payload)
    OBVIOUS
  <2>2. units # <<>> /\ ~units[1].head /\ units[1].payload = payload
    <3>1. Len(units) = size /\ units[1] = [head |-> FALSE, payload |-> payload, at |-> 1]
      <4>1. 1 \in 1..payload.size
        BY <1>8, <1>13
      <4>2. QED
        BY <1>8, <2>1, <4>1, UnitsType
    <3>2. units # <<>>
      BY <3>1, <1>13
    <3>3. ~units[1].head /\ units[1].payload = payload
      BY <3>1
    <3>4. QED
      BY <3>2, <3>3
  <2>3. SubSeq(f.body, o + 1, o + 1 + size - 1) = units
    BY <1>4, <1>18, <2>1
  <2>4. QED
    BY <2>1, <2>2, <2>3, Zenon DEF Slice
<1>20. QED
  BY <1>3, <1>4, <1>5, <1>6, <1>7, <1>8, <1>9, <1>10, <1>11, <1>14, <1>16, <1>19
     DEF InPlace

--------------------------------------------------------------------------------
(* Segments that follow each other through the source, each coded so that  *)
(* its recipe restores it; edges are where they end.                       *)
Covers(data, segments, edges) ==
  /\ segments \in Seq(SegmentSet)
  /\ edges \in [0..Len(segments) -> Nat]
  /\ edges[0] = 0 /\ edges[Len(segments)] = Len(data)
  /\ \A n \in 1..Len(segments) :
       /\ edges[n - 1] < edges[n] /\ edges[n] <= Len(data)
       /\ segments[n].original = SubSeq(data, edges[n - 1] + 1, edges[n])
       /\ segments[n].payload.bytes = segments[n].original
       /\ segments[n].payload.size > 0
       /\ <<segments[n].recipe, segments[n].payload.coder,
            segments[n].payload.kind>> \in Undoes

LEMMA PackShape ==
  ASSUME NEW data \in Bytes, NEW segments \in Seq(SegmentSet)
  PROVE  PackFrame(data, segments) \in FrameShapes
<1>1. PICK body :
        /\ IsPackWalk(body, segments)
        /\ PackFrame(data, segments) =
             [magic |-> TRUE, version |-> 3, backend |-> "segmented",
              original |-> Len(data), hash |-> data, whole |-> "count",
              count |-> Len(segments), body |-> body[Len(segments)]]
  BY PackFrameIs, Zenon
<1>2. PICK k \in Nat : k = Len(segments)
  OBVIOUS
<1>3. PICK whole \in Seq(Headers \cup PayloadUnits) : whole = body[Len(segments)]
  <2>1. k \in 0..k
    OBVIOUS
  <2>2. QED
    BY <1>1, <1>2, <2>1, Zenon DEF IsPackWalk
<1>4. PICK extent \in Nat : extent = Len(data)
  BY DEF Bytes
<1>5. PICK hash \in Seq(Nat) : hash = data
  BY DEF Bytes
<1>6. [magic |-> TRUE, version |-> 3, backend |-> "segmented",
       original |-> extent, hash |-> hash, whole |-> "count",
       count |-> k, body |-> whole] \in FrameShapes
  BY DEF FrameShapes, Backends
<1>7. QED
  BY <1>1, <1>2, <1>3, <1>4, <1>5, <1>6

(* One turn of either loop at the n-th segment. *)
IsRead(f, body, edges, segments, data, n, engines, recipes) ==
  /\ DecodeSegment(f, engines,
       [ok |-> TRUE, offset |-> Len(body[n - 1]) + 1,
        data |-> SubSeq(data, 1, edges[n - 1])]) =
       IF Needs(segments[n].recipe) \subseteq engines
       THEN [ok |-> TRUE, offset |-> Len(body[n]) + 1,
             data |-> SubSeq(data, 1, edges[n])]
       ELSE Unavailable
  /\ InspectSegment(f,
       [ok |-> TRUE, offset |-> Len(body[n - 1]) + 1,
        total |-> edges[n - 1], recipes |-> recipes]) =
       [ok |-> TRUE, offset |-> Len(body[n]) + 1, total |-> edges[n],
        recipes |-> Append(recipes, segments[n].recipe)]

LEMMA SegmentIsRead ==
  ASSUME CallsAssumption, NEW data \in Bytes, NEW segments, NEW edges,
         Covers(data, segments, edges),
         NEW f \in FrameShapes, f.original = Len(data),
         NEW body, IsPackWalk(body, segments), f.body = body[Len(segments)],
         NEW n \in 1..Len(segments), NEW engines, NEW recipes \in Seq(RecipesOfV3)
  PROVE  IsRead(f, body, edges, segments, data, n, engines, recipes)
<1>1. PICK k \in Nat : k = Len(segments)
  BY DEF Covers
<1>2. PICK s \in SegmentSet : s = segments[n]
  BY DEF Covers
<1>3. PICK from \in Nat : from = edges[n - 1]
  <2>1. n - 1 \in 0..Len(segments)
    BY <1>1
  <2>2. QED
    BY <2>1 DEF Covers
<1>4. PICK to \in Nat : to = edges[n]
  <2>1. n \in 0..Len(segments)
    BY <1>1
  <2>2. QED
    BY <2>1 DEF Covers
<1>5. PICK original \in Bytes : original = s.original
  BY DEF SegmentSet
<1>6. PICK payload \in Payloads : payload = s.payload
  BY DEF SegmentSet
<1>7. PICK size \in Nat : size = payload.size
  BY DEF Payloads
<1>8. PICK extent \in Nat : extent = Len(data)
  BY DEF Bytes
<1>9. /\ from < to /\ to <= extent
      /\ original = SubSeq(data, from + 1, to)
      /\ payload.bytes = original /\ size > 0
      /\ <<s.recipe, payload.coder, payload.kind>> \in Undoes
  BY <1>2, <1>3, <1>4, <1>5, <1>6, <1>7, <1>8 DEF Covers
<1>10. segments \in Seq(SegmentSet)
  BY DEF Covers
<1>11. PICK whole \in Seq(Headers \cup PayloadUnits) : whole = f.body
  BY DEF FrameShapes
<1>12. PICK o \in Nat : o = Len(body[n - 1]) + 1
  <2>1. n - 1 \in 0..Len(segments)
    BY <1>1
  <2>2. body[n - 1] \in Seq(Headers \cup PayloadUnits)
    BY <2>1, Zenon DEF IsPackWalk
  <2>3. QED
    BY <2>2
<1>13. PICK h : h = SegmentHeader(s.recipe, s.original, s.payload)
  OBVIOUS
<1>14. /\ o \in 1..Len(whole) /\ HeaderAt(f, o) = h
       /\ Slice(f, o + 1, size) = payload
       /\ size <= Len(whole) - o
       /\ Len(body[n]) = o + size
  <2>1. s.payload.size > 0
    BY <1>6, <1>7, <1>9
  <2>2. InPlace(f, body, n, s)
    BY <1>2, <1>10, <2>1, SegmentInPlace
  <2>3. QED
    BY <1>6, <1>7, <1>11, <1>12, <1>13, <2>2 DEF InPlace
<1>15. /\ Len(original) = to - from
       /\ SubSeq(data, 1, from) \o original = SubSeq(data, 1, to)
       /\ Len(SubSeq(data, 1, from)) = from
  <2>1. data \in Seq(Nat) /\ Len(data) \in Nat
    BY DEF Bytes
  <2>2. \A i \in (from + 1)..to : data[i] \in Nat
    BY <1>8, <1>9, <2>1
  <2>3. \A i \in 1..from : data[i] \in Nat
    BY <1>8, <1>9, <2>1
  <2>4. Len(original) = to - from
    <3>1. PICK first \in Int : first = from + 1
      OBVIOUS
    <3>2. Len(SubSeq(data, first, to)) = IF first <= to THEN to - first + 1 ELSE 0
      BY <2>2, <3>1, SubSeqProperties
    <3>3. QED
      BY <1>9, <3>1, <3>2
  <2>5. Len(SubSeq(data, 1, from)) = from
    <3>1. Len(SubSeq(data, 1, from)) = IF 1 <= from THEN from - 1 + 1 ELSE 0
      BY <2>3, SubSeqProperties
    <3>2. QED
      BY <3>1
  <2>6. SubSeq(data, 1, from) \o SubSeq(data, from + 1, to) = SubSeq(data, 1, to)
    <3>1. 1 \in 1..(Len(data) + 1) /\ from \in (1 - 1)..Len(data) /\ to \in from..Len(data)
      BY <1>8, <1>9
    <3>2. QED
      BY <2>1, <3>1, ConcatAdjacentSubSeq
  <2>7. QED
    BY <1>9, <2>4, <2>5, <2>6
<1>16. PICK recipe \in RecipesOfV3 : recipe = s.recipe
  BY DEF SegmentSet
<1>17. PICK total \in Nat : total = Len(original)
  BY DEF Bytes
<1>18. h = [head |-> TRUE, recipe |-> recipe, size |-> total, psize |-> size,
            crc |-> original]
  BY <1>5, <1>6, <1>7, <1>13, <1>16, <1>17, Zenon DEF SegmentHeader
<1>19. /\ h.recipe = recipe /\ h.size = total /\ h.psize = size /\ h.crc = original
  BY <1>18
<1>20. PICK w : w = [ok |-> TRUE, offset |-> o, data |-> SubSeq(data, 1, from)]
  OBVIOUS
<1>21. PICK before : before = SubSeq(data, 1, from)
  OBVIOUS
<1>22. w.ok /\ w.offset = o /\ w.data = before
  <2>1. w = [ok |-> TRUE, offset |-> o, data |-> before]
    BY <1>20, <1>21
  <2>2. QED
    BY <2>1
<1>23. /\ ~(o > Len(whole)) /\ total # 0
       /\ ~(total > extent - from) /\ ~(size > Len(whole) - o)
  BY <1>9, <1>14, <1>15, <1>17
<1>24. Restores(recipe, payload, total) /\ payload.bytes = original
  BY <1>9, <1>16, <1>17, Zenon DEF Restores
<1>25. DecodeSegment(f, engines, w) =
         IF Needs(recipe) \subseteq engines
         THEN [ok |-> TRUE, offset |-> o + 1 + size, data |-> before \o original]
         ELSE Unavailable
  <2>1. w.offset = o /\ w.data = before /\ ~ ~w.ok /\ f.original = extent /\ f.body = whole
    BY <1>8, <1>11, <1>22
  <2>2. Len(before) = from
    BY <1>15, <1>21
  <2>3. PICK tests : tests = (\/ total = 0 \/ total > extent - from
                              \/ size > Len(whole) - o
                              \/ recipe \notin RecipesOfV3)
    OBVIOUS
  <2>4. ~tests
    BY <1>23, <2>3
  <2>5. DecodeSegment(f, engines, w) =
          IF tests THEN Invalid
          ELSE IF ~(Needs(recipe) \subseteq engines) THEN Unavailable
          ELSE IF ~Restores(recipe, payload, total) \/ payload.bytes # original
          THEN Invalid
          ELSE [ok |-> TRUE, offset |-> o + 1 + size, data |-> before \o payload.bytes]
    BY <1>14, <1>19, <1>23, <2>1, <2>2, <2>3, Zenon DEF DecodeSegment
  <2>6. QED
    BY <1>24, <2>4, <2>5, Zenon
<1>26. o + 1 + size = Len(body[n]) + 1
  BY <1>14
<1>27. DecodeSegment(f, engines, w) =
         IF Needs(recipe) \subseteq engines
         THEN [ok |-> TRUE, offset |-> Len(body[n]) + 1, data |-> SubSeq(data, 1, to)]
         ELSE Unavailable
  <2>1. before \o original = SubSeq(data, 1, to)
    BY <1>15, <1>21
  <2>2. QED
    BY <1>25, <1>26, <2>1
<1>28. PICK v : v = [ok |-> TRUE, offset |-> o, total |-> from, recipes |-> recipes]
  OBVIOUS
<1>29. /\ v \in Inspecting /\ v.offset = o /\ v.total = from /\ v.recipes = recipes
  <2>1. o \in Nat \ {0}
    BY <1>14
  <2>2. QED
    BY <1>28, <2>1 DEF Inspecting
<1>30. InspectSegment(f, v) =
         [ok |-> TRUE, offset |-> o + 1 + size, total |-> from + total,
          recipes |-> Append(recipes, recipe)]
  <2>1. /\ v.offset <= Len(f.body) /\ h = HeaderAt(f, v.offset)
        /\ h.recipe \in RecipesOfV3 /\ h.size # 0
        /\ h.size <= f.original - v.total /\ h.psize <= Len(f.body) - v.offset
    BY <1>8, <1>11, <1>14, <1>19, <1>23, <1>29
  <2>2. InspectSegment(f, v) =
          [ok |-> TRUE, offset |-> v.offset + 1 + h.psize,
           total |-> v.total + h.size, recipes |-> Append(v.recipes, h.recipe)]
    BY <1>29, <2>1, InspectGoesOn
  <2>3. QED
    BY <1>19, <1>29, <2>2
<1>31. from + total = to
  BY <1>15, <1>17
<1>32. InspectSegment(f, v) =
         [ok |-> TRUE, offset |-> Len(body[n]) + 1, total |-> to,
          recipes |-> Append(recipes, recipe)]
  BY <1>26, <1>30, <1>31
<1>33. QED
  BY <1>2, <1>3, <1>4, <1>12, <1>16, <1>20, <1>27, <1>28, <1>32 DEF IsRead


(* There are no more segments than units. *)
LEMMA FewSegments ==
  ASSUME NEW data \in Bytes, NEW segments, NEW edges, Covers(data, segments, edges)
  PROVE  /\ Len(segments) <= Len(data)
         /\ Len(data) > 0 => Len(segments) # 0
<1>1. PICK k \in Nat : k = Len(segments)
  BY DEF Covers
<1>2. edges \in [0..k -> Nat] /\ edges[0] = 0 /\ edges[k] = Len(data)
  BY <1>1 DEF Covers
<1>3. \A n \in 1..k : edges[n - 1] < edges[n]
  BY <1>1 DEF Covers
<1> DEFINE Good == {n \in 0..k : n <= edges[n]}
<1>4. 0 \in Good /\ Good \in SUBSET Nat
  BY <1>2
<1>5. ASSUME NEW n \in 0..k, n \in Good, n + 1 <= k PROVE n + 1 \in Good
  <2>1. n + 1 \in 1..k /\ n + 1 \in 0..k /\ (n + 1) - 1 = n
    BY <1>5
  <2>2. edges[n] < edges[n + 1] /\ edges[n] \in Nat /\ edges[n + 1] \in Nat /\ n <= edges[n]
    BY <1>2, <1>3, <1>5, <2>1
  <2>3. n + 1 <= edges[n + 1]
    BY <2>2
  <2>4. QED
    BY <2>1, <2>3
<1>6. \A n \in 0..k : n \in Good
  <2> HIDE DEF Good
  <2>1. QED
    BY <1>4, <1>5, WalkKeeps
<1>7. k <= edges[k]
  <2>1. k \in 0..k
    OBVIOUS
  <2>2. QED
    BY <1>6, <2>1
<1>8. QED
  BY <1>1, <1>2, <1>7

(* A frame that is as it was written. *)
LEMMA PackedIsRead ==
  ASSUME CallsAssumption, NEW data \in Bytes, NEW segments, NEW edges,
         Covers(data, segments, edges), NEW f, f = PackFrame(data, segments), NEW engines
  PROVE  /\ Inspect(f).ok /\ Inspect(f).size = Len(data)
         /\ Inspect(f).recipes = [i \in 1..Len(segments) |-> segments[i].recipe]
         /\ \/ Decode(f, engines).ok
            \/ /\ Decode(f, engines) = Unavailable
               /\ \E n \in 1..Len(segments) : ~(Needs(segments[n].recipe) \subseteq engines)
<1>0. segments \in Seq(SegmentSet)
  BY DEF Covers
<1>1. PICK body :
        /\ IsPackWalk(body, segments)
        /\ PackFrame(data, segments) =
             [magic |-> TRUE, version |-> 3, backend |-> "segmented",
              original |-> Len(data), hash |-> data, whole |-> "count",
              count |-> Len(segments), body |-> body[Len(segments)]]
  BY <1>0, PackFrameIs, Zenon
<1>2. PICK k \in Nat : k = Len(segments)
  BY <1>0
<1>3. PICK extent \in Nat : extent = Len(data)
  BY DEF Bytes
<1>4. /\ f.magic /\ f.version = 3 /\ f.backend = "segmented" /\ f.original = extent
      /\ f.hash = data /\ f.whole = "count" /\ f.count = k /\ f.body = body[k]
  <2>1. PICK whole : whole = body[Len(segments)]
    OBVIOUS
  <2>2. f = [magic |-> TRUE, version |-> 3, backend |-> "segmented",
             original |-> extent, hash |-> data, whole |-> "count",
             count |-> k, body |-> whole]
    BY <1>1, <1>2, <1>3, <2>1
  <2>3. QED
    BY <2>2, <2>1, <1>2
<1>5. f \in FrameShapes
  BY <1>0, PackShape
<1>6. ~(\/ f.version # 3 \/ f.backend # "segmented" \/ f.whole = "header"
        \/ f.original = 0 /\ f.count # 0
        \/ f.original > 0 /\ (f.count = 0 \/ f.count > f.original))
  <2>1. k <= extent /\ (extent > 0 => k # 0)
    BY <1>2, <1>3, FewSegments
  <2>2. QED
    BY <1>4, <2>1
<1>7. Inspect(f) = InspectSegments(f) /\ Decode(f, engines) = DecodeSegments(f, engines)
  <2>1. ~(f.whole = "nothing" \/ ~f.magic)
    BY <1>4
  <2>2. f.version \in {1, 2, 3} /\ f.version = 3 /\ f.version \notin {1, 2}
    BY <1>4
  <2>3. Inspect(f) = InspectSegments(f)
    BY <1>6, <2>1, <2>2, Zenon DEF Inspect
  <2>4. Decode(f, engines) = DecodeSegments(f, engines)
    BY <1>6, <2>1, <2>2, Zenon DEF Decode
  <2>5. QED
    BY <2>3, <2>4
<1>8. PICK decoded :
        /\ IsDecodeWalk(decoded, f, engines)
        /\ \A n \in 0..f.count : decoded[n] \in DecodeStates
        /\ DecodeSegments(f, engines) =
              IF ~decoded[f.count].ok THEN decoded[f.count]
              ELSE IF \/ decoded[f.count].offset # Len(f.body) + 1
                      \/ Len(decoded[f.count].data) # f.original
                      \/ decoded[f.count].data # f.hash
              THEN Invalid ELSE decoded[f.count]
  BY <1>5, DecodeSegmentsIs, Zenon
<1>9. PICK inspected :
        /\ IsInspectWalk(inspected, f)
        /\ InspectSegments(f) =
              IF /\ inspected[f.count].ok /\ inspected[f.count].offset = Len(f.body) + 1
                 /\ inspected[f.count].total = f.original
              THEN [ok |-> TRUE, version |-> 3, size |-> f.original,
                    recipes |-> inspected[f.count].recipes]
              ELSE Rejected
  BY <1>5, InspectSegmentsIs, Zenon
<1>10. /\ decoded[0] = DecodeStart
       /\ \A n \in 1..k : decoded[n] = DecodeSegment(f, engines, decoded[n - 1])
  BY <1>4, <1>5, <1>8, DecodeWalkTurns
<1>11. /\ inspected[0] = InspectStart
       /\ \A n \in 1..k : inspected[n] = InspectSegment(f, inspected[n - 1])
  BY <1>4, <1>5, <1>9, InspectWalkTurns
<1> DEFINE Recipes(n) == [i \in 1..n |-> segments[i].recipe]
           Lacking == \E n \in 1..k : ~(Needs(segments[n].recipe) \subseteq engines)
           Decoded(n) == [ok |-> TRUE, offset |-> Len(body[n]) + 1,
                          data |-> SubSeq(data, 1, edges[n])]
           Inspected(n) == [ok |-> TRUE, offset |-> Len(body[n]) + 1,
                            total |-> edges[n], recipes |-> Recipes(n)]
           Known(n) == /\ inspected[n] = Inspected(n)
                       /\ \/ decoded[n] = Decoded(n)
                          \/ decoded[n] = Unavailable /\ Lacking
           Good == {n \in Nat : Known(n)}
<1>12. \A n \in 0..k : /\ Recipes(n) \in Seq(RecipesOfV3)
                       /\ n < k => Recipes(n + 1) = Append(Recipes(n), segments[n + 1].recipe)
  <2>1. ASSUME NEW n \in 0..k PROVE Recipes(n) \in Seq(RecipesOfV3) /\ Len(Recipes(n)) = n
    <3>1. ASSUME NEW i \in 1..n PROVE segments[i].recipe \in RecipesOfV3
      <4>1. i \in 1..Len(segments)
        BY <1>2
      <4>2. segments[i] \in SegmentSet
        BY <1>0, <4>1
      <4>3. QED
        BY <4>2 DEF SegmentSet
    <3>2. Recipes(n) \in [1..n -> RecipesOfV3]
      BY <3>1
    <3> HIDE DEF Recipes
    <3>3. n \in Nat
      OBVIOUS
    <3>4. QED
      BY <3>2, <3>3
  <2>2. ASSUME NEW n \in 0..k, n < k
        PROVE  Recipes(n + 1) = Append(Recipes(n), segments[n + 1].recipe)
    <3>1. n + 1 \in 0..k /\ n \in Nat
      BY <2>2
    <3>2. PICK longer \in Seq(RecipesOfV3) : longer = Recipes(n + 1) /\ Len(longer) = n + 1
      BY <2>1, <3>1
    <3>3. PICK shorter \in Seq(RecipesOfV3) : shorter = Recipes(n) /\ Len(shorter) = n
      BY <2>1
    <3>4. PICK recipe : recipe = segments[n + 1].recipe
      OBVIOUS
    <3>5. longer[n + 1] = recipe /\ \A i \in 1..n : longer[i] = shorter[i]
      BY <3>1, <3>2, <3>3, <3>4
    <3>6. recipe \in RecipesOfV3
      <4>1. n + 1 \in 1..Len(longer)
        BY <3>1, <3>2
      <4>2. longer[n + 1] \in RecipesOfV3
        BY <4>1
      <4>3. QED
        BY <3>5, <4>2
    <3> HIDE DEF Recipes
    <3>7. /\ Append(shorter, recipe) \in Seq(RecipesOfV3)
          /\ Len(Append(shorter, recipe)) = n + 1
          /\ \A i \in 1..(n + 1) : Append(shorter, recipe)[i] =
               IF i <= n THEN shorter[i] ELSE recipe
      BY <3>1, <3>3, <3>6
    <3>8. \A i \in 1..Len(longer) : longer[i] = Append(shorter, recipe)[i]
      <4>1. ASSUME NEW i \in 1..(n + 1) PROVE longer[i] = Append(shorter, recipe)[i]
        <5>1. CASE i <= n
          BY <3>1, <3>5, <3>7, <5>1
        <5>2. CASE i = n + 1
          BY <3>1, <3>5, <3>7, <5>2
        <5>3. i <= n \/ i = n + 1
          BY <3>1
        <5>4. QED
          BY <5>1, <5>2, <5>3
      <4>2. QED
        BY <3>2, <4>1
    <3>9. longer = Append(shorter, recipe)
      BY <3>2, <3>7, <3>8, SeqEqual
    <3>10. QED
      BY <3>2, <3>3, <3>4, <3>9
  <2>3. QED
    BY <2>1, <2>2
<1>13. 0 \in Good /\ Good \in SUBSET Nat
  <2>1. Len(body[0]) + 1 = 1
    <3>1. body[0] = <<>>
      BY <1>1, Zenon DEF IsPackWalk
    <3>2. QED
      BY <3>1
  <2>2. edges[0] = 0
    BY DEF Covers
  <2>3. SubSeq(data, 1, 0) = <<>>
    <3>1. data \in Seq(Nat)
      BY DEF Bytes
    <3>2. QED
      BY <3>1, SubSeqEmpty
  <2>4. Recipes(0) = <<>>
    <3>1. Recipes(0) \in Seq(RecipesOfV3)
      BY <1>12
    <3>2. DOMAIN Recipes(0) = {}
      BY SMT
    <3> HIDE DEF Recipes
    <3>3. QED
      BY <3>1, <3>2
  <2>5. decoded[0] = Decoded(0)
    BY <1>10, <2>1, <2>2, <2>3, Zenon DEF DecodeStart
  <2>6. inspected[0] = Inspected(0)
    <3> HIDE DEF Recipes
    <3>1. QED
      BY <1>11, <2>1, <2>2, <2>4, Zenon DEF InspectStart
  <2>7. Known(0)
    <3> HIDE DEF Decoded, Inspected, Lacking
    <3>1. QED
      BY <2>5, <2>6, Zenon
  <2> HIDE DEF Known
  <2>8. QED
    BY <2>7
<1>14. ASSUME NEW n \in 0..k, n \in Good, n + 1 <= k PROVE n + 1 \in Good
  <2>1. n + 1 \in 1..k /\ (n + 1) - 1 = n /\ n + 1 \in Nat /\ n < k
    BY <1>14
  <2>2. PICK m \in 1..k : m = n + 1
    BY <2>1
  <2>3. PICK recipes \in Seq(RecipesOfV3) : recipes = Recipes(n)
    BY <1>12
  <2>4. m - 1 = n /\ m \in 1..Len(segments)
    BY <1>2, <2>1, <2>2
  <2>5. /\ DecodeSegment(f, engines,
              [ok |-> TRUE, offset |-> Len(body[m - 1]) + 1,
               data |-> SubSeq(data, 1, edges[m - 1])]) =
              IF Needs(segments[m].recipe) \subseteq engines
              THEN [ok |-> TRUE, offset |-> Len(body[m]) + 1,
                    data |-> SubSeq(data, 1, edges[m])]
              ELSE Unavailable
        /\ InspectSegment(f,
              [ok |-> TRUE, offset |-> Len(body[m - 1]) + 1,
               total |-> edges[m - 1], recipes |-> recipes]) =
              [ok |-> TRUE, offset |-> Len(body[m]) + 1, total |-> edges[m],
               recipes |-> Append(recipes, segments[m].recipe)]
    <3>1. f.original = Len(data) /\ f.body = body[Len(segments)]
      BY <1>2, <1>3, <1>4
    <3>2. QED
      <4>1. IsRead(f, body, edges, segments, data, m, engines, recipes)
        BY <1>1, <1>5, <2>4, <3>1, SegmentIsRead
      <4>2. QED
        BY <4>1, Zenon DEF IsRead
  <2>6. inspected[m] = Inspected(m)
    <3>1. inspected[n] = Inspected(n)
      <4>1. Known(n)
        <5> HIDE DEF Known
        <5>1. QED
          BY <1>14
      <4> HIDE DEF Decoded, Inspected, Lacking
      <4>2. QED
        BY <4>1, Zenon
    <3>2. inspected[m] = InspectSegment(f, inspected[n])
      BY <1>11, <2>4
    <3>3. Append(recipes, segments[m].recipe) = Recipes(m)
      BY <1>12, <2>1, <2>2, <2>3
    <3> HIDE DEF Recipes
    <3>4. QED
      BY <2>3, <2>4, <2>5, <3>1, <3>2, <3>3
  <2>7. \/ decoded[m] = Decoded(m)
        \/ decoded[m] = Unavailable /\ Lacking
    <3>1. decoded[m] = DecodeSegment(f, engines, decoded[n])
      BY <1>10, <2>4
    <3>2. CASE decoded[n] = Unavailable /\ Lacking
      <4>1. DecodeSegment(f, engines, Unavailable) = Unavailable
        <5>1. ~Unavailable.ok
          BY DEF Unavailable
        <5>2. QED
          BY <5>1, Zenon DEF DecodeSegment
      <4>2. QED
        BY <3>1, <3>2, <4>1
    <3>3. CASE decoded[n] = Decoded(n)
      <4>1. decoded[m] = IF Needs(segments[m].recipe) \subseteq engines
                         THEN Decoded(m) ELSE Unavailable
        BY <2>4, <2>5, <3>1, <3>3
      <4>2. CASE Needs(segments[m].recipe) \subseteq engines
        <5> HIDE DEF Decoded, Lacking
        <5>1. QED
          BY <4>1, <4>2
      <4>3. CASE ~(Needs(segments[m].recipe) \subseteq engines)
        <5>1. Lacking
          BY <4>3
        <5> HIDE DEF Decoded, Lacking
        <5>2. QED
          BY <4>1, <4>3, <5>1, Zenon
      <4>4. QED
        BY <4>2, <4>3
    <3>4. Known(n)
      <4> HIDE DEF Known
      <4>1. QED
        BY <1>14
    <3> HIDE DEF Decoded, Inspected, Lacking
    <3>5. QED
      BY <3>2, <3>3, <3>4, Zenon
  <2>8. Known(m)
    <3> HIDE DEF Decoded, Inspected, Lacking
    <3>1. QED
      BY <2>6, <2>7, Zenon
  <2> HIDE DEF Known
  <2>9. QED
    BY <2>1, <2>2, <2>8
<1>15. k \in Good
  <2> HIDE DEF Good
  <2>1. \A n \in 0..k : n \in Good
    BY <1>13, <1>14, WalkKeeps
  <2>2. QED
    BY <2>1
<1>16. /\ inspected[k] = Inspected(k)
       /\ \/ decoded[k] = Decoded(k)
          \/ decoded[k] = Unavailable /\ Lacking
  <2>1. Known(k)
    <3> HIDE DEF Known
    <3>1. QED
      BY <1>15
  <2> HIDE DEF Decoded, Inspected, Lacking
  <2>2. QED
    BY <2>1
<1>17. edges[k] = extent /\ SubSeq(data, 1, extent) = data
  <2>1. edges[k] = extent
    BY <1>2, <1>3 DEF Covers
  <2>2. data \in Seq(Nat)
    BY DEF Bytes
  <2>3. QED
    BY <1>3, <2>1, <2>2, SubSeqFull
<1>18. Inspect(f).ok /\ Inspect(f).size = extent /\ Inspect(f).recipes = Recipes(k)
  <2>1. PICK recipes : recipes = Recipes(k)
    OBVIOUS
  <2>2. PICK offset : offset = Len(body[k]) + 1
    OBVIOUS
  <2>3. inspected[k] = [ok |-> TRUE, offset |-> offset, total |-> extent,
                        recipes |-> recipes]
    BY <1>16, <1>17, <2>1, <2>2
  <2>4. /\ inspected[k].ok /\ inspected[k].offset = offset
        /\ inspected[k].total = extent /\ inspected[k].recipes = recipes
    BY <2>3
  <2>5. Inspect(f) = [ok |-> TRUE, version |-> 3, size |-> extent, recipes |-> recipes]
    BY <1>4, <1>7, <1>9, <2>2, <2>4
  <2>6. QED
    BY <2>1, <2>5
<1>19. CASE decoded[k] = Decoded(k)
  <2>1. PICK offset : offset = Len(body[k]) + 1
    OBVIOUS
  <2>2. decoded[k] = [ok |-> TRUE, offset |-> offset, data |-> data]
    BY <1>17, <1>19, <2>1
  <2>3. decoded[k].ok /\ decoded[k].offset = offset /\ decoded[k].data = data
    BY <2>2
  <2>4. DecodeSegments(f, engines) = decoded[k]
    BY <1>3, <1>4, <1>8, <2>1, <2>3
  <2>5. Decode(f, engines).ok
    BY <1>7, <2>3, <2>4
  <2>6. QED
    BY <1>2, <1>3, <1>18, <2>5
<1>20. CASE decoded[k] = Unavailable /\ Lacking
  <2>1. ~decoded[k].ok
    BY <1>20 DEF Unavailable
  <2>2. Decode(f, engines) = Unavailable
    BY <1>4, <1>7, <1>8, <1>20, <2>1
  <2>3. QED
    BY <1>2, <1>3, <1>18, <1>20, <2>2
<1>21. QED
  BY <1>16, <1>19, <1>20

--------------------------------------------------------------------------------
(* Frames of versions 1 and 2. *)
LegacyParts(data, version, backend, payload) ==
  /\ version \in {1, 2} /\ backend \in LegacyBackends[version] \ {"lz4"}
  /\ payload \in Payloads /\ payload.bytes = data
  /\ <<backend, payload.coder, payload.kind>> \in Undoes
  /\ IF data = <<>> THEN backend = "store" /\ payload.size = 0 ELSE payload.size > 0

LEMMA LegacyShape ==
  ASSUME NEW data \in Bytes, NEW version, NEW backend, NEW payload,
         LegacyParts(data, version, backend, payload),
         NEW f, f = PackLegacy(version, backend, data, payload)
  PROVE  /\ f \in FrameShapes /\ f.magic /\ f.version = version /\ f.backend = backend
         /\ f.original = Len(data) /\ f.hash = data /\ f.whole = "count"
         /\ f.body = Units(payload)
<1>1. PICK extent \in Nat : extent = Len(data)
  BY DEF Bytes
<1>2. PICK hash \in Seq(Nat) : hash = data
  BY DEF Bytes
<1>3. PICK body \in Seq(Headers \cup PayloadUnits) : body = Units(payload)
  BY UnitsType DEF LegacyParts
<1>4. version \in {1, 2} /\ backend \in Backends
  <2>1. version \in {1, 2} /\ backend \in LegacyBackends[version]
    BY DEF LegacyParts
  <2>2. \/ LegacyBackends[version] = {"store", "gzip", "delta gzip"}
        \/ LegacyBackends[version] = {"store", "zstd", "lz4", "delta zstd"}
    BY <2>1 DEF LegacyBackends
  <2>3. QED
    BY <2>1, <2>2 DEF Backends
<1>5. f = [magic |-> TRUE, version |-> version, backend |-> backend,
           original |-> extent, hash |-> hash, whole |-> "count",
           count |-> 0, body |-> body]
  BY <1>1, <1>2, <1>3, Zenon DEF PackLegacy
<1>6. f \in FrameShapes
  BY <1>4, <1>5 DEF FrameShapes
<1>7. /\ f.magic /\ f.version = version /\ f.backend = backend
      /\ f.original = extent /\ f.hash = hash /\ f.whole = "count" /\ f.body = body
  BY <1>5
<1>8. QED
  BY <1>1, <1>2, <1>3, <1>6, <1>7

LEMMA LegacyIsRead ==
  ASSUME NEW data \in Bytes, NEW version, NEW backend, NEW payload,
         LegacyParts(data, version, backend, payload),
         NEW f, f = PackLegacy(version, backend, data, payload), NEW engines
  PROVE  /\ Inspect(f).ok /\ Inspect(f).size = Len(data)
         /\ \/ Decode(f, engines).ok
            \/ /\ Decode(f, engines) = Unavailable
               /\ ~(Needs(backend) \subseteq engines)
<1>1. /\ f \in FrameShapes /\ f.magic /\ f.version = version /\ f.backend = backend
      /\ f.original = Len(data) /\ f.hash = data /\ f.whole = "count"
      /\ f.body = Units(payload)
  BY LegacyShape
<1>2. /\ version \in {1, 2} /\ backend \in LegacyBackends[version]
      /\ payload \in Payloads /\ payload.bytes = data
      /\ <<backend, payload.coder, payload.kind>> \in Undoes
  BY DEF LegacyParts
<1>3. Inspect(f).ok /\ Inspect(f).size = Len(data)
  <2>1. ~(f.whole = "nothing" \/ ~f.magic) /\ f.version \in {1, 2, 3} /\ f.version # 3
    BY <1>1, <1>2
  <2>2. PICK recipes : recipes = IF f.original = 0 THEN <<>> ELSE <<f.backend>>
    OBVIOUS
  <2>3. Inspect(f) = [ok |-> TRUE, version |-> f.version, size |-> f.original,
                      recipes |-> recipes]
    BY <2>1, <2>2, Zenon DEF Inspect
  <2>4. QED
    BY <1>1, <2>3
<1>4. PICK found : found = IF f.body = <<>> THEN Payload("none", "data", <<>>, 0)
                           ELSE Slice(f, 1, Len(f.body))
  OBVIOUS
<1>5. Restores(backend, found, Len(data)) /\ found.bytes = data
  <2>1. CASE data = <<>>
    <3>1. payload.size = 0 /\ backend = "store"
      BY <2>1 DEF LegacyParts
    <3>2. PICK units \in Seq(Headers \cup PayloadUnits) : units = Units(payload)
      BY <1>2, UnitsType
    <3>3. Len(units) = 0
      BY <1>2, <3>1, <3>2, UnitsType
    <3>4. f.body = <<>>
      BY <1>1, <3>2, <3>3
    <3>5. PICK none : none = <<>>
      OBVIOUS
    <3>6. found = [coder |-> "none", kind |-> "data", bytes |-> none, size |-> 0]
      BY <1>4, <3>4, <3>5, Zenon DEF Payload
    <3>7. found.coder = "none" /\ found.kind = "data" /\ found.bytes = none
      BY <3>6
    <3>8. <<"store", "none", "data">> \in Undoes
      BY DEF Undoes
    <3>9. QED
      BY <2>1, <3>1, <3>5, <3>7, <3>8, Zenon DEF Restores
  <2>2. CASE data # <<>>
    <3>1. PICK size \in Nat : size = payload.size /\ size > 0
      BY <2>2, <1>2 DEF LegacyParts, Payloads
    <3>2. PICK units \in Seq(Headers \cup PayloadUnits) :
            units = Units(payload) /\ Len(units) = size
      BY <1>2, <3>1, UnitsType
    <3>3. units[1] = [head |-> FALSE, payload |-> payload, at |-> 1]
      <4>1. 1 \in 1..payload.size
        BY <3>1
      <4>2. QED
        BY <1>2, <3>2, <4>1, UnitsType
    <3>4. units # <<>> /\ ~units[1].head /\ units[1].payload = payload
      <4>1. units # <<>>
        BY <3>1, <3>2
      <4>2. ~units[1].head /\ units[1].payload = payload
        BY <3>3
      <4>3. QED
        BY <4>1, <4>2
    <3>5. SubSeq(f.body, 1, 1 + Len(f.body) - 1) = units
      <4>1. 1 + Len(units) - 1 = Len(units)
        OBVIOUS
      <4>2. SubSeq(units, 1, Len(units)) = units
        BY SubSeqFull
      <4>3. QED
        BY <1>1, <3>2, <4>1, <4>2
    <3>6. Slice(f, 1, Len(f.body)) = payload
      BY <3>2, <3>4, <3>5, Zenon DEF Slice
    <3>7. f.body # <<>>
      BY <1>1, <3>2, <3>4
    <3>8. found = payload
      BY <1>4, <3>6, <3>7
    <3>9. QED
      BY <1>2, <3>8, Zenon DEF Restores
  <2>3. QED
    BY <2>1, <2>2
<1>6. Decode(f, engines) = DecodeLegacy(f, engines)
  <2>1. ~(f.whole = "nothing" \/ ~f.magic) /\ f.version \in {1, 2}
    BY <1>1, <1>2
  <2>2. QED
    BY <2>1, Zenon DEF Decode
<1>7. DecodeLegacy(f, engines) =
        IF f.backend \notin LegacyBackends[f.version] THEN Invalid
        ELSE IF ~(Needs(f.backend) \subseteq engines) THEN Unavailable
        ELSE IF ~Restores(f.backend, found, f.original) \/ found.bytes # f.hash
        THEN Invalid ELSE [ok |-> TRUE, data |-> found.bytes]
  BY <1>4, Zenon DEF DecodeLegacy
<1>8. DecodeLegacy(f, engines) =
        IF ~(Needs(backend) \subseteq engines) THEN Unavailable
        ELSE [ok |-> TRUE, data |-> data]
  BY <1>1, <1>2, <1>5, <1>7, Zenon
<1>9. CASE Needs(backend) \subseteq engines
  <2>1. Decode(f, engines) = [ok |-> TRUE, data |-> data]
    BY <1>6, <1>8, <1>9
  <2>2. QED
    BY <1>3, <2>1
<1>10. CASE ~(Needs(backend) \subseteq engines)
  BY <1>3, <1>6, <1>8, <1>10
<1>11. QED
  BY <1>9, <1>10
--------------------------------------------------------------------------------
(* What the encoders write: a sound frame of either kind. *)
Packed(data, f) ==
  \E segments, edges : Covers(data, segments, edges) /\ f = PackFrame(data, segments)

Legacy(data, f) ==
  \E version, backend, payload :
    /\ LegacyParts(data, version, backend, payload)
    /\ f = PackLegacy(version, backend, data, payload)

LEMMA WrittenShape ==
  ASSUME NEW data \in Bytes, NEW f, Packed(data, f) \/ Legacy(data, f)
  PROVE  f \in FrameShapes /\ f.hash = data
<1>1. CASE Packed(data, f)
  <2>1. PICK segments, edges : Covers(data, segments, edges) /\ f = PackFrame(data, segments)
    BY <1>1, Zenon DEF Packed
  <2>2. segments \in Seq(SegmentSet)
    BY <2>1 DEF Covers
  <2>3. f \in FrameShapes
    BY <2>1, <2>2, PackShape
  <2>4. f.hash = data
    BY <2>1 DEF PackFrame
  <2>5. QED
    BY <2>3, <2>4
<1>2. CASE Legacy(data, f)
  <2>1. PICK version, backend, payload :
          /\ LegacyParts(data, version, backend, payload)
          /\ f = PackLegacy(version, backend, data, payload)
    BY <1>2, Zenon DEF Legacy
  <2>2. QED
    BY <2>1, LegacyShape
<1>3. QED
  BY <1>1, <1>2

(* The digest of a frame whose digest was damaged is that of no source. *)
LEMMA ZeroDigest == <<0>> \in Seq(Nat) /\ <<0>> \notin Bytes
<1>1. <<0>> = [i \in 1..1 |-> 0]
  OBVIOUS
<1>2. [i \in 1..1 |-> 0] \in Seq(Nat)
  BY IsASeq
<1>3. <<0>> \notin Bytes
  <2>1. SUFFICES \A list \in Bytes : list # <<0>>
    OBVIOUS
  <2>2. ASSUME NEW list \in Bytes PROVE list # <<0>>
    <3>1. Len(list) = 1 => list[1] \in Nat \ {0}
      BY DEF Bytes
    <3>2. QED
      BY <3>1
  <2>3. QED
    BY <2>2
<1>4. QED
  BY <1>1, <1>2, <1>3

(* Damage keeps the shape of a frame, and its digest unless it hits that. *)
LEMMA DamagedShape ==
  ASSUME NEW f \in FrameShapes, NEW g \in Damaged(f)
  PROVE  g \in FrameShapes /\ (g.hash = f.hash \/ g.hash = <<0>>)
<1>0. /\ f.magic \in BOOLEAN /\ f.version \in Nat /\ f.backend \in Backends
      /\ f.original \in Nat /\ f.hash \in Seq(Nat)
      /\ f.whole \in {"nothing", "header", "count"} /\ f.count \in Nat
      /\ f.body \in Seq(Headers \cup PayloadUnits)
  BY DEF FrameShapes
<1>1. /\ \/ g \in CutOff(f) \/ g \in Prolonged(f) \/ g \in HeaderChanged(f)
         \/ g \in SegmentChanged(f)
      /\ g.original >= 0 /\ g.count >= 0
      /\ \A i \in DOMAIN g.body : g.body[i].head =>
           g.body[i].size >= 0 /\ g.body[i].psize >= 0
  BY Zenon DEF Damaged
<1>2. CASE g \in CutOff(f)
  <2>1. g \in FrameShapes /\ g.hash = f.hash
    <3>1. CASE g \in {[f EXCEPT !.whole = w, !.body = <<>>] : w \in {"nothing", "header"}}
      <4>1. <<>> \in Seq(Headers \cup PayloadUnits)
        OBVIOUS
      <4>2. PICK w \in {"nothing", "header"} : g = [f EXCEPT !.whole = w, !.body = <<>>]
        BY <3>1
      <4>3. PICK body \in Seq(Headers \cup PayloadUnits) : body = <<>>
        BY <4>1
      <4>4. g = [f EXCEPT !.whole = w, !.body = body]
        BY <4>2, <4>3
      <4>5. QED
        BY <4>4 DEF FrameShapes
    <3>2. CASE g \in {[f EXCEPT !.body = SubSeq(@, 1, n)] : n \in 0..(Len(f.body) - 1)}
      <4>1. PICK n \in 0..(Len(f.body) - 1) : g = [f EXCEPT !.body = SubSeq(f.body, 1, n)]
        BY <3>2
      <4>2. SubSeq(f.body, 1, n) \in Seq(Headers \cup PayloadUnits)
        <5>1. PICK S : S = Headers \cup PayloadUnits
          OBVIOUS
        <5>2. \A i \in 1..n : f.body[i] \in S
          BY <1>0, <5>1
        <5>3. SubSeq(f.body, 1, n) \in Seq(S)
          BY <5>2, SubSeqProperties
        <5>4. QED
          BY <5>1, <5>3
      <4>3. PICK body : body = SubSeq(f.body, 1, n)
        OBVIOUS
      <4>4. g = [f EXCEPT !.body = body]
        BY <4>1, <4>3
      <4>5. body \in Seq(Headers \cup PayloadUnits)
        BY <4>2, <4>3
      <4>6. QED
        BY <4>4, <4>5 DEF FrameShapes
    <3>3. QED
      BY <1>2, <3>1, <3>2 DEF CutOff
  <2>2. QED
    BY <2>1
<1>3. CASE g \in Prolonged(f)
  <2>1. PICK unit : unit = Units([Broken EXCEPT !.size = 1])[1]
    OBVIOUS
  <2>2. unit \in Headers \cup PayloadUnits
    <3>1. PICK payload : payload = [Broken EXCEPT !.size = 1]
      OBVIOUS
    <3>2. payload \in Payloads /\ payload.size = 1
      BY <3>1, BrokenType DEF Payloads
    <3>3. 1 \in 1..payload.size
      BY <3>2
    <3>4. /\ Units(payload) \in Seq(Headers \cup PayloadUnits)
          /\ Len(Units(payload)) = payload.size
      BY <3>2, UnitsType
    <3>5. Units(payload)[1] \in Headers \cup PayloadUnits
      BY <3>3, <3>4
    <3>6. QED
      BY <2>1, <3>1, <3>5
  <2>3. g = [f EXCEPT !.body = Append(f.body, unit)]
    BY <1>3, <2>1 DEF Prolonged
  <2>4. PICK body \in Seq(Headers \cup PayloadUnits) : body = Append(f.body, unit)
    <3>1. PICK S : S = Headers \cup PayloadUnits
      OBVIOUS
    <3>2. f.body \in Seq(S) /\ unit \in S
      BY <1>0, <2>2, <3>1
    <3>3. Append(f.body, unit) \in Seq(S)
      BY <3>2
    <3>4. QED
      BY <3>1, <3>3
  <2>5. g = [f EXCEPT !.body = body]
    BY <2>3, <2>4
  <2>6. QED
    BY <2>5 DEF FrameShapes
<1>4. CASE g \in HeaderChanged(f)
  <2>1. CASE g = [f EXCEPT !.magic = FALSE]
    BY <2>1 DEF FrameShapes
  <2>2. CASE g = [f EXCEPT !.hash = <<0>>]
    <3>1. PICK hash \in Seq(Nat) : hash = <<0>>
      BY ZeroDigest
    <3>2. g = [f EXCEPT !.hash = hash]
      BY <2>2, <3>1
    <3>3. g \in FrameShapes /\ g.hash = hash
      BY <3>2 DEF FrameShapes
    <3>4. QED
      BY <3>1, <3>3
  <2>3. CASE \E v \in (1..4) \ {f.version} : g = [f EXCEPT !.version = v]
    BY <2>3 DEF FrameShapes
  <2>4. CASE \E b \in {"segmented", "store", "gzip", "zstd", "delta zstd", "other"}
                        \ {f.backend} : g = [f EXCEPT !.backend = b]
    BY <2>4 DEF FrameShapes, Backends
  <2>5. CASE \E d \in {-1, 1} : g = [f EXCEPT !.original = f.original + d]
    <3>1. PICK d \in {-1, 1} : g = [f EXCEPT !.original = f.original + d]
      BY <2>5
    <3>2. PICK original \in Int : original = f.original + d
      BY <1>0
    <3>3. g = [f EXCEPT !.original = original]
      BY <3>1, <3>2
    <3>4. g.original = original
      BY <3>3 DEF FrameShapes
    <3>5. original \in Nat
      BY <1>1, <3>4
    <3>6. QED
      BY <3>3, <3>5 DEF FrameShapes
  <2>6. CASE \E d \in {-1, 1} : g = [f EXCEPT !.count = f.count + d]
    <3>1. PICK d \in {-1, 1} : g = [f EXCEPT !.count = f.count + d]
      BY <2>6
    <3>2. PICK count \in Int : count = f.count + d
      BY <1>0
    <3>3. g = [f EXCEPT !.count = count]
      BY <3>1, <3>2
    <3>4. g.count = count
      BY <3>3 DEF FrameShapes
    <3>5. count \in Nat
      BY <1>1, <3>4
    <3>6. QED
      BY <3>3, <3>5 DEF FrameShapes
  <2>7. QED
    BY <1>4, <2>1, <2>2, <2>3, <2>4, <2>5, <2>6 DEF HeaderChanged
<1>5. CASE g \in SegmentChanged(f)
  <2>0. PICK i \in DOMAIN f.body :
          g \in LET h == f.body[i]
                    with(new) == [f EXCEPT !.body[i] = new]
                IN  IF h.head
                    THEN {with([h EXCEPT !.recipe = r]) :
                            r \in (RecipesOfV3 \cup {"other"}) \ {h.recipe}}
                         \cup {with([h EXCEPT !.size = @ + d]) : d \in {-1, 1}}
                         \cup {with([h EXCEPT !.psize = @ + d]) : d \in {-1, 1}}
                         \cup {with([h EXCEPT !.crc = <<0>>])}
                    ELSE {with([h EXCEPT !.payload = Broken])}
    BY <1>5 DEF SegmentChanged
  <2>1. PICK new :
          /\ g = [f EXCEPT !.body[i] = new]
          /\ IF f.body[i].head
             THEN \/ \E r \in (RecipesOfV3 \cup {"other"}) \ {f.body[i].recipe} :
                       new = [f.body[i] EXCEPT !.recipe = r]
                  \/ \E d \in {-1, 1} : new = [f.body[i] EXCEPT !.size = f.body[i].size + d]
                  \/ \E d \in {-1, 1} : new = [f.body[i] EXCEPT !.psize = f.body[i].psize + d]
                  \/ new = [f.body[i] EXCEPT !.crc = <<0>>]
             ELSE new = [f.body[i] EXCEPT !.payload = Broken]
    BY <2>0, Zenon
  <2>2. PICK h \in Headers \cup PayloadUnits : h = f.body[i]
    BY <1>0
  <2>3. i \in 1..Len(f.body)
    BY <1>0
  <2>4. g = [f EXCEPT !.body = [f.body EXCEPT ![i] = new]]
    BY <2>1
  <2>5. PICK body : body = [f.body EXCEPT ![i] = new]
    OBVIOUS
  <2>6. g = [f EXCEPT !.body = body]
    BY <2>4, <2>5
  <2>7. g.body = body /\ g.hash = f.hash
    BY <2>6 DEF FrameShapes
  <2>8. i \in DOMAIN g.body /\ g.body[i] = new
    BY <2>5, <2>7
  <2>9. new \in Headers \cup PayloadUnits
    <3>1. CASE h.head
      <4>1. h \in Headers
        BY <3>1 DEF PayloadUnits
      <4>2. CASE \E r \in (RecipesOfV3 \cup {"other"}) \ {h.recipe} :
                   new = [h EXCEPT !.recipe = r]
        BY <4>1, <4>2 DEF Headers
      <4>3. CASE \E d \in {-1, 1} : new = [h EXCEPT !.size = h.size + d]
        <5>1. PICK d \in {-1, 1} : new = [h EXCEPT !.size = h.size + d]
          BY <4>3
        <5>2. PICK size \in Int : size = h.size + d
          BY <4>1 DEF Headers
        <5>3. new = [h EXCEPT !.size = size]
          BY <5>1, <5>2
        <5>4. new.size = size /\ new.head
          BY <5>3, <4>1 DEF Headers
        <5>5. size \in Nat
          BY <1>1, <2>8, <5>4
        <5>6. QED
          BY <4>1, <5>3, <5>5 DEF Headers
      <4>4. CASE \E d \in {-1, 1} : new = [h EXCEPT !.psize = h.psize + d]
        <5>1. PICK d \in {-1, 1} : new = [h EXCEPT !.psize = h.psize + d]
          BY <4>4
        <5>2. PICK size \in Int : size = h.psize + d
          BY <4>1 DEF Headers
        <5>3. new = [h EXCEPT !.psize = size]
          BY <5>1, <5>2
        <5>4. new.psize = size /\ new.head
          BY <5>3, <4>1 DEF Headers
        <5>5. size \in Nat
          BY <1>1, <2>8, <5>4
        <5>6. QED
          BY <4>1, <5>3, <5>5 DEF Headers
      <4>5. CASE new = [h EXCEPT !.crc = <<0>>]
        <5>1. PICK crc \in Seq(Nat) : crc = <<0>>
          BY ZeroDigest
        <5>2. new = [h EXCEPT !.crc = crc]
          BY <4>5, <5>1
        <5>3. QED
          BY <4>1, <5>2 DEF Headers
      <4>6. QED
        BY <2>1, <2>2, <3>1, <4>2, <4>3, <4>4, <4>5
    <3>2. CASE ~h.head
      <4>1. h \in PayloadUnits
        BY <3>2 DEF Headers
      <4>2. new = [h EXCEPT !.payload = Broken]
        BY <2>1, <2>2, <3>2
      <4>3. QED
        BY <4>1, <4>2, BrokenType DEF PayloadUnits
    <3>3. QED
      BY <3>1, <3>2
  <2>10. body \in Seq(Headers \cup PayloadUnits)
    <3>1. PICK S : S = Headers \cup PayloadUnits
      OBVIOUS
    <3>2. f.body \in Seq(S) /\ new \in S
      BY <1>0, <2>9, <3>1
    <3>3. body \in Seq(S)
      BY <2>3, <2>5, <3>2, ExceptSeq
    <3>4. QED
      BY <3>1, <3>3
  <2>11. QED
    BY <2>6, <2>7, <2>10 DEF FrameShapes
<1>6. QED
  BY <1>1, <1>2, <1>3, <1>4, <1>5

(* A part of the source, coded. *)
Sound(s, bytes) ==
  /\ s \in SegmentSet /\ s.original = bytes /\ s.payload.bytes = bytes
  /\ s.payload.size > 0
  /\ <<s.recipe, s.payload.coder, s.payload.kind>> \in Undoes

IsCoded(payload, coder, kind, bytes) ==
  /\ payload \in Payloads /\ payload.size > 0 /\ payload.bytes = bytes
  /\ payload.coder = coder /\ payload.kind = kind

LEMMA CodedIs ==
  ASSUME CallsAssumption, source \in Sources,
         NEW coder \in {"gzip", "zstd"}, NEW kind \in Kinds,
         NEW from \in Nat \ {0}, NEW to \in Nat, from <= to, to <= Len(Data),
         NEW bytes, bytes = SubSeq(Data, from, to)
  PROVE  /\ bytes \in Bytes /\ bytes # <<>> /\ Len(bytes) = to - from + 1
         /\ IsCoded(Coded(coder, kind, bytes), coder, kind, bytes)
<1>1. Data \in Seq(Nat \ {0})
  BY DEF CallsAssumption, Data
<1>2. /\ bytes \in Seq(Nat \ {0}) /\ Len(bytes) = to - from + 1
      /\ bytes[1] = Data[from]
  <2>1. PICK S : S = Nat \ {0}
    OBVIOUS
  <2>2. \A i \in from..to : Data[i] \in S
    BY <1>1, <2>1
  <2>3. SubSeq(Data, from, to) \in Seq(S)
    BY <2>2, SubSeqProperties
  <2>4. Len(SubSeq(Data, from, to)) = to - from + 1
    BY <1>1, SubSeqProperties
  <2>5. SubSeq(Data, from, to)[1] = Data[from]
    BY <1>1
  <2>6. QED
    BY <2>1, <2>3, <2>4, <2>5
<1>3. source.coded \in [{"data", "delta", "text", "channel"} \X (1..Len(Data))
                          \X {Data[i] : i \in 1..Len(Data)} -> Nat \ {0}]
  BY DEF CallsAssumption, Data
<1>4. <<kind, Len(bytes), bytes[1]>> \in
        {"data", "delta", "text", "channel"} \X (1..Len(Data)) \X {Data[i] : i \in 1..Len(Data)}
  BY <1>2 DEF Kinds
<1>5. source.coded[kind, Len(bytes), bytes[1]] \in Nat \ {0}
  BY <1>3, <1>4
<1>6. PICK size \in Nat \ {0} : size = source.coded[kind, Len(bytes), bytes[1]]
  BY <1>5
<1>7. Coded(coder, kind, bytes) = Payload(coder, kind, bytes, size)
  BY <1>6 DEF Coded
<1>8. IsCoded(Coded(coder, kind, bytes), coder, kind, bytes)
  BY <1>2, <1>7 DEF IsCoded, Payload, Payloads, Coders, Bytes
<1>9. QED
  BY <1>2, <1>8 DEF Bytes

LEMMA StoredIs ==
  ASSUME NEW bytes \in Bytes
  PROVE  /\ Stored(bytes) \in Payloads /\ Stored(bytes).size = Len(bytes)
         /\ Stored(bytes).bytes = bytes
         /\ Stored(bytes).coder = "none" /\ Stored(bytes).kind = "data"
<1>1. PICK size \in Nat : size = Len(bytes)
  BY DEF Bytes
<1>2. QED
  BY <1>1 DEF Stored, Payload, Payloads, Coders, Kinds

(* A segment is stored where it would be no shorter, and sound either way. *)
LEMMA SegmentIsSound ==
  ASSUME NEW bytes \in Bytes, bytes # <<>>, NEW recipe \in RecipesOfV3,
         NEW payload, NEW coder, NEW kind, IsCoded(payload, coder, kind, bytes),
         <<recipe, coder, kind>> \in Undoes
  PROVE  /\ Sound(Segment(recipe, bytes, payload), bytes)
         /\ Segment(recipe, bytes, payload).payload.size <= Len(bytes)
<1>0. Len(bytes) \in Nat /\ Len(bytes) > 0
  BY DEF Bytes
<1>1. CASE payload.size >= Len(bytes)
  <2>1. PICK stored \in Payloads : stored = Stored(bytes)
    BY StoredIs
  <2>2. /\ stored.size = Len(bytes) /\ stored.bytes = bytes
        /\ stored.coder = "none" /\ stored.kind = "data"
    BY <2>1, StoredIs
  <2>3. Segment(recipe, bytes, payload)
          = [recipe |-> "store", original |-> bytes, payload |-> stored]
    BY <1>1, <2>1 DEF Segment
  <2>4. PICK s : s = [recipe |-> "store", original |-> bytes, payload |-> stored]
    OBVIOUS
  <2>5. s.recipe = "store" /\ s.original = bytes /\ s.payload = stored
    BY <2>4
  <2>6. s \in SegmentSet
    BY <2>1, <2>4 DEF SegmentSet, RecipesOfV3
  <2>7. <<s.recipe, s.payload.coder, s.payload.kind>> \in Undoes
    BY <2>2, <2>5 DEF Undoes
  <2>8. QED
    BY <1>0, <2>2, <2>3, <2>4, <2>5, <2>6, <2>7 DEF Sound
<1>2. CASE ~(payload.size >= Len(bytes))
  <2>1. Segment(recipe, bytes, payload)
          = [recipe |-> recipe, original |-> bytes, payload |-> payload]
    BY <1>2 DEF Segment
  <2>2. /\ payload \in Payloads /\ payload.size > 0 /\ payload.bytes = bytes
        /\ payload.coder = coder /\ payload.kind = kind /\ payload.size \in Nat
    BY DEF IsCoded, Payloads
  <2>3. payload.size <= Len(bytes)
    BY <1>0, <1>2, <2>2
  <2>4. QED
    BY <2>1, <2>2, <2>3 DEF Sound, SegmentSet
<1>3. QED
  BY <1>1, <1>2

(* A frame of one segment for the whole source. *)
LEMMA OneSegment ==
  ASSUME NEW data \in Bytes, data # <<>>, NEW s, Sound(s, data)
  PROVE  /\ Packed(data, PackFrame(data, <<s>>))
         /\ FrameSize(PackFrame(data, <<s>>)) = s.payload.size + 1
<1>0. /\ Len(data) \in Nat /\ Len(data) > 0 /\ s \in SegmentSet /\ s.payload.size \in Nat
  BY DEF Bytes, Sound, SegmentSet, Payloads
<1>1. PICK segments \in Seq(SegmentSet) : segments = <<s>>
  <2>1. PICK S : S = SegmentSet
    OBVIOUS
  <2>2. s \in S
    BY <1>0, <2>1
  <2>3. <<s>> \in Seq(S)
    BY <2>2
  <2>4. QED
    BY <2>1, <2>3
<1>2. Len(segments) = 1 /\ segments[1] = s
  BY <1>1
<1>3. PICK edges : edges = [n \in 0..1 |-> IF n = 0 THEN 0 ELSE Len(data)]
  OBVIOUS
<1>4. edges \in [0..Len(segments) -> Nat] /\ edges[0] = 0 /\ edges[1] = Len(data)
  BY <1>0, <1>2, <1>3
<1>5. SubSeq(data, 1, Len(data)) = data
  BY SubSeqFull DEF Bytes
<1>6. Covers(data, segments, edges)
  <2>1. \A n \in 1..Len(segments) : n = 1
    BY <1>2
  <2>2. /\ edges[1 - 1] < edges[1] /\ edges[1] <= Len(data)
        /\ segments[1].original = SubSeq(data, edges[1 - 1] + 1, edges[1])
    BY <1>0, <1>2, <1>4, <1>5 DEF Sound
  <2>3. /\ segments[1].payload.bytes = segments[1].original
        /\ segments[1].payload.size > 0
        /\ <<segments[1].recipe, segments[1].payload.coder,
             segments[1].payload.kind>> \in Undoes
    BY <1>2 DEF Sound
  <2>4. QED
    BY <1>2, <1>4, <2>1, <2>2, <2>3 DEF Covers
<1>7. PICK body :
        /\ IsPackWalk(body, segments)
        /\ PackFrame(data, segments) =
             [magic |-> TRUE, version |-> 3, backend |-> "segmented",
              original |-> Len(data), hash |-> data, whole |-> "count",
              count |-> Len(segments), body |-> body[Len(segments)]]
  BY PackFrameIs
<1>8. FrameSize(PackFrame(data, segments)) = s.payload.size + 1
  <2>1. body[0] = <<>> /\ body[1] = PackTurn(s, body[0])
    BY <1>2, <1>7 DEF IsPackWalk
  <2>2. body[0] \in Seq(Headers \cup PayloadUnits) /\ Len(body[0]) = 0
    BY <1>2, <1>7 DEF IsPackWalk
  <2>3. Len(body[1]) = Len(body[0]) + 1 + s.payload.size
    BY <1>0, <2>1, <2>2, PackTurnIs
  <2>4. FrameSize(PackFrame(data, segments)) = Len(body[1])
    BY <1>2, <1>7 DEF FrameSize
  <2>5. QED
    BY <1>0, <2>2, <2>3, <2>4
<1>9. QED
  BY <1>1, <1>6, <1>8 DEF Packed


LEMMA DataType ==
  ASSUME CallsAssumption, source \in Sources
  PROVE  Data \in Bytes /\ Len(Data) \in Nat /\ (Data # <<>> => Len(Data) > 0)
<1>1. PICK data \in Seq(Nat \ {0}) : data = Data
  BY DEF CallsAssumption, Data
<1>2. Len(data) \in Nat /\ (data # <<>> => Len(data) > 0)
  OBVIOUS
<1>3. QED
  BY <1>1, <1>2 DEF Bytes

(* Half of a length, rounded up. *)
LEMMA Halves ==
  ASSUME NEW extent \in Nat
  PROVE  \E k \in Nat : /\ k = (extent + 2 - 1) \div 2
                        /\ 2 * k = extent \/ 2 * k = extent + 1
  OBVIOUS

LEMMA SegmentsCover ==
  ASSUME CallsAssumption, source \in Sources
  PROVE  \E edges : Covers(Data, Segments, edges)
<1>1. Data \in Bytes /\ Len(Data) \in Nat
  BY DataType
<1>2. PICK extent \in Nat : extent = Len(Data)
  BY <1>1
<1>3. PICK k \in Nat : /\ k = (extent + 2 - 1) \div 2
                       /\ 2 * k = extent \/ 2 * k = extent + 1
  BY <1>2, Halves
<1>4. PICK edges : edges = [n \in 0..k |-> IF n * 2 < extent THEN n * 2 ELSE extent]
  OBVIOUS
<1>5. edges \in [0..k -> Nat]
  BY <1>4
<1>6. edges[0] = 0 /\ edges[k] = extent
  BY <1>3, <1>4
<1>7. \A n \in 1..k : edges[n - 1] < edges[n] /\ edges[n] <= extent
  <2>1. TAKE n \in 1..k
  <2>2. (n - 1) * 2 < extent /\ n - 1 \in 0..k
    BY <1>3
  <2>3. edges[n - 1] = (n - 1) * 2
    BY <1>4, <2>2
  <2>4. edges[n] = IF n * 2 < extent THEN n * 2 ELSE extent
    BY <1>4
  <2>5. QED
    BY <2>2, <2>3, <2>4
<1>8. Segments = [n \in 1..k |-> EncodeSegment(SubSeq(Data, (n - 1) * 2 + 1,
                       IF n * 2 < extent THEN n * 2 ELSE extent))]
  BY <1>2, <1>3 DEF Segments, SegmentSize
<1>9. ASSUME NEW n \in 1..k
      PROVE  Sound(Segments[n], SubSeq(Data, edges[n - 1] + 1, edges[n]))
  <2>1. PICK from \in Nat \ {0}, to \in Nat : from = edges[n - 1] + 1 /\ to = edges[n]
    BY <1>5
  <2>2. from <= to /\ to <= Len(Data)
    BY <1>2, <1>5, <1>7, <2>1
  <2>3. PICK bytes : bytes = SubSeq(Data, from, to)
    OBVIOUS
  <2>4. Segments[n] = EncodeSegment(bytes)
    <3>1. (n - 1) * 2 < extent /\ n - 1 \in 0..k
      BY <1>3
    <3>2. from = (n - 1) * 2 + 1 /\ to = IF n * 2 < extent THEN n * 2 ELSE extent
      BY <1>4, <2>1, <3>1
    <3>3. QED
      BY <1>8, <2>3, <3>2
  <2>5. /\ bytes \in Bytes /\ bytes # <<>>
        /\ IsCoded(Coded("zstd", "delta", bytes), "zstd", "delta", bytes)
        /\ IsCoded(Coded("zstd", "data", bytes), "zstd", "data", bytes)
    BY <2>2, <2>3, CodedIs DEF Kinds
  <2>6. /\ Sound(Segment("delta", bytes, Coded("zstd", "delta", bytes)), bytes)
        /\ Sound(Segment("zstd", bytes, Coded("zstd", "data", bytes)), bytes)
    <3>1. /\ "delta" \in RecipesOfV3 /\ "zstd" \in RecipesOfV3
          /\ <<"delta", "zstd", "delta">> \in Undoes /\ <<"zstd", "zstd", "data">> \in Undoes
      BY DEF RecipesOfV3, Undoes
    <3>2. QED
      BY <2>5, <3>1, SegmentIsSound
  <2>7. Sound(EncodeSegment(bytes), bytes)
    BY <2>6 DEF EncodeSegment
  <2>8. QED
    BY <2>1, <2>3, <2>4, <2>7
<1>10. Segments \in Seq(SegmentSet) /\ Len(Segments) = k
  <2>1. \A n \in 1..k : Segments[n] \in SegmentSet
    BY <1>9 DEF Sound
  <2>2. PICK S : S = SegmentSet
    OBVIOUS
  <2>3. PICK list : list = Segments
    OBVIOUS
  <2>4. /\ list = [n \in 1..k |-> list[n]] /\ DOMAIN list = 1..k
        /\ \A n \in 1..k : list[n] \in S
    BY <1>8, <2>1, <2>2, <2>3
  <2>5. list \in [1..k -> S]
    BY <2>4
  <2>6. list \in Seq(S) /\ Len(list) = k
    BY <2>5
  <2>7. QED
    BY <2>2, <2>3, <2>6
<1>11. Covers(Data, Segments, edges)
  <2>1. ASSUME NEW n \in 1..k
        PROVE  /\ Segments[n].original = SubSeq(Data, edges[n - 1] + 1, edges[n])
               /\ Segments[n].payload.bytes = Segments[n].original
               /\ Segments[n].payload.size > 0
               /\ <<Segments[n].recipe, Segments[n].payload.coder,
                    Segments[n].payload.kind>> \in Undoes
    BY <1>9 DEF Sound
  <2>2. QED
    BY <1>2, <1>5, <1>6, <1>7, <1>10, <2>1 DEF Covers
<1>12. QED
  BY <1>11

(* Whichever candidate is chosen, it is sound, and longer than the source  *)
(* by no more than one segment header.                                     *)
Fits(f) == Packed(Data, f) /\ FrameSize(f) \in Nat /\ FrameSize(f) <= Len(Data) + 1

LEMMA WholeFits ==
  ASSUME CallsAssumption, source \in Sources, Data # <<>>
  PROVE  Data \in Bytes /\ Fits(WholeFrame)
<1>1. Data \in Bytes /\ Len(Data) \in Nat \ {0}
  BY DataType
<1>2. PICK data : data = Data
  OBVIOUS
<1>3. SubSeq(data, 1, Len(data)) = data
  BY <1>1, <1>2, SubSeqFull DEF Bytes
<1>4. IsCoded(Coded("zstd", "data", data), "zstd", "data", data)
  BY <1>1, <1>2, <1>3, CodedIs DEF Kinds
<1>5. PICK s : s = Segment("zstd", data, Coded("zstd", "data", data))
  OBVIOUS
<1>6. Sound(s, data) /\ s.payload.size <= Len(data)
  <2>1. "zstd" \in RecipesOfV3 /\ <<"zstd", "zstd", "data">> \in Undoes
    BY DEF RecipesOfV3, Undoes
  <2>2. QED
    BY <1>1, <1>2, <1>4, <1>5, <2>1, SegmentIsSound
<1>7. WholeFrame = PackFrame(data, <<s>>)
  BY <1>2, <1>5 DEF WholeFrame
<1>8. s.payload.size \in Nat
  BY <1>6 DEF Sound, SegmentSet, Payloads
<1>9. /\ Packed(data, PackFrame(data, <<s>>))
      /\ FrameSize(PackFrame(data, <<s>>)) = s.payload.size + 1
  BY <1>1, <1>2, <1>6, OneSegment
<1>10. QED
  BY <1>1, <1>2, <1>6, <1>7, <1>8, <1>9 DEF Fits

LEMMA SegmentedFits ==
  ASSUME CallsAssumption, source \in Sources
  PROVE  Data \in Bytes /\ Fits(SegmentedFrame)
<1>1. Data \in Bytes /\ Len(Data) \in Nat
  BY DataType
<1>2. PICK edges : Covers(Data, Segments, edges)
  BY SegmentsCover
<1>3. PICK segmented : segmented = PackFrame(Data, Segments)
  OBVIOUS
<1>4. Packed(Data, segmented)
  BY <1>2, <1>3 DEF Packed
<1>5. FrameSize(segmented) \in Nat
  <2>1. segmented \in FrameShapes
    BY <1>1, <1>4, WrittenShape
  <2>2. QED
    BY <2>1 DEF FrameShapes, FrameSize
<1>6. CASE Data = <<>>
  <2>1. Len(Segments) = 0 /\ Segments \in Seq(SegmentSet)
    BY <1>1, <1>2, <1>6, FewSegments DEF Covers
  <2>2. PICK body :
          /\ IsPackWalk(body, Segments)
          /\ PackFrame(Data, Segments) =
               [magic |-> TRUE, version |-> 3, backend |-> "segmented",
                original |-> Len(Data), hash |-> Data, whole |-> "count",
                count |-> Len(Segments), body |-> body[Len(Segments)]]
    BY <2>1, PackFrameIs
  <2>3. segmented.body = <<>>
    BY <1>3, <2>1, <2>2 DEF IsPackWalk
  <2>4. FrameSize(segmented) = 0
    BY <2>3 DEF FrameSize
  <2>5. SegmentedFrame = segmented
    BY <1>3, <1>6 DEF SegmentedFrame
  <2>6. QED
    BY <1>1, <1>4, <2>4, <2>5 DEF Fits
<1>7. CASE Data # <<>>
  <2>1. Fits(WholeFrame)
    BY <1>7, WholeFits
  <2>2. SegmentedFrame = IF FrameSize(WholeFrame) > FrameSize(segmented)
                         THEN segmented ELSE WholeFrame
    BY <1>3, <1>7 DEF SegmentedFrame
  <2>3. QED
    BY <1>1, <1>4, <1>5, <2>1, <2>2 DEF Fits
<1>8. QED
  BY <1>1, <1>6, <1>7

LEMMA StructuredFits ==
  ASSUME CallsAssumption, source \in Sources, Data # <<>>,
         NEW recipe \in {"text", "channel"}
  PROVE  Fits(StructuredFrame(recipe))
<1>1. Data \in Bytes /\ Len(Data) \in Nat \ {0}
  BY DataType
<1>2. PICK data : data = Data
  OBVIOUS
<1>3. SubSeq(data, 1, Len(data)) = data
  BY <1>1, <1>2, SubSeqFull DEF Bytes
<1>4. IsCoded(Coded("zstd", recipe, data), "zstd", recipe, data)
  BY <1>1, <1>2, <1>3, CodedIs DEF Kinds
<1>5. PICK payload : payload = Coded("zstd", recipe, data)
  OBVIOUS
<1>6. PICK s : s = [recipe |-> recipe, original |-> data, payload |-> payload]
  OBVIOUS
<1>7. Sound(s, data)
  <2>1. recipe \in RecipesOfV3 /\ <<recipe, "zstd", recipe>> \in Undoes
    BY DEF RecipesOfV3, Undoes
  <2>2. /\ payload \in Payloads /\ payload.size > 0 /\ payload.bytes = data
        /\ payload.coder = "zstd" /\ payload.kind = recipe
    BY <1>4, <1>5 DEF IsCoded
  <2>3. s.recipe = recipe /\ s.original = data /\ s.payload = payload
    BY <1>6
  <2>4. s \in SegmentSet
    BY <1>1, <1>2, <1>6, <2>1, <2>2 DEF SegmentSet
  <2>5. QED
    BY <2>1, <2>2, <2>3, <2>4 DEF Sound
<1>8. PICK structured : structured = PackFrame(data, <<s>>)
  OBVIOUS
<1>9. Packed(Data, structured) /\ FrameSize(structured) = s.payload.size + 1
  BY <1>1, <1>2, <1>7, <1>8, OneSegment
<1>10. FrameSize(structured) \in Nat
  BY <1>7, <1>9 DEF Sound, SegmentSet, Payloads
<1>11. StructuredFrame(recipe) =
         IF FrameSize(structured) < FrameSize(WholeFrame) THEN structured ELSE WholeFrame
  BY <1>2, <1>5, <1>6, <1>8 DEF StructuredFrame
<1>12. Fits(WholeFrame)
  BY WholeFits
<1>13. QED
  BY <1>1, <1>9, <1>10, <1>11, <1>12 DEF Fits


(* Frames of versions 1 and 2 are never longer than the source. *)
LegacyFits(f) == Legacy(Data, f) /\ FrameSize(f) \in Nat /\ FrameSize(f) <= Len(Data)

LEMMA LegacyWritten ==
  ASSUME NEW version, NEW backend, NEW payload,
         LegacyParts(Data, version, backend, payload), payload.size <= Len(Data)
  PROVE  LegacyFits(PackLegacy(version, backend, Data, payload))
<1>1. PICK f : f = PackLegacy(version, backend, Data, payload)
  OBVIOUS
<1>2. Legacy(Data, f)
  BY <1>1 DEF Legacy
<1>3. payload \in Payloads /\ payload.size \in Nat
  BY DEF LegacyParts, Payloads
<1>4. f.body = Units(payload)
  BY <1>1 DEF PackLegacy
<1>5. FrameSize(f) = payload.size
  BY <1>3, <1>4, UnitsType DEF FrameSize
<1>6. QED
  BY <1>1, <1>2, <1>3, <1>5 DEF LegacyFits

LEMMA StoredFits ==
  ASSUME CallsAssumption, source \in Sources, NEW version \in {1, 2}
  PROVE  LegacyFits(PackLegacy(version, "store", Data, Stored(Data)))
<1>1. Data \in Bytes /\ Len(Data) \in Nat /\ (Data # <<>> => Len(Data) > 0)
  BY DataType
<1>2. PICK data \in Bytes : data = Data
  BY <1>1
<1>3. PICK payload \in Payloads : payload = Stored(data)
  BY StoredIs
<1>4. /\ payload.size = Len(data) /\ payload.bytes = data
      /\ payload.coder = "none" /\ payload.kind = "data"
  BY <1>3, StoredIs
<1>5. "store" \in LegacyBackends[version] \ {"lz4"}
  BY DEF LegacyBackends
<1>6. <<"store", payload.coder, payload.kind>> \in Undoes
  BY <1>4 DEF Undoes
<1>7. data = <<>> => Len(data) = 0
  OBVIOUS
<1>8. LegacyParts(data, version, "store", payload)
  BY <1>1, <1>2, <1>4, <1>5, <1>6, <1>7 DEF LegacyParts
<1>9. payload.size <= Len(data)
  BY <1>1, <1>2, <1>4
<1>10. QED
  BY <1>2, <1>3, <1>8, <1>9, LegacyWritten

LEMMA CodedFits ==
  ASSUME CallsAssumption, source \in Sources, Data # <<>>,
         NEW version \in {1, 2}, NEW coder \in {"gzip", "zstd"}, NEW kind \in Kinds,
         NEW backend, backend \in LegacyBackends[version] \ {"lz4"},
         <<backend, coder, kind>> \in Undoes,
         ~(Coded(coder, kind, Data).size >= Len(Data))
  PROVE  LegacyFits(PackLegacy(version, backend, Data, Coded(coder, kind, Data)))
<1>1. Data \in Bytes /\ Len(Data) \in Nat /\ Len(Data) > 0
  BY DataType
<1>2. PICK data \in Bytes : data = Data
  BY <1>1
<1>3. SubSeq(data, 1, Len(data)) = data
  BY <1>1, <1>2, SubSeqFull DEF Bytes
<1>4. IsCoded(Coded(coder, kind, data), coder, kind, data)
  <2>1. PICK from \in Nat \ {0}, to \in Nat : from = 1 /\ to = Len(data)
    BY <1>1, <1>2
  <2>2. from <= to /\ to <= Len(Data) /\ data = SubSeq(Data, from, to)
    BY <1>1, <1>2, <1>3, <2>1
  <2>3. QED
    BY <2>2, CodedIs
<1>5. PICK payload : payload = Coded(coder, kind, data)
  OBVIOUS
<1>6. /\ payload \in Payloads /\ payload.size > 0 /\ payload.bytes = data
      /\ payload.coder = coder /\ payload.kind = kind /\ payload.size \in Nat
  BY <1>4, <1>5 DEF IsCoded, Payloads
<1>7. LegacyParts(data, version, backend, payload)
  BY <1>2, <1>6 DEF LegacyParts
<1>8. payload.size <= Len(data)
  BY <1>1, <1>2, <1>5, <1>6
<1>9. QED
  BY <1>2, <1>5, <1>7, <1>8, LegacyWritten
------------------------------------------------------------------------------
(* The inductive invariant: what the threads have written, and what is     *)
(* read: a frame with the digest of the source or of none, and, unless it  *)
(* was damaged, as it was written.                                         *)
FramesTypes ==
  /\ source \in Sources /\ phase \in {"write", "read"} /\ damaged \in BOOLEAN
  /\ DOMAIN call = Threads /\ raced \in [Threads -> BOOLEAN]
  /\ loader \in [Libraries -> {"new", "ready", "absent"} \cup Threads]
  /\ \A l \in Libraries : loader[l] = "absent" => l \notin host

Writes(c) ==
  /\ c.pc \in {"idle", "compress", "channels", "wrote", "failed"}
  /\ c.pc = "compress" => c.version \in 0..3
  /\ c.pc = "channels" => c.version = 3 /\ Data # <<>>
  /\ c.pc = "wrote" =>
       c.version \in 0..3 /\ IF c.version = 3 THEN Fits(c.frame) ELSE LegacyFits(c.frame)

Carried ==
  /\ frame \in FrameShapes /\ frame.hash \in {Data, <<0>>}
  /\ ~damaged => Packed(Data, frame) \/ Legacy(Data, frame)

(* What a call that has read says of the frame. *)
Reads(c, met) ==
  c.pc = "read" =>
    /\ IF c.result.ok
       THEN c.result.data = Data /\ Inspect(frame).ok /\ Inspect(frame).size = Len(Data)
       ELSE \/ damaged
            \/ c.result.why = "limit" /\ Len(Data) > c.limit
            \/ /\ c.result.why = "unavailable"
               /\ \/ met
                  \/ host \cap {"libzstd", "module", "zstd"} = {}
                  \/ "native" \notin host /\ "channel" \in {Inspect(frame).recipes[i] :
                                                     i \in DOMAIN Inspect(frame).recipes}

FramesInv ==
  /\ FramesTypes
  /\ phase = "write" => \A t \in Threads : Writes(call[t])
  /\ phase = "read" => /\ Carried
                       /\ \A t \in Threads : call[t].pc \in {"idle", "decode", "read"}
                       /\ \A t \in Threads : Reads(call[t], raced[t])

LEMMA FramesInvImplies ==
  ASSUME CallsAssumption, FramesInv
  PROVE  FramesReadBack /\ InspectAcceptsDecodable /\ BoundedExpansion
<1>0. Len(Data) \in Nat
  BY DataType DEF FramesInv, FramesTypes
<1>1. FramesReadBack
  BY DEF FramesReadBack, FramesInv, Reads, Done
<1>2. InspectAcceptsDecodable
  BY DEF InspectAcceptsDecodable, FramesInv, Reads, Done
<1>3. BoundedExpansion
  <2>1. ASSUME NEW t \in Threads, phase = "write", call[t].pc = "wrote"
        PROVE  FrameSize(call[t].frame) <= Len(Data) + IF call[t].version = 3 THEN 1 ELSE 0
    <3>1. Writes(call[t])
      BY <2>1 DEF FramesInv
    <3>2. QED
      BY <1>0, <2>1, <3>1 DEF Writes, Fits, LegacyFits
  <2>2. QED
    BY <2>1 DEF BoundedExpansion
<1>4. QED
  BY <1>1, <1>2, <1>3


LEMMA FramesInitially ==
  ASSUME CallsAssumption, FramesInit PROVE FramesInv
<1>1. FramesTypes
  <2>1. loader \in [Libraries -> {"new", "ready", "absent"} \cup Threads]
    BY DEF FramesInit, NewProcess
  <2>2. \A l \in Libraries : loader[l] # "absent"
    BY DEF FramesInit, NewProcess
  <2>3. raced \in [Threads -> BOOLEAN] /\ DOMAIN call = Threads
    BY DEF FramesInit
  <2>4. source \in Sources /\ phase \in {"write", "read"} /\ damaged \in BOOLEAN
    BY DEF FramesInit
  <2>5. QED
    BY <2>1, <2>2, <2>3, <2>4 DEF FramesTypes
<1>2. phase = "write" /\ \A t \in Threads : call[t] = Idle
  BY DEF FramesInit
<1>3. QED
  BY <1>1, <1>2 DEF FramesInv, Writes, Idle

(* What a call finds of its libraries when none of those it asks for is    *)
(* being loaded: each is there or it is not.                               *)
LEMMA LibrariesSettled ==
  ASSUME FramesTypes, NEW t \in Threads, Unloaded(t) = {}, ~Races(t),
         NEW i \in DOMAIN Asks(t), NEW library \in Libraries, library = Asks(t)[i]
  PROVE  loader[library] = "ready" \/ library \notin host
<1>1. loader[library] \in {"new", "ready", "absent"} \cup Threads
  BY DEF FramesTypes
<1>2. loader[library] \notin {"new", t}
  BY DEF Unloaded
<1>3. loader[library] \notin Threads \ {t}
  BY DEF Races
<1>4. QED
  BY <1>1, <1>2, <1>3 DEF FramesTypes

(* What a decoder that has asked for its libraries makes of the frame. *)
LEMMA DecodedWell ==
  ASSUME CallsAssumption, FramesInv, NEW t \in Threads, phase = "read",
         call[t].pc = "decode", Unloaded(t) = {}, NEW c, c.pc = "read",
         c.result = Decode(frame, Engines(t)), NEW met, Races(t) => met
  PROVE  Reads(c, met)
<1>0. /\ Data \in Bytes /\ Carried /\ frame \in FrameShapes /\ FramesTypes
      /\ Len(Data) \in Nat
  BY DataType DEF FramesInv, FramesTypes, Carried
<1>1. PICK engines : engines = Engines(t)
  OBVIOUS
<1>2. PICK result : result = Decode(frame, engines)
  OBVIOUS
<1>3. c.result = result
  BY <1>1, <1>2
<1>4. CASE result.ok
  <2>1. /\ result.data \in Bytes /\ result.data = frame.hash
        /\ Inspect(frame).ok /\ Inspect(frame).size = Len(result.data)
    BY <1>0, <1>2, <1>4, DecodableIsAccepted
  <2>2. result.data = Data
    BY <1>0, <2>1, ZeroDigest DEF Carried
  <2>3. QED
    BY <1>3, <1>4, <2>1, <2>2 DEF Reads
<1>5. CASE ~result.ok /\ ~damaged
  <2>0. "native" \in engines \/ met \/ "native" \notin host
    <3>1. 1 \in DOMAIN Asks(t) /\ Asks(t)[1] = "native"
      BY DEF Asks
    <3>2. QED
      BY <1>0, <1>1, <3>1, LibrariesSettled DEF Libraries, Engines, Sees
  <2>1. ASSUME frame.version # 1
        PROVE  \/ "zstd" \in engines \/ met
               \/ host \cap {"libzstd", "module", "zstd"} = {}
    <3>1. 2 \in DOMAIN Asks(t) /\ Asks(t)[2] = "libzstd"
      BY <2>1 DEF Asks
    <3>2. Races(t) \/ loader["libzstd"] = "ready" \/ "libzstd" \notin host
      BY <1>0, <3>1, LibrariesSettled DEF Libraries
    <3>3. QED
      BY <1>1, <3>2 DEF Engines, Sees
  <2>2. CASE Packed(Data, frame)
    <3>1. PICK segments, edges :
            Covers(Data, segments, edges) /\ frame = PackFrame(Data, segments)
      BY <2>2 DEF Packed
    <3>2. /\ Inspect(frame).recipes = [i \in 1..Len(segments) |-> segments[i].recipe]
          /\ \/ Decode(frame, engines).ok
             \/ /\ Decode(frame, engines) = Unavailable
                /\ \E n \in 1..Len(segments) : ~(Needs(segments[n].recipe) \subseteq engines)
      BY <1>0, <3>1, PackedIsRead
    <3>3. PICK n \in 1..Len(segments) : ~(Needs(segments[n].recipe) \subseteq engines)
      BY <1>2, <1>5, <3>2
    <3>4. result.why = "unavailable"
      BY <1>2, <1>5, <3>2 DEF Unavailable
    <3>5. PICK recipe : recipe = segments[n].recipe
      OBVIOUS
    <3>6. recipe \in RecipesOfV3
      <4>1. PICK s \in SegmentSet : s = segments[n]
        <5>1. PICK list, S : list = segments /\ S = SegmentSet
          OBVIOUS
        <5>2. list \in Seq(S) /\ n \in 1..Len(list)
          BY <3>1, <5>1 DEF Covers
        <5>3. list[n] \in S
          BY <5>2
        <5>4. QED
          BY <5>1, <5>3
      <4>2. QED
        BY <3>5, <4>1 DEF SegmentSet
    <3>7. recipe \in {Inspect(frame).recipes[i] : i \in DOMAIN Inspect(frame).recipes}
      BY <3>2, <3>5
    <3>8. \/ Needs(recipe) = {}
          \/ Needs(recipe) = {"zstd"}
          \/ Needs(recipe) = {"native", "zstd"} /\ recipe = "channel"
      BY <3>6 DEF RecipesOfV3, Needs
    <3>9. frame.version # 1
      <4>1. segments \in Seq(SegmentSet)
        BY <3>1 DEF Covers
      <4>2. PICK body :
              PackFrame(Data, segments) =
                [magic |-> TRUE, version |-> 3, backend |-> "segmented",
                 original |-> Len(Data), hash |-> Data, whole |-> "count",
                 count |-> Len(segments), body |-> body[Len(segments)]]
        BY <4>1, PackFrameIs
      <4>3. frame.version = 3
        BY <3>1, <4>2
      <4>4. QED
        BY <4>3
    <3>10. QED
      BY <1>3, <1>5, <2>0, <2>1, <3>3, <3>4, <3>5, <3>7, <3>8, <3>9 DEF Reads
  <2>3. CASE Legacy(Data, frame)
    <3>1. PICK version, backend, payload :
            /\ LegacyParts(Data, version, backend, payload)
            /\ frame = PackLegacy(version, backend, Data, payload)
      BY <2>3 DEF Legacy
    <3>2. \/ Decode(frame, engines).ok
          \/ /\ Decode(frame, engines) = Unavailable
             /\ ~(Needs(backend) \subseteq engines)
      BY <1>0, <3>1, LegacyIsRead
    <3>3. result.why = "unavailable" /\ ~(Needs(backend) \subseteq engines)
      BY <1>2, <1>5, <3>2 DEF Unavailable
    <3>4. frame.version = version
      BY <3>1 DEF PackLegacy
    <3>5. version = 1 => Needs(backend) = {}
      BY <3>1 DEF LegacyParts, LegacyBackends, Needs
    <3>6. Needs(backend) \subseteq {"zstd"}
      BY <3>1 DEF LegacyParts, LegacyBackends, Needs
    <3>7. "zstd" \notin engines /\ frame.version # 1
      BY <3>3, <3>4, <3>5, <3>6
    <3>8. QED
      BY <1>3, <1>5, <2>1, <3>3, <3>7 DEF Reads
  <2>4. QED
    BY <1>0, <1>5, <2>2, <2>3 DEF Carried
<1>6. CASE ~result.ok /\ damaged
  BY <1>3, <1>6 DEF Reads
<1>7. QED
  BY <1>4, <1>5, <1>6 DEF FramesInv, FramesTypes


(* A writer's step. *)
LEMMA WritesStay ==
  ASSUME source' = source, NEW c, Writes(c) PROVE Writes(c)'
<1>1. PICK data : data = Data /\ data = Data'
  BY DEF Data
<1>2. ASSUME NEW f, Fits(f) PROVE Fits(f)'
  BY <1>1, <1>2 DEF Fits, FrameSize, Packed
<1>3. ASSUME NEW f, LegacyFits(f) PROVE LegacyFits(f)'
  BY <1>1, <1>3 DEF LegacyFits, FrameSize, Legacy
<1>4. QED
  BY <1>1, <1>2, <1>3 DEF Writes

LEMMA ReadsStay ==
  ASSUME UNCHANGED <<source, host, frame, damaged>>, NEW c, NEW met, Reads(c, met)
  PROVE  Reads(c, met)'
  BY DEF Reads, Data

LEMMA CarriedStays ==
  ASSUME UNCHANGED <<source, frame, damaged>>, Carried PROVE Carried'
  BY DEF Carried, Data


(* Loading a library. *)
LEMMA LoadsKeep ==
  ASSUME CallsAssumption, FramesInv, NEW t \in Threads, StartLoad(t) \/ EndLoad(t)
  PROVE  FramesInv'
<1>1. UNCHANGED <<host, source, phase, call, raced, frame, damaged>>
  BY DEF StartLoad, EndLoad
<1>2. /\ loader' \in [Libraries -> {"new", "ready", "absent"} \cup Threads]
      /\ \A l \in Libraries : loader'[l] = "absent" => l \notin host
  <2>1. CASE StartLoad(t)
    <3>1. PICK i \in DOMAIN Asks(t) : loader' = [loader EXCEPT ![Asks(t)[i]] = t]
      BY <2>1 DEF StartLoad, Unloaded
    <3>2. t # "absent"
      BY DEF CallsAssumption
    <3>3. PICK l : l = Asks(t)[i]
      OBVIOUS
    <3>4. QED
      BY <3>1, <3>2, <3>3 DEF FramesInv, FramesTypes
  <2>2. CASE EndLoad(t)
    <3>1. PICK l \in Libraries :
            loader' = [loader EXCEPT ![l] = IF l \in host THEN "ready" ELSE "absent"]
      BY <2>2 DEF EndLoad
    <3>2. QED
      BY <3>1 DEF FramesInv, FramesTypes
  <2>3. QED
    BY <2>1, <2>2
<1>3. FramesTypes'
  BY <1>1, <1>2 DEF FramesInv, FramesTypes
<1>4. ASSUME phase' = "write", NEW u \in Threads PROVE Writes(call[u])'
  <2>1. Writes(call[u])
    BY <1>1, <1>4 DEF FramesInv
  <2>2. PICK c : c = call[u] /\ c = call'[u]
    BY <1>1
  <2>3. QED
    BY <1>1, <2>1, <2>2, WritesStay
<1>5. ASSUME phase' = "read", NEW u \in Threads PROVE Reads(call[u], raced[u])'
  <2>1. Reads(call[u], raced[u])
    BY <1>1, <1>5 DEF FramesInv
  <2>2. PICK c, met : c = call[u] /\ c = call'[u] /\ met = raced[u] /\ met = raced'[u]
    BY <1>1
  <2>3. Reads(c, met)'
    BY <1>1, <2>1, <2>2, ReadsStay
  <2>4. QED
    BY <2>2, <2>3
<1>6. phase' = "read" => /\ Carried'
                         /\ \A u \in Threads : call'[u].pc \in {"idle", "decode", "read"}
  BY <1>1, CarriedStays DEF FramesInv
<1>7. QED
  BY <1>3, <1>4, <1>5, <1>6 DEF FramesInv

(* One call of a writer or of a reader goes on. *)
Meets(t, met) == met \in BOOLEAN /\ raced' = [raced EXCEPT ![t] = met]

LEMMA WriterKeeps ==
  ASSUME FramesInv, NEW t \in Threads, phase = "write", NEW new, Writes(new),
         call' = [call EXCEPT ![t] = new], raced' \in [Threads -> BOOLEAN],
         UNCHANGED <<host, loader, source, phase, frame, damaged>>
  PROVE  FramesInv'
<1>1. FramesTypes'
  BY DEF FramesInv, FramesTypes
<1>2. ASSUME NEW u \in Threads PROVE Writes(call[u])'
  <2>1. PICK c : c = call'[u] /\ Writes(c)
    BY DEF FramesInv, FramesTypes
  <2>2. QED
    BY <2>1, WritesStay
<1>3. phase' = "write"
  OBVIOUS
<1>4. QED
  BY <1>1, <1>2, <1>3 DEF FramesInv

GoesOnReading(t, new, met) ==
  /\ new.pc \in {"idle", "decode", "read"} /\ Reads(new, met)
  /\ Meets(t, met) /\ call' = [call EXCEPT ![t] = new]
  /\ UNCHANGED <<host, loader, source, phase, frame, damaged>>

LEMMA ReaderKeeps ==
  ASSUME FramesInv, NEW t \in Threads, phase = "read",
         NEW new, NEW met0, GoesOnReading(t, new, met0)
  PROVE  FramesInv'
<1>0. /\ new.pc \in {"idle", "decode", "read"} /\ Reads(new, met0)
      /\ Meets(t, met0) /\ call' = [call EXCEPT ![t] = new]
      /\ UNCHANGED <<host, loader, source, phase, frame, damaged>>
  BY DEF GoesOnReading
<1>1. FramesTypes'
  BY <1>0 DEF FramesInv, FramesTypes, Meets
<1>2. ASSUME NEW u \in Threads PROVE Reads(call[u], raced[u])'
  <2>1. PICK c, met : c = call'[u] /\ met = raced'[u] /\ Reads(c, met)
    <3>1. CASE u = t
      BY <1>0, <3>1 DEF FramesInv, FramesTypes, Meets
    <3>2. CASE u # t
      BY <1>0, <3>2 DEF FramesInv, FramesTypes, Meets
    <3>3. QED
      BY <3>1, <3>2
  <2>2. Reads(c, met)'
    BY <1>0, <2>1, ReadsStay
  <2>3. QED
    BY <2>1, <2>2
<1>3. Carried' /\ phase' = "read"
  BY <1>0, CarriedStays DEF FramesInv
<1>4. \A u \in Threads : call'[u].pc \in {"idle", "decode", "read"}
  BY <1>0 DEF FramesInv, FramesTypes, Meets
<1>5. QED
  BY <1>1, <1>2, <1>3, <1>4 DEF FramesInv

LEMMA ContinueKeepsRaces ==
  ASSUME FramesTypes, NEW t \in Threads, NEW new, Continue(t, new)
  PROVE  /\ raced' \in [Threads -> BOOLEAN]
         /\ Unloaded(t) = {} /\ call' = [call EXCEPT ![t] = new]
         /\ UNCHANGED <<host, loader, source, phase, frame, damaged>>
         /\ \E met : Meets(t, met) /\ (Races(t) => met)
<1>1. /\ raced' = [raced EXCEPT ![t] = raced[t] \/ Races(t)]
      /\ Unloaded(t) = {} /\ call' = [call EXCEPT ![t] = new]
      /\ UNCHANGED <<host, loader, source, phase, frame, damaged>>
  BY DEF Continue
<1>2. PICK met \in BOOLEAN : met = (raced[t] \/ Races(t))
  BY DEF FramesTypes
<1>3. raced' = [raced EXCEPT ![t] = met] /\ (Races(t) => met)
  BY <1>1, <1>2
<1>4. raced' \in [Threads -> BOOLEAN]
  BY <1>3 DEF FramesTypes
<1>5. Meets(t, met) /\ (Races(t) => met)
  BY <1>3 DEF Meets
<1>6. QED
  BY <1>1, <1>4, <1>5

LEMMA StartCompressKeeps ==
  ASSUME FramesInv, NEW t \in Threads, StartCompress(t) PROVE FramesInv'
<1>1. PICK version \in 0..3 :
        /\ phase = "write"
        /\ call' = [call EXCEPT ![t] = [pc |-> "compress", version |-> version]]
        /\ UNCHANGED <<host, loader, source, phase, raced, frame, damaged>>
  BY DEF StartCompress
<1>2. PICK new : new = [pc |-> "compress", version |-> version]
  OBVIOUS
<1>3. Writes(new)
  BY <1>2 DEF Writes
<1>4. raced' \in [Threads -> BOOLEAN]
  BY <1>1 DEF FramesInv, FramesTypes
<1>5. QED
  BY <1>1, <1>2, <1>3, <1>4, WriterKeeps

(* A frame that was written is what was shown of it above. *)
LEMMA WroteIs ==
  ASSUME NEW t \in Threads, call[t].version \in 0..3, NEW written,
         IF call[t].version = 3 THEN Fits(written) ELSE LegacyFits(written)
  PROVE  Writes(Wrote(t, written))
<1>1. PICK c : c = Wrote(t, written)
  OBVIOUS
<1>2. c.pc = "wrote" /\ c.version = call[t].version /\ c.frame = written
  BY <1>1 DEF Wrote
<1>3. QED
  BY <1>1, <1>2 DEF Writes

LEMMA FailsIs == Writes(Fails)
  BY DEF Writes, Fails

LEMMA Compress3Keeps ==
  ASSUME CallsAssumption, FramesInv, NEW t \in Threads, Compress3(t) PROVE FramesInv'
<1>1. PICK new : /\ new = IF Data # <<>> /\ "zstd" \notin Engines(t) THEN Fails
                          ELSE IF source.text THEN [pc |-> "channels", version |-> 3]
                          ELSE Wrote(t, SegmentedFrame)
                 /\ Continue(t, new) /\ call[t].pc = "compress" /\ call[t].version = 3
  BY DEF Compress3
<1>2. phase = "write" /\ FramesTypes
  <2>1. FramesTypes
    BY DEF FramesInv
  <2>2. phase \in {"write", "read"}
    BY <2>1 DEF FramesTypes
  <2>3. phase # "read"
    BY <1>1 DEF FramesInv
  <2>4. QED
    BY <2>1, <2>2, <2>3
<1>3. Writes(new)
  <2>1. CASE Data # <<>> /\ "zstd" \notin Engines(t)
    BY <1>1, <2>1, FailsIs
  <2>2. CASE ~(Data # <<>> /\ "zstd" \notin Engines(t)) /\ source.text
    <3>1. new = [pc |-> "channels", version |-> 3]
      BY <1>1, <2>2
    <3>2. Data # <<>>
      BY <1>2, <2>2 DEF CallsAssumption, FramesTypes, Data
    <3>3. QED
      BY <3>1, <3>2 DEF Writes
  <2>3. CASE ~(Data # <<>> /\ "zstd" \notin Engines(t)) /\ ~source.text
    <3>1. new = Wrote(t, SegmentedFrame)
      BY <1>1, <2>3
    <3>2. Fits(SegmentedFrame)
      BY <1>2, SegmentedFits DEF FramesTypes
    <3>3. PICK written : written = SegmentedFrame
      OBVIOUS
    <3>4. Writes(Wrote(t, written))
      BY <1>1, <3>2, <3>3, WroteIs
    <3>5. QED
      BY <3>1, <3>3, <3>4
  <2>4. QED
    BY <2>1, <2>2, <2>3
<1>4. /\ raced' \in [Threads -> BOOLEAN] /\ call' = [call EXCEPT ![t] = new]
      /\ UNCHANGED <<host, loader, source, phase, frame, damaged>>
  BY <1>1, <1>2, ContinueKeepsRaces
<1>5. QED
  BY <1>2, <1>3, <1>4, WriterKeeps

LEMMA ChannelsKeeps ==
  ASSUME CallsAssumption, FramesInv, NEW t \in Threads, Channels(t) PROVE FramesInv'
<1>1. PICK recipe \in {"text", "channel"} :
        Continue(t, Wrote(t, StructuredFrame(recipe))) /\ call[t].pc = "channels"
  BY DEF Channels
<1>2. phase = "write" /\ FramesTypes
  <2>1. FramesTypes
    BY DEF FramesInv
  <2>2. phase \in {"write", "read"}
    BY <2>1 DEF FramesTypes
  <2>3. phase # "read"
    BY <1>1 DEF FramesInv
  <2>4. QED
    BY <2>1, <2>2, <2>3
<1>3. call[t].version = 3 /\ Data # <<>>
  BY <1>1, <1>2 DEF FramesInv, Writes
<1>4. PICK written : written = StructuredFrame(recipe)
  OBVIOUS
<1>5. PICK new : new = Wrote(t, written)
  OBVIOUS
<1>6. Fits(written)
  BY <1>2, <1>3, <1>4, StructuredFits DEF FramesTypes
<1>7. Writes(new)
  BY <1>3, <1>5, <1>6, WroteIs
<1>8. Continue(t, new)
  BY <1>1, <1>4, <1>5
<1>9. /\ raced' \in [Threads -> BOOLEAN] /\ call' = [call EXCEPT ![t] = new]
      /\ UNCHANGED <<host, loader, source, phase, frame, damaged>>
  BY <1>2, <1>8, ContinueKeepsRaces
<1>10. QED
  BY <1>2, <1>7, <1>9, WriterKeeps

LEMMA CompressLegacyKeeps ==
  ASSUME CallsAssumption, FramesInv, NEW t \in Threads, CompressLegacy(t) PROVE FramesInv'
<1>1. PICK version, pick, coder, kind, backend :
        /\ version = IF call[t].version < 2 THEN 1 ELSE 2
        /\ coder = IF version = 1 THEN "gzip" ELSE "zstd"
        /\ kind = IF pick = "delta" THEN "delta" ELSE "data"
        /\ backend = IF pick = "delta" THEN IF version = 1 THEN "delta gzip" ELSE "delta zstd"
                     ELSE coder
        /\ call[t].pc = "compress" /\ call[t].version < 3
        /\ Continue(t,
             IF Data = <<>> \/ pick = "store"
             THEN Wrote(t, PackLegacy(version, "store", Data, Stored(Data)))
             ELSE IF version = 2 /\ "zstd" \notin Engines(t) THEN Fails
             ELSE IF Coded(coder, kind, Data).size >= Len(Data)
             THEN Wrote(t, PackLegacy(version, "store", Data, Stored(Data)))
             ELSE Wrote(t, PackLegacy(version, backend, Data, Coded(coder, kind, Data))))
  BY Zenon DEF CompressLegacy
<1>2. phase = "write" /\ FramesTypes
  <2>1. FramesTypes
    BY DEF FramesInv
  <2>2. phase \in {"write", "read"}
    BY <2>1 DEF FramesTypes
  <2>3. phase # "read"
    BY <1>1 DEF FramesInv
  <2>4. QED
    BY <2>1, <2>2, <2>3
<1>3. call[t].version \in 0..3 /\ call[t].version # 3 /\ version \in {1, 2}
  <2>1. Writes(call[t])
    BY <1>2 DEF FramesInv
  <2>2. call[t].version \in 0..3
    BY <1>1, <2>1 DEF Writes
  <2>3. call[t].version < 3
    BY <1>1
  <2>4. version \in {1, 2}
    BY <1>1
  <2>5. QED
    BY <2>2, <2>3, <2>4
<1>4. PICK stored, coded : /\ stored = PackLegacy(version, "store", Data, Stored(Data))
                           /\ coded = PackLegacy(version, backend, Data, Coded(coder, kind, Data))
  OBVIOUS
<1>5. PICK new :
        /\ Continue(t, new)
        /\ \/ new = Wrote(t, stored)
           \/ new = Fails
           \/ /\ new = Wrote(t, coded)
              /\ Data # <<>> /\ ~(Coded(coder, kind, Data).size >= Len(Data))
  BY <1>1, <1>4
<1>6. Writes(new)
  <2>1. CASE new = Wrote(t, stored)
    <3>1. LegacyFits(stored)
      BY <1>2, <1>3, <1>4, StoredFits DEF FramesTypes
    <3>2. QED
      BY <1>3, <2>1, <3>1, WroteIs
  <2>2. CASE new = Fails
    BY <2>2, FailsIs
  <2>3. CASE /\ new = Wrote(t, coded)
             /\ Data # <<>> /\ ~(Coded(coder, kind, Data).size >= Len(Data))
    <3>1. coder \in {"gzip", "zstd"} /\ kind \in Kinds
      BY <1>1 DEF Kinds
    <3>2. /\ backend \in LegacyBackends[version] \ {"lz4"}
          /\ <<backend, coder, kind>> \in Undoes
      BY <1>1, <1>3 DEF LegacyBackends, Undoes
    <3>3. LegacyFits(coded)
      BY <1>2, <1>3, <1>4, <2>3, <3>1, <3>2, CodedFits DEF FramesTypes
    <3>4. QED
      BY <1>3, <2>3, <3>3, WroteIs
  <2>4. QED
    BY <1>5, <2>1, <2>2, <2>3
<1>7. /\ raced' \in [Threads -> BOOLEAN] /\ call' = [call EXCEPT ![t] = new]
      /\ UNCHANGED <<host, loader, source, phase, frame, damaged>>
  BY <1>2, <1>5, ContinueKeepsRaces
<1>8. QED
  BY <1>2, <1>6, <1>7, WriterKeeps


(* A frame on its way. *)
LEMMA CarryKeeps ==
  ASSUME CallsAssumption, FramesInv, Carry PROVE FramesInv'
<1>1. PICK t \in Threads :
        /\ phase = "write" /\ call[t].pc = "wrote"
        /\ \/ frame' = call[t].frame /\ damaged' = FALSE
           \/ frame' \in Damaged(call[t].frame) /\ damaged' = TRUE
        /\ phase' = "read" /\ loader' = NewProcess /\ source' = source
        /\ call' = [u \in Threads |-> Idle] /\ raced' = [u \in Threads |-> FALSE]
  BY DEF Carry
<1>2. FramesTypes'
  <2>1. /\ loader' \in [Libraries -> {"new", "ready", "absent"} \cup Threads]
        /\ \A l \in Libraries : loader'[l] # "absent"
    BY <1>1 DEF NewProcess
  <2>2. raced' \in [Threads -> BOOLEAN] /\ DOMAIN call' = Threads
    BY <1>1
  <2>3. source' \in Sources /\ phase' \in {"write", "read"} /\ damaged' \in BOOLEAN
    BY <1>1 DEF FramesInv, FramesTypes
  <2>4. QED
    BY <2>1, <2>2, <2>3 DEF FramesTypes
<1>3. PICK data \in Bytes : data = Data /\ data = Data'
  BY <1>1, DataType DEF FramesInv, FramesTypes, Data
<1>4. PICK written : written = call[t].frame
  OBVIOUS
<1>5. Packed(data, written) \/ Legacy(data, written)
  <2>1. Writes(call[t])
    BY <1>1 DEF FramesInv
  <2>2. QED
    BY <1>1, <1>3, <1>4, <2>1 DEF Writes, Fits, LegacyFits
<1>6. written \in FrameShapes /\ written.hash = data
  BY <1>5, WrittenShape
<1>7. Carried'
  <2>1. CASE frame' = written /\ damaged' = FALSE
    <3>1. frame' \in FrameShapes /\ frame'.hash = data
      BY <1>6, <2>1
    <3>2. Packed(data, frame') \/ Legacy(data, frame')
      BY <1>5, <2>1
    <3>3. QED
      BY <1>3, <3>1, <3>2 DEF Carried
  <2>2. CASE frame' \in Damaged(written) /\ damaged' = TRUE
    <3>1. PICK g \in Damaged(written) : g = frame'
      BY <2>2
    <3>2. g \in FrameShapes /\ g.hash \in {data, <<0>>}
      BY <1>6, DamagedShape
    <3>3. QED
      BY <1>3, <2>2, <3>1, <3>2 DEF Carried
  <2>3. QED
    BY <1>1, <1>4, <2>1, <2>2
<1>8. \A u \in Threads : call'[u].pc = "idle"
  BY <1>1 DEF Idle
<1>9. QED
  BY <1>1, <1>2, <1>7, <1>8 DEF FramesInv, Reads

LEMMA StartDecompressKeeps ==
  ASSUME CallsAssumption, FramesInv, NEW t \in Threads, StartDecompress(t) PROVE FramesInv'
<1>0. PICK limit \in Limits, by \in {"api", "codec"} :
        /\ phase = "read"
        /\ call' = [call EXCEPT ![t] =
             IF by = "codec" THEN [pc |-> "decode", by |-> by, limit |-> limit]
             ELSE IF ~Inspect(frame).ok THEN Read(by, limit, Invalid)
             ELSE IF limit # None /\ Inspect(frame).size > limit
             THEN Read(by, limit, [ok |-> FALSE, why |-> "limit"])
             ELSE [pc |-> "decode", by |-> by, limit |-> limit]]
        /\ UNCHANGED <<host, loader, source, phase, raced, frame, damaged>>
  BY Zenon DEF StartDecompress
<1>1. PICK new :
        /\ phase = "read"
        /\ call' = [call EXCEPT ![t] = new]
        /\ new = IF by = "codec" THEN [pc |-> "decode", by |-> by, limit |-> limit]
                 ELSE IF ~Inspect(frame).ok THEN Read(by, limit, Invalid)
                 ELSE IF limit # None /\ Inspect(frame).size > limit
                 THEN Read(by, limit, [ok |-> FALSE, why |-> "limit"])
                 ELSE [pc |-> "decode", by |-> by, limit |-> limit]
        /\ UNCHANGED <<host, loader, source, phase, raced, frame, damaged>>
  BY <1>0
<1>2. FramesTypes /\ Carried /\ Data \in Bytes
  BY <1>1, DataType DEF FramesInv, FramesTypes
<1>3. PICK met : Meets(t, met)
  BY <1>1, <1>2 DEF FramesTypes, Meets
<1>4. \/ damaged
      \/ Inspect(frame).ok /\ Inspect(frame).size = Len(Data)
  <2>1. ASSUME Packed(Data, frame) PROVE Inspect(frame).ok /\ Inspect(frame).size = Len(Data)
    BY <1>2, <2>1, PackedIsRead DEF Packed
  <2>2. ASSUME Legacy(Data, frame) PROVE Inspect(frame).ok /\ Inspect(frame).size = Len(Data)
    BY <1>2, <2>2, LegacyIsRead DEF Legacy
  <2>3. QED
    BY <1>2, <2>1, <2>2 DEF Carried
<1>5. new.pc \in {"idle", "decode", "read"} /\ Reads(new, met)
  <2>1. CASE new = [pc |-> "decode", by |-> by, limit |-> limit]
    BY <2>1 DEF Reads
  <2>2. CASE new = Read(by, limit, Invalid) /\ ~Inspect(frame).ok
    <3>1. new.pc = "read" /\ new.result = Invalid
      BY <2>2 DEF Read
    <3>2. ~new.result.ok /\ damaged
      BY <1>4, <2>2, <3>1 DEF Invalid
    <3>3. QED
      BY <3>1, <3>2 DEF Reads
  <2>3. CASE /\ new = Read(by, limit, [ok |-> FALSE, why |-> "limit"])
             /\ Inspect(frame).size > limit
    <3>1. /\ new.pc = "read" /\ new.limit = limit
          /\ new.result = [ok |-> FALSE, why |-> "limit"]
      BY <2>3 DEF Read
    <3>2. ~new.result.ok /\ new.result.why = "limit"
      BY <3>1
    <3>3. damaged \/ Len(Data) > new.limit
      BY <1>4, <2>3, <3>1
    <3>4. QED
      BY <3>1, <3>2, <3>3 DEF Reads
  <2>4. QED
    BY <1>1, <2>1, <2>2, <2>3
<1>6. GoesOnReading(t, new, met)
  BY <1>1, <1>3, <1>5 DEF GoesOnReading
<1>7. QED
  BY <1>1, <1>6, ReaderKeeps

LEMMA DecodeFrameKeeps ==
  ASSUME CallsAssumption, FramesInv, NEW t \in Threads, DecodeFrame(t) PROVE FramesInv'
<1>1. PICK new : /\ new = Read(call[t].by, call[t].limit, Decode(frame, Engines(t)))
                 /\ Continue(t, new) /\ call[t].pc = "decode"
  BY DEF DecodeFrame
<1>2. phase = "read" /\ FramesTypes
  <2>1. FramesTypes
    BY DEF FramesInv
  <2>2. phase \in {"write", "read"}
    BY <2>1 DEF FramesTypes
  <2>3. phase # "write"
    BY <1>1 DEF FramesInv, Writes
  <2>4. QED
    BY <2>1, <2>2, <2>3
<1>3. /\ Unloaded(t) = {} /\ call' = [call EXCEPT ![t] = new]
      /\ UNCHANGED <<host, loader, source, phase, frame, damaged>>
  BY <1>1, <1>2, ContinueKeepsRaces
<1>4. PICK met : Meets(t, met) /\ (Races(t) => met)
  BY <1>1, <1>2, ContinueKeepsRaces
<1>5. new.pc = "read" /\ new.result = Decode(frame, Engines(t))
  BY <1>1 DEF Read
<1>6. Reads(new, met)
  BY <1>1, <1>2, <1>3, <1>4, <1>5, DecodedWell
<1>7. QED
  <2>1. new.pc \in {"idle", "decode", "read"}
    BY <1>5
  <2>2. /\ phase = "read" /\ Meets(t, met) /\ call' = [call EXCEPT ![t] = new]
        /\ UNCHANGED <<host, loader, source, phase, frame, damaged>>
    BY <1>2, <1>3, <1>4
  <2>3. GoesOnReading(t, new, met)
    BY <1>6, <2>1, <2>2 DEF GoesOnReading
  <2>4. QED
    BY <1>2, <2>3, ReaderKeeps

LEMMA FramesStep ==
  ASSUME CallsAssumption, FramesInv, [FramesNext]_frameVars PROVE FramesInv'
<1>1. CASE Carry
  BY <1>1, CarryKeeps
<1>2. CASE \E t \in Threads :
             \/ StartLoad(t) \/ EndLoad(t)
             \/ StartCompress(t) \/ Compress3(t) \/ Channels(t) \/ CompressLegacy(t)
             \/ StartDecompress(t) \/ DecodeFrame(t)
  BY <1>2, LoadsKeep, StartCompressKeeps, Compress3Keeps, ChannelsKeeps,
     CompressLegacyKeeps, StartDecompressKeeps, DecodeFrameKeeps
<1>3. CASE UNCHANGED frameVars
  <2>1. UNCHANGED <<host, loader, source, phase, call, raced, frame, damaged>>
    BY <1>3 DEF frameVars
  <2>2. FramesTypes'
    BY <2>1 DEF FramesInv, FramesTypes
  <2>3. ASSUME phase' = "write", NEW u \in Threads PROVE Writes(call[u])'
    <3>1. PICK c : c = call[u] /\ c = call'[u] /\ Writes(c)
      BY <2>1, <2>3 DEF FramesInv
    <3>2. QED
      BY <2>1, <3>1, WritesStay
  <2>4. ASSUME phase' = "read", NEW u \in Threads PROVE Reads(call[u], raced[u])'
    <3>1. PICK c, met : /\ c = call[u] /\ c = call'[u] /\ met = raced[u] /\ met = raced'[u]
                        /\ Reads(c, met)
      BY <2>1, <2>4 DEF FramesInv
    <3>2. Reads(c, met)'
      BY <2>1, <3>1, ReadsStay
    <3>3. QED
      BY <3>1, <3>2
  <2>5. phase' = "read" => /\ Carried'
                           /\ \A u \in Threads : call'[u].pc \in {"idle", "decode", "read"}
    BY <2>1, CarriedStays DEF FramesInv
  <2>6. QED
    BY <2>2, <2>3, <2>4, <2>5 DEF FramesInv
<1>4. QED
  BY <1>1, <1>2, <1>3 DEF FramesNext

THEOREM FramesInvariant == ASSUME CallsAssumption PROVE FramesSpec => []FramesInv
<1>1. FramesInit => FramesInv
  BY FramesInitially
<1>2. FramesInv /\ [FramesNext]_frameVars => FramesInv'
  BY FramesStep
<1>3. QED
  BY <1>1, <1>2, PTL DEF FramesSpec

(* Whatever a call reads is the source the frame was written from, and a   *)
(* frame that no one damaged is read unless the caller allows less output  *)
(* or the host lacks what its recipe needs.                                *)
THEOREM FramesAreReadBack == ASSUME CallsAssumption PROVE FramesSpec => []FramesReadBack
<1>1. FramesInv => FramesReadBack
  BY FramesInvImplies
<1>2. QED
  BY <1>1, FramesInvariant, PTL

(* inspect_frame refuses no frame that adaptive_v3.decompress decodes, and *)
(* reports the size that comes out.                                        *)
THEOREM InspectAgrees == ASSUME CallsAssumption PROVE FramesSpec => []InspectAcceptsDecodable
<1>1. FramesInv => InspectAcceptsDecodable
  BY FramesInvImplies
<1>2. QED
  BY <1>1, FramesInvariant, PTL

(* No candidate makes a frame longer than the source and one header. *)
THEOREM ExpansionIsBounded == ASSUME CallsAssumption PROVE FramesSpec => []BoundedExpansion
<1>1. FramesInv => BoundedExpansion
  BY FramesInvImplies
<1>2. QED
  BY <1>1, FramesInvariant, PTL
==============================================================================
