------------------------------- MODULE TabularProofs -------------------------------
(***************************************************************************)
(* compress_stream, decompress_stream and the two one after the other, for *)
(* sources, chunks, pools and streams of any size, any change to the       *)
(* source and any exchange of the file:                                    *)
(*   - the bound on what compress_stream holds in memory,                  *)
(*   - what decompress_stream publishes and what it refuses,               *)
(*   - what was compressed is restored.                                    *)
(***************************************************************************)
EXTENDS TabularRoundTrip, Sums, TLAPS

--------------------------------------------------------------------------------
(* compress_stream: the bound on what it holds in memory.                  *)

(* The deque holds what was read and is not written; a chunk is at least   *)
(* one byte, and no read starts on a full deque.                           *)
InFlightInv ==
  /\ Len(sizes) <= position
  /\ ~raised => Len(sizes) - Len(frames) = Len(pending)
  /\ Len(pending) <= workers
  /\ pc \in {"stat", "read"} => Len(pending) < workers

IInv == TypeOK /\ InFlightInv

LEMMA InitIInv == ASSUME CompressStreamAssumption PROVE Init => IInv
<1> SUFFICES ASSUME CompressStreamAssumption, Init PROVE IInv
  OBVIOUS
<1>1. PICK n \in 1..MaxConcurrency : PoolInit(n)
  BY DEF Init
<1>2. PoolTypeOK /\ workers \in 1..MaxConcurrency
  BY <1>1 DEF PoolInit, PoolTypeOK, TaskStates, CompressStreamAssumption
<1>3. pending = <<>> /\ frames = <<>> /\ sizes = <<>>
  BY DEF Init
<1>4. TypeOK
  <2>1. /\ pending \in Seq(Tasks) /\ frames \in Seq(Tasks)
        /\ sizes \in Seq(1..(Target + Slack))
    BY <1>3
  <2>2. /\ size \in 0..MaxSize /\ changes \in 0..MaxChanges
        /\ measured \in 0..MaxSize /\ position \in 0..MaxSize
    BY DEF Init, CompressStreamAssumption
  <2>3. /\ kinds \subseteq {"grew", "shrank"}
        /\ pc = "stat" /\ raised \in BOOLEAN /\ temp \in BOOLEAN
    BY DEF Init
  <2>4. workers <= MaxConcurrency
    BY <1>2 DEF CompressStreamAssumption
  <2>5. QED
    BY <1>2, <2>1, <2>2, <2>3, <2>4 DEF TypeOK
<1>5. InFlightInv
  BY <1>2, <1>3 DEF Init, InFlightInv, CompressStreamAssumption
<1>6. QED
  BY <1>4, <1>5 DEF IInv

(* A turn of _record_aligned_chunks returns something, within the source.  *)
LEMMA ChunkIsSome ==
  ASSUME CompressStreamAssumption, TypeOK, position < size, NEW n \in ChunkSizes
  PROVE  n \in 1..(Target + Slack) /\ position + n <= size
<1> DEFINE head == Smaller(Target, size - position)
<1>1. size \in 0..MaxSize /\ position \in Nat /\ MaxSize \in Nat
      /\ Target \in Nat \ {0} /\ Slack \in Nat
  BY DEF CompressStreamAssumption, TypeOK
<1>2. head \in 1..Target /\ head <= size - position
  BY <1>1 DEF Smaller
<1>3. CASE n = head
  BY <1>1, <1>2, <1>3
<1>4. CASE n # head
  <2> HIDE DEF head
  <2>1. PICK tail \in 0..Smaller(Slack, size - position - head) : n = head + tail
    BY <1>4 DEF ChunkSizes, head
  <2>2. tail \in 0..Slack /\ tail <= size - position - head
    BY <1>1, <1>2, <2>1 DEF Smaller
  <2>3. QED
    BY <1>1, <1>2, <2>1, <2>2
<1>5. QED
  BY <1>3, <1>4

LEMMA Reads ==
  ASSUME CompressStreamAssumption, IInv, ReadChunk PROVE IInv'
<1> USE DEF IInv, TypeOK, PoolTypeOK, CompressStreamAssumption
<1>1. PICK n \in ChunkSizes : position' = position + n /\ sizes' = Append(sizes, n)
  BY DEF ReadChunk
<1>2. n \in 1..(Target + Slack) /\ position' <= size
  BY <1>1, ChunkIsSome DEF ReadChunk
<1>3. /\ position' \in 0..MaxSize /\ sizes' \in Seq(1..(Target + Slack))
      /\ Len(sizes') = Len(sizes) + 1 /\ Len(sizes') <= position'
  BY <1>1, <1>2 DEF InFlightInv
<1>4. Len(sizes') \in Tasks
  BY <1>3 DEF Tasks
<1> DEFINE t == Len(sizes')
<1>5. /\ pending' \in Seq(Tasks) /\ Len(pending') = Len(pending) + 1
      /\ queue' \in Seq(Tasks) /\ task' \in [Tasks -> TaskStates]
      /\ UNCHANGED <<workers, size, changes, kinds, measured, raised, frames, temp>>
  <2>1. /\ pending' = Append(pending, t) /\ queue' = Append(queue, t)
        /\ task' = [task EXCEPT ![t] = "queued"]
        /\ UNCHANGED <<workers, size, changes, kinds, measured, raised, frames, temp>>
    BY DEF ReadChunk, Submit
  <2>2. t \in Tasks
    BY <1>4
  <2> HIDE DEF t
  <2>3. pending' \in Seq(Tasks) /\ Len(pending') = Len(pending) + 1
    BY <2>1, <2>2
  <2>4. queue' \in Seq(Tasks)
    BY <2>1, <2>2
  <2>5. task' \in [Tasks -> TaskStates]
    BY <2>1, <2>2 DEF TaskStates
  <2>6. QED
    BY <2>1, <2>3, <2>4, <2>5
<1>6. /\ pc = "read" /\ pc' \in {"flush", "read"}
      /\ pc' = "read" => Len(pending') < workers
  BY <1>5 DEF ReadChunk
<1>7. TypeOK'
  BY <1>3, <1>5, <1>6
<1>8. InFlightInv'
  <2>1. Len(pending) < workers /\ Len(pending') \in Nat /\ Len(frames') \in Nat
    BY <1>5, <1>6 DEF InFlightInv
  <2>2. ~raised' => Len(sizes') - Len(frames') = Len(pending')
    BY SMTT(30), <1>3, <1>5 DEF InFlightInv
  <2>3. QED
    BY <1>3, <1>5, <1>6, <2>1, <2>2 DEF InFlightInv
<1>9. QED
  BY <1>7, <1>8

LEMMA Writes ==
  ASSUME IInv, WriteNext \/ WriteNextRaises PROVE IInv'
<1> USE DEF IInv, TypeOK, PoolTypeOK
<1>1. /\ pending # <<>> /\ pending' = Tail(pending)
      /\ UNCHANGED <<poolVars, size, changes, kinds, measured, position, sizes,
                     header, temp, dest>>
  BY DEF WriteNext, WriteNextRaises
<1>2. /\ pending' \in Seq(Tasks) /\ Len(pending') = Len(pending) - 1
      /\ Head(pending) \in Tasks
  BY <1>1
<1>3. CASE WriteNext
  <2>1. frames' \in Seq(Tasks) /\ Len(frames') = Len(frames) + 1
    BY <1>2, <1>3 DEF WriteNext
  <2>2. UNCHANGED raised /\ pc' \in {"read", "drain"}
    BY <1>3 DEF WriteNext
  <2>3. QED
    BY <1>1, <1>2, <2>1, <2>2 DEF InFlightInv, poolVars
<1>4. CASE WriteNextRaises
  BY <1>1, <1>2, <1>4 DEF WriteNextRaises, InFlightInv, poolVars
<1>5. QED
  BY <1>3, <1>4

LEMMA PoolSteps ==
  ASSUME IInv, TaskStarts \/ TaskEnds PROVE IInv'
<1> USE DEF IInv, TypeOK, PoolTypeOK
<1>1. UNCHANGED mainVars /\ UNCHANGED workers
  BY DEF TaskStarts, TaskEnds, StartTask, FinishTask
<1>2. queue' \in Seq(Tasks)
  <2>1. CASE TaskStarts
    BY <2>1 DEF TaskStarts, StartTask
  <2>2. CASE TaskEnds
    BY <2>2 DEF TaskEnds, FinishTask
  <2>3. QED
    BY <2>1, <2>2
<1>3. task' \in [Tasks -> TaskStates]
  BY DEF TaskStarts, TaskEnds, StartTask, FinishTask, TaskStates
<1>4. QED
  BY <1>1, <1>2, <1>3 DEF mainVars, InFlightInv

LEMMA NextIInv ==
  ASSUME CompressStreamAssumption PROVE IInv /\ [Next]_vars => IInv'
<1> SUFFICES ASSUME IInv, [Next]_vars PROVE IInv'
  OBVIOUS
<1> USE DEF IInv, poolVars
<1>1. CASE Stat
  BY <1>1 DEF Stat, TypeOK, PoolTypeOK, InFlightInv
<1>2. CASE EndOfSource \/ ReadRaises \/ Drained
  BY <1>2 DEF EndOfSource, ReadRaises, Drained, TypeOK, PoolTypeOK, InFlightInv
<1>3. CASE Join \/ CheckSize \/ FinishRaises \/ Cleanup
  BY <1>3 DEF Join, CheckSize, FinishRaises, Cleanup, TypeOK, PoolTypeOK, InFlightInv
<1>4. CASE PatchHeader \/ Replace
  BY <1>4 DEF PatchHeader, Replace, TypeOK, PoolTypeOK, InFlightInv
<1>5. CASE SourceChanges
  <2>1. /\ changes' \in 0..MaxChanges /\ size' \in 0..MaxSize
        /\ kinds' \subseteq {"grew", "shrank"}
    BY <1>5 DEF SourceChanges, TypeOK, CompressStreamAssumption
  <2>2. UNCHANGED <<poolVars, measured, position, sizes, pc, raised, pending,
                    frames, header, temp, dest>>
    BY <1>5 DEF SourceChanges
  <2>3. QED
    BY <2>1, <2>2 DEF TypeOK, PoolTypeOK, InFlightInv
<1>6. CASE UNCHANGED vars
  BY <1>6 DEF vars, mainVars, TypeOK, PoolTypeOK, InFlightInv
<1>7. QED
  BY <1>1, <1>2, <1>3, <1>4, <1>5, <1>6, Reads, Writes, PoolSteps
     DEF Next, Main, Ended

(* Every reachable state is one of IInv.                                   *)
THEOREM Invariant == ASSUME CompressStreamAssumption PROVE Spec => []IInv
  BY InitIInv, NextIInv, PTL DEF Spec

(* The variables of compress_stream keep their types: no more chunks are   *)
(* submitted than the source has bytes, whatever becomes of the source.    *)
THEOREM TypeCorrect == ASSUME CompressStreamAssumption PROVE Spec => []TypeOK
  BY Invariant, PTL DEF IInv

(* At most as many chunks as the pool has threads are read and not yet     *)
(* written, however the tasks end and whatever becomes of the source.      *)
THEOREM MemoryBounded ==
  ASSUME CompressStreamAssumption PROVE Spec => []BoundedInFlight
<1>1. IInv => BoundedInFlight
  BY DEF IInv, InFlightInv, BoundedInFlight, InFlight
<1>2. QED
  BY <1>1, Invariant, PTL
--------------------------------------------------------------------------------
(* The sums of sizes that headers declare and both functions check.        *)

(* TotalOf adds the sizes one by one. *)
LEMMA TotalIsSum ==
  ASSUME NEW list
  PROVE  \E f : Adds(f, list) /\ \A n : TotalOf(list, n) = f[n]
<1> DEFINE sum == CHOOSE f : IsSum(f, list)
<1>1. IsSum(sum, list)
  BY SumExists, Zenon
<1>2. \A n : TotalOf(list, n) = sum[n]
  BY Zenon DEF TotalOf, IsSum
<1> HIDE DEF sum
<1>3. Adds(sum, list)
  BY <1>1, SumAdds
<1>4. QED
  BY <1>2, <1>3

LEMMA TotalUnfolds ==
  ASSUME NEW list
  PROVE  /\ TotalOf(list, 0) = 0
         /\ \A n \in Nat : TotalOf(list, n + 1) = TotalOf(list, n) + list[n + 1]
<1>1. PICK f : Adds(f, list) /\ \A n : TotalOf(list, n) = f[n]
  BY TotalIsSum
<1>2. QED
  BY <1>1 DEF Adds

(* Only the first n sizes count. *)
LEMMA TotalOfSame ==
  ASSUME NEW one, NEW other, NEW n \in Nat, \A i \in 1..n : one[i] = other[i]
  PROVE  TotalOf(one, n) = TotalOf(other, n)
<1>1. PICK f : Adds(f, one) /\ \A m : TotalOf(one, m) = f[m]
  BY TotalIsSum
<1>2. PICK g : Adds(g, other) /\ \A m : TotalOf(other, m) = g[m]
  BY TotalIsSum
<1>3. f[n] = g[n]
  BY <1>1, <1>2, SumOfSame
<1>4. QED
  BY <1>1, <1>2, <1>3

(* Longer prefixes weigh at least as much. *)
LEMMA TotalOfGrows ==
  ASSUME NEW list, NEW n \in Nat, \A i \in 1..n : list[i] \in Nat
  PROVE  \A m \in 0..n : TotalOf(list, m) \in Nat /\ TotalOf(list, m) <= TotalOf(list, n)
<1>1. PICK f : Adds(f, list) /\ \A m : TotalOf(list, m) = f[m]
  BY TotalIsSum
<1>2. \A m \in 0..n : f[m] \in Nat /\ f[m] <= f[n]
  BY <1>1, SumGrows
<1>3. QED
  BY <1>1, <1>2

--------------------------------------------------------------------------------
(* compress_stream: what it publishes.                                     *)

(* Chunks become frames in the order they were read, and none is lost      *)
(* before an exception is on its way.                                      *)
Ordered ==
  /\ Len(frames) <= Len(sizes)
  /\ \A i \in 1..Len(frames) : frames[i] = i
  /\ ~raised => \A i \in 1..Len(pending) : pending[i] = Len(frames) + i
  /\ pc = "join" /\ ~raised => pending = <<>>
  /\ pc \in {"check", "patch", "replace", "ok"} => ~raised /\ pending = <<>>
  /\ raised => pc \in {"join", "cleanup", "error"}

(* A chunk below the target met the end of the source.  One that did and   *)
(* is not the last was followed by growth, and unless the source shrank as *)
(* well more than the measured bytes were read.                            *)
Interior == 1..(Len(sizes) - 1)
Measuring ==
  /\ pc = "stat" => kinds = {} /\ sizes = <<>>
  /\ pc # "stat" /\ "shrank" \notin kinds => measured <= size
  /\ sizes # <<>> /\ sizes[Len(sizes)] < Target =>
       /\ "grew" \notin kinds => size <= position
       /\ "shrank" \notin kinds => measured <= position
  /\ (\E i \in Interior : sizes[i] < Target) =>
       /\ "grew" \in kinds
       /\ "shrank" \notin kinds => measured < position

(* Chunks of at least the target each make up the position. *)
Counted ==
  /\ position = TotalOf(sizes, Len(sizes))
  /\ (sizes # <<>> /\ \A i \in Interior : sizes[i] >= Target) =>
       position >= (Len(sizes) - 1) * Target + sizes[Len(sizes)]

Real == [original |-> TotalOf(sizes, Len(sizes)), payload |-> frames,
         count |-> Len(frames)]

Finished ==
  /\ pc \in {"patch", "replace", "ok"} => position = measured
  /\ pc = "replace" => header = Real
  /\ IF pc = "ok"
     THEN dest = [header |-> Real, frames |-> frames, sizes |-> sizes, new |-> TRUE]
     ELSE dest = Old

CInv == Ordered /\ Measuring /\ Counted /\ Finished
LEMMA InitCInv == ASSUME CompressStreamAssumption PROVE Init => CInv
<1> SUFFICES ASSUME Init PROVE CInv
  OBVIOUS
<1>1. /\ sizes = <<>> /\ frames = <<>> /\ pending = <<>> /\ Len(sizes) = 0
      /\ position = 0 /\ kinds = {} /\ pc = "stat" /\ raised = FALSE /\ dest = Old
  BY DEF Init
<1>2. TotalOf(sizes, 0) = 0
  BY TotalUnfolds
<1>3. QED
  BY <1>1, <1>2 DEF CInv, Ordered, Measuring, Counted, Finished, Interior

(* One more chunk adds its size to the sum and to the position. *)
LEMMA ReadsCInv ==
  ASSUME CompressStreamAssumption, IInv, CInv, ReadChunk PROVE CInv'
<1> USE DEF IInv, TypeOK, PoolTypeOK, CompressStreamAssumption
<1> DEFINE L == Len(sizes)
<1>1. PICK n \in ChunkSizes : position' = position + n /\ sizes' = Append(sizes, n)
  BY DEF ReadChunk
<1>2. n \in 1..(Target + Slack) /\ position + n <= size
  BY ChunkIsSome DEF ReadChunk
<1>3. n < Target => position + n = size
  <2>1. CASE n = Smaller(Target, size - position)
    BY <1>2, <2>1 DEF Smaller
  <2>2. CASE n # Smaller(Target, size - position)
    <3>1. Smaller(Target, size - position) = Target
      BY <2>2 DEF ChunkSizes
    <3>2. PICK tail \in 0..Smaller(Slack, size - position - Target) : n = Target + tail
      BY <2>2, <3>1 DEF ChunkSizes
    <3>3. QED
      BY <3>2 DEF Smaller
  <2>3. QED
    BY <2>1, <2>2
<1>4. /\ L \in Nat /\ Len(sizes') = L + 1 /\ sizes'[L + 1] = n
      /\ \A i \in 1..L : sizes'[i] = sizes[i] /\ sizes[i] \in Nat
      /\ sizes' # <<>> /\ Interior' = 1..L
  <2>1. /\ L \in Nat /\ Len(sizes') = L + 1 /\ sizes'[L + 1] = n
        /\ \A i \in 1..L : sizes'[i] = sizes[i]
    BY <1>1, <1>2
  <2>2. \A i \in 1..L : sizes[i] \in Nat
    BY <1>2
  <2>3. (L + 1) - 1 = L /\ sizes' # <<>>
    BY <2>1
  <2>4. Interior' = 1..L
    BY <2>1, <2>3 DEF Interior
  <2>5. QED
    BY <2>1, <2>2, <2>3, <2>4
<1>5. /\ pc = "read" /\ position < size /\ pc' \in {"flush", "read"}
      /\ pending' = Append(pending, L + 1)
      /\ UNCHANGED <<size, kinds, measured, raised, frames, header, dest>>
  BY <1>4 DEF ReadChunk
<1>6. Ordered'
  <2>1. ~raised /\ Len(pending) = L - Len(frames)
    BY <1>5 DEF CInv, Ordered, InFlightInv
  <2>2. Len(pending') = Len(pending) + 1 /\ pending'[Len(pending) + 1] = L + 1
        /\ \A i \in 1..Len(pending) : pending'[i] = pending[i]
    BY <1>5
  <2>3. ASSUME NEW i \in 1..Len(pending') PROVE pending'[i] = Len(frames) + i
    <3>1. Len(pending) \in Nat /\ Len(frames) \in Nat /\ L \in Nat
      BY <1>4
    <3>2. i \in 1..Len(pending) \/ i = Len(pending) + 1
      BY <2>2, <3>1
    <3>3. CASE i = Len(pending) + 1
      BY <2>1, <2>2, <3>1, <3>3
    <3>4. CASE i \in 1..Len(pending)
      BY <2>1, <2>2, <3>4 DEF CInv, Ordered
    <3>5. QED
      BY <3>2, <3>3, <3>4
  <2>4. QED
    BY <1>4, <1>5, <2>1, <2>3 DEF CInv, Ordered
<1>7. Measuring'
  <2>1. position' = position + n /\ position' \in Nat
    BY <1>1, <1>2
  <2>2. sizes'[Len(sizes')] < Target => position' = size /\ position' = size'
    BY <1>3, <1>4, <1>5, <2>1
  <2>3. ASSUME NEW i \in 1..L, sizes'[i] < Target
        PROVE  "grew" \in kinds /\ ("shrank" \notin kinds => measured < position')
    <3>1. CASE i = L
      BY <1>2, <1>4, <1>5, <2>1, <2>3, <3>1 DEF CInv, Measuring
    <3>2. CASE i # L
      <4>1. i \in Interior /\ sizes[i] < Target
        BY <1>4, <2>3, <3>2 DEF Interior
      <4>2. QED
        BY <1>2, <2>1, <4>1 DEF CInv, Measuring
    <3>3. QED
      BY <3>1, <3>2
  <2>4. pc # "stat" /\ ("shrank" \notin kinds => measured <= size)
    BY <1>5 DEF CInv, Measuring
  <2>5. QED
    BY <1>4, <1>5, <2>2, <2>3, <2>4 DEF Measuring
<1>8. Counted'
  <2>1. TotalOf(sizes', L) = TotalOf(sizes, L)
    BY <1>4, TotalOfSame
  <2>2. TotalOf(sizes', L + 1) = TotalOf(sizes', L) + sizes'[L + 1]
    BY <1>4, TotalUnfolds
  <2>3. position' = TotalOf(sizes', Len(sizes'))
    BY <1>1, <1>4, <2>1, <2>2 DEF CInv, Counted
  <2>4. ASSUME \A i \in 1..L : sizes'[i] >= Target
        PROVE  position' >= L * Target + n
    <3>1. CASE L = 0
      BY <1>1, <1>2, <3>1
    <3>2. CASE L # 0
      <4>1. sizes # <<>> /\ L \in 1..L /\ \A i \in Interior : i \in 1..L
        BY <1>4, <3>2 DEF Interior
      <4>2. sizes[L] >= Target /\ \A i \in Interior : sizes[i] >= Target
        BY <1>4, <2>4, <4>1
      <4>3. position >= (L - 1) * Target + sizes[L]
        BY <4>1, <4>2 DEF CInv, Counted
      <4>4. (L - 1) * Target + Target = L * Target
        BY <1>4
      <4>5. (L - 1) * Target \in Int /\ L * Target \in Int /\ sizes[L] \in Nat
        BY <1>4, <4>1
      <4>6. PICK a \in Int : a = (L - 1) * Target
        BY <4>5
      <4>7. PICK b \in Int : b = L * Target
        BY <4>5
      <4>8. a + Target = b /\ position >= a + sizes[L] /\ sizes[L] \in Nat
        BY <4>3, <4>4, <4>5, <4>6, <4>7
      <4>9. position' >= b + n
        BY <1>1, <1>2, <4>2, <4>8
      <4>10. QED
        BY <4>7, <4>9
    <3>3. QED
      BY <3>1, <3>2
  <2>5. QED
    BY <1>4, <2>3, <2>4 DEF Counted
<1>9. Finished'
  BY <1>5 DEF CInv, Finished
<1>10. QED
  BY <1>6, <1>7, <1>8, <1>9 DEF CInv

LEMMA WritesCInv ==
  ASSUME IInv, CInv, WriteNext \/ WriteNextRaises PROVE CInv'
<1> USE DEF IInv, TypeOK
<1>1. /\ pending # <<>> /\ pending' = Tail(pending) /\ pc \in {"flush", "drain"}
      /\ UNCHANGED <<size, kinds, measured, position, sizes, header, dest>>
  BY DEF WriteNext, WriteNextRaises
<1>2. ~raised /\ Len(frames) + Len(pending) = Len(sizes)
  BY <1>1 DEF CInv, Ordered, InFlightInv
<1>3. Head(pending) = Len(frames) + 1 /\ Len(pending) >= 1 /\ Len(frames) + 1 <= Len(sizes)
  BY <1>1, <1>2 DEF CInv, Ordered
<1>4. Measuring' /\ Counted' /\ Finished'
  BY <1>1 DEF CInv, Measuring, Counted, Finished, Interior, WriteNext, WriteNextRaises
<1>5. CASE WriteNext
  <2>1. /\ frames' = Append(frames, Len(frames) + 1) /\ UNCHANGED raised
        /\ pc' \in {"read", "drain"}
    BY <1>3, <1>5 DEF WriteNext
  <2>2. Len(frames') = Len(frames) + 1 /\ \A i \in 1..Len(frames') : frames'[i] = i
    BY <2>1 DEF CInv, Ordered
  <2>3. Len(pending') = Len(pending) - 1 /\ \A i \in 1..Len(pending') : pending'[i] = pending[i + 1]
    BY <1>1, <1>3
  <2>4. \A i \in 1..Len(pending') : pending'[i] = Len(frames') + i
    BY <1>2, <1>3, <2>2, <2>3 DEF CInv, Ordered
  <2>5. Ordered'
    BY <1>1, <1>2, <1>3, <2>1, <2>2, <2>4 DEF Ordered
  <2>6. QED
    BY <1>4, <2>5 DEF CInv
<1>6. CASE WriteNextRaises
  BY <1>1, <1>2, <1>4, <1>6 DEF CInv, Ordered, WriteNextRaises
<1>7. QED
  BY <1>5, <1>6

LEMMA ChangesCInv ==
  ASSUME CompressStreamAssumption, IInv, CInv, SourceChanges PROVE CInv'
<1>1. /\ pc \notin {"stat", "ok", "error"} /\ size' \in Nat /\ size \in Nat /\ size' # size
      /\ kinds' = kinds \cup {IF size' > size THEN "grew" ELSE "shrank"}
      /\ UNCHANGED <<measured, position, sizes, pc, raised, pending, frames, header, dest>>
  BY DEF SourceChanges, IInv, TypeOK, CompressStreamAssumption
<1>2. Ordered' /\ Counted' /\ Finished'
  BY <1>1 DEF CInv, Ordered, Counted, Finished, Interior, Real
<1>3. measured \in Nat /\ position \in Nat
  BY DEF IInv, TypeOK, CompressStreamAssumption
<1>4. Measuring'
  BY <1>1, <1>3 DEF CInv, Measuring, Interior
<1>5. QED
  BY <1>2, <1>4 DEF CInv

LEMMA NextCInv ==
  ASSUME CompressStreamAssumption PROVE IInv /\ CInv /\ [Next]_vars => CInv'
<1> SUFFICES ASSUME IInv, CInv, [Next]_vars PROVE CInv'
  OBVIOUS
<1> USE DEF CInv, Ordered, Measuring, Counted, Finished, Interior, Real
<1>1. CASE Stat
  <2>1. /\ pc = "stat" /\ measured' = size /\ pc' = "read" /\ size \in Nat
        /\ UNCHANGED <<size, kinds, position, sizes, raised, pending, frames, header, dest>>
    BY <1>1 DEF Stat, IInv, TypeOK, CompressStreamAssumption
  <2>2. QED
    BY <2>1
<1>2. CASE EndOfSource \/ ReadRaises \/ Drained
  <2>1. UNCHANGED <<size, kinds, measured, position, sizes, pending, frames, header, dest>>
    BY <1>2 DEF EndOfSource, ReadRaises, Drained
  <2>2. /\ pc \in {"read", "drain"} /\ pc' \in {"drain", "join"}
        /\ pc' = "join" /\ ~raised' => pending = <<>>
        /\ ~raised' => ~raised
        /\ raised' => pc' = "join"
    BY <1>2 DEF EndOfSource, ReadRaises, Drained
  <2>3. Ordered'
    BY <2>1, <2>2
  <2>4. QED
    BY <2>1, <2>2, <2>3
<1>3. CASE Join \/ FinishRaises \/ Cleanup
  <2>1. UNCHANGED <<size, kinds, measured, position, sizes, pending, frames, header, dest,
                    raised>>
    BY <1>3 DEF Join, FinishRaises, Cleanup
  <2>2. /\ pc \in {"join", "patch", "replace", "cleanup"}
        /\ pc' \in {"check", "cleanup", "error"}
        /\ pc' = "check" => pc = "join" /\ ~raised
    BY <1>3 DEF Join, FinishRaises, Cleanup
  <2>3. Ordered'
    BY <2>1, <2>2
  <2>4. QED
    BY <2>1, <2>2, <2>3
<1>4. CASE CheckSize
  BY <1>4 DEF CheckSize
<1>5. CASE PatchHeader
  BY <1>5 DEF PatchHeader
<1>6. CASE Replace
  BY <1>6 DEF Replace
<1>7. CASE UNCHANGED mainVars
  BY <1>7 DEF mainVars
<1>8. QED
  BY <1>1, <1>2, <1>3, <1>4, <1>5, <1>6, <1>7, ReadsCInv, WritesCInv, ChangesCInv
     DEF Next, Main, TaskStarts, TaskEnds, Ended, vars

(* What is published can be read: its segments are the chunks in order. *)
LEMMA PublishedSegments ==
  ASSUME CompressStreamAssumption, IInv, CInv, dest.new
  PROVE  /\ pc = "ok" /\ dest.sizes = sizes /\ position = measured
         /\ Published.segments = [i \in 1..Len(sizes) |-> GoodSegment(sizes[i])]
         /\ Published.payload = Published.segments
         /\ Published.original = position /\ Published.count = Len(sizes)
<1>1. pc = "ok"
  BY DEF CInv, Finished, Old
<1>2. /\ dest = [header |-> Real, frames |-> frames, sizes |-> sizes, new |-> TRUE]
      /\ position = measured /\ position = TotalOf(sizes, Len(sizes))
  BY <1>1 DEF CInv, Finished, Counted
<1>3. Len(frames) = Len(sizes) /\ \A i \in 1..Len(sizes) : frames[i] = i
  <2>1. pending = <<>> /\ ~raised
    BY <1>1 DEF CInv, Ordered
  <2>2. Len(sizes) - Len(frames) = Len(pending)
    BY <2>1 DEF IInv, InFlightInv
  <2>3. Len(sizes) \in Nat /\ Len(frames) \in Nat /\ Len(pending) = 0
    BY <2>1 DEF IInv, TypeOK
  <2>4. Len(frames) = Len(sizes)
    BY <2>2, <2>3
  <2>5. QED
    BY <2>4 DEF CInv, Ordered
<1>4. /\ dest.frames = frames /\ dest.sizes = sizes /\ dest.header.payload = frames
      /\ dest.header.original = position /\ dest.header.count = Len(sizes)
  BY <1>2, <1>3 DEF Real
<1>5. [i \in 1..Len(frames) |-> GoodSegment(sizes[frames[i]])]
        = [i \in 1..Len(sizes) |-> GoodSegment(sizes[i])]
  BY <1>3
<1>6. QED
  BY <1>1, <1>2, <1>4, <1>5 DEF Published

GoodStream(s) == s \in StreamType /\ Len(s.segments) <= MaxSegments

LEMMA PublishedIsGood ==
  ASSUME CompressStreamAssumption, IInv, CInv PROVE GoodStream(Published)
<1>0. Target \in Nat \ {0} /\ Slack \in Nat /\ MaxSegments \in Nat /\ MaxSize <= MaxSegments
  BY DEF CompressStreamAssumption
<1>1. CASE dest.new
  <2>1. /\ sizes \in Seq(1..(Target + Slack)) /\ position \in Nat
        /\ Len(sizes) <= position /\ position <= MaxSize /\ MaxSize \in Nat
    BY DEF IInv, TypeOK, InFlightInv, CompressStreamAssumption
  <2>2. Len(sizes) \in Nat /\ \A i \in 1..Len(sizes) : sizes[i] \in Nat
    BY <1>0, <2>1
  <2>3. Published.segments \in Seq(SegmentType) /\ Len(Published.segments) = Len(sizes)
    <3>1. \A n \in Nat : GoodSegment(n) \in SegmentType
      BY DEF GoodSegment, SegmentType
    <3>2. QED
      BY <1>1, <2>2, <3>1, PublishedSegments
  <2>4. /\ Published.payload \in Seq(SegmentType)
        /\ Published.original \in Nat /\ Published.count \in Nat
    BY <1>1, <2>1, <2>2, <2>3, PublishedSegments
  <2>5. Published \in StreamType
    BY <1>0, <2>3, <2>4 DEF Published, StreamType
  <2>6. QED
    BY <1>0, <2>1, <2>2, <2>3, <2>5 DEF GoodStream
<1>2. CASE ~dest.new
  <2>1. dest = Old
    BY <1>2 DEF CInv, Finished
  <2>2. /\ dest.frames = <<>> /\ dest.header.payload = <<>>
        /\ dest.header.original = 0 /\ dest.header.count = 0
    BY <2>1 DEF Old, Placeholder
  <2>3. /\ Published.segments = <<>> /\ Published.payload = <<>>
        /\ Published.original = 0 /\ Published.count = 0
    BY <2>2 DEF Published
  <2>4. Published \in StreamType
    BY <1>0, <2>3 DEF Published, StreamType
  <2>5. QED
    BY <1>0, <2>3, <2>4 DEF GoodStream
<1>3. QED
  BY <1>1, <1>2

LEMMA MultiplesOrdered ==
  ASSUME NEW a \in Int, NEW b \in Int, NEW n \in Nat \ {0}, NEW p \in Int,
         a * n <= p, p < b * n
  PROVE  a < b
<1> SUFFICES ASSUME b <= a PROVE FALSE
  OBVIOUS
<1>1. PICK d \in Nat : a = b + d
  <2>1. a - b \in Nat /\ a = b + (a - b)
    OBVIOUS
  <2>2. QED
    BY <2>1
<1>2. a * n = b * n + d * n /\ d * n \in Nat /\ b * n \in Int
  BY <1>1
<1>3. QED
  BY <1>2

(* A chunk below the target that is not the last would have shown in the   *)
(* number of bytes read.                                                   *)
LEMMA PublishedIsRead ==
  ASSUME CompressStreamAssumption, IInv, CInv, dest.new, kinds # {"grew", "shrank"}
  PROVE  StreamDecodes(Published)
<1> DEFINE L == Len(sizes)
<1>0. Target \in Nat \ {0} /\ Slack \in Nat
  BY DEF CompressStreamAssumption
<1>1. /\ pc = "ok" /\ position = measured
      /\ Published.segments = [i \in 1..L |-> GoodSegment(sizes[i])]
      /\ Published.payload = Published.segments
      /\ Published.original = position /\ Published.count = L
  BY PublishedSegments
<1>2. /\ sizes \in Seq(1..(Target + Slack)) /\ position \in Nat
      /\ L <= position /\ L \in Nat
  BY DEF IInv, TypeOK, InFlightInv, CompressStreamAssumption
<1>3. \A i \in 1..L : sizes[i] \in 1..(Target + Slack) /\ sizes[i] \in Nat
  BY <1>0, <1>2
<1>4. \A i \in Interior : sizes[i] >= Target
  <2>1. SUFFICES ASSUME NEW i \in Interior, sizes[i] < Target PROVE FALSE
    <3>1. \A i \in Interior : sizes[i] \in Nat
      BY <1>2, <1>3 DEF Interior
    <3>2. QED
      BY <1>0, <3>1
  <2>2. "grew" \in kinds /\ ("shrank" \notin kinds => measured < position)
    BY <2>1 DEF CInv, Measuring
  <2>3. "shrank" \notin kinds
    BY <2>2 DEF IInv, TypeOK
  <2>4. QED
    BY <1>1, <1>2, <2>2, <2>3
<1>5. \A i \in 1..L : SizeAdmitted(sizes[i], i, L, Target, Slack)
  <2> SUFFICES ASSUME NEW i \in 1..L PROVE SizeAdmitted(sizes[i], i, L, Target, Slack)
    OBVIOUS
  <2>1. i < L => i \in Interior
    BY <1>2 DEF Interior
  <2>2. QED
    BY <1>0, <1>3, <1>4, <2>1 DEF SizeAdmitted
<1>6. position = TotalOf(sizes, L)
  BY DEF CInv, Counted
<1>7. L <= (position + Target - 1) \div Target /\ (position = 0 <=> L = 0)
  <2>1. CASE L = 0
    <3>1. position = 0
      BY <1>6, <2>1, TotalUnfolds
    <3>2. (position + Target - 1) \div Target >= 0
      BY <1>0, <3>1
    <3>3. QED
      BY <2>1, <3>1, <3>2
  <2>2. CASE L # 0
    <3>1. position >= (L - 1) * Target + sizes[L] /\ sizes[L] >= 1 /\ sizes[L] \in Nat
      BY <1>2, <1>3, <1>4, <2>2 DEF CInv, Counted
    <3>2. (L - 1) * Target + Target = L * Target /\ L * Target \in Int /\ (L - 1) * Target \in Int
      BY <1>0, <1>2
    <3> DEFINE p == position + Target - 1
    <3> HIDE DEF L
    <3>3. p >= L * Target
      BY <1>0, <1>2, <3>1, <3>2
    <3>4. p \in Nat
      BY <1>0, <1>2
    <3> HIDE DEF p
    <3>5. L <= p \div Target
      <4>1. PICK q \in Int : q = p \div Target
        BY <1>0, <3>4
      <4>2. p < (q + 1) * Target
        BY <1>0, <3>4, <4>1
      <4>3. L < q + 1
        <5>1. PICK a \in Int : a = L
          BY <1>2
        <5>2. PICK b \in Int : b = q + 1
          OBVIOUS
        <5>3. PICK n \in Nat \ {0} : n = Target
          BY <1>0
        <5>4. p \in Int /\ a * n <= p /\ p < b * n
          BY <3>3, <3>4, <4>2, <5>1, <5>2, <5>3
        <5>5. a < b
          BY ONLY <5>4, a \in Int, b \in Int, n \in Nat \ {0}, MultiplesOrdered
        <5>6. QED
          BY <5>1, <5>2, <5>5
      <4>4. QED
        BY <4>1, <4>3, <1>2
    <3>6. QED
      BY <1>2, <2>2, <3>5 DEF p
  <2>3. QED
    BY <2>1, <2>2
<1>8. TotalOf(SegmentSizes(Published), L) = TotalOf(sizes, L)
  <2>1. \A i \in 1..L : SegmentSizes(Published)[i] = sizes[i]
    BY <1>1, <1>2 DEF SegmentSizes, GoodSegment
  <2>2. QED
    BY <1>2, <2>1, TotalOfSame
<1>9. /\ Published.wellFormed /\ Published.payloadSizeOK /\ Published.withinLimit
      /\ Published.manifestOK /\ ~Published.partial
      /\ Published.target = Target /\ Published.slack = Slack
  BY DEF Published
<1>10. \A i \in 1..L : /\ Published.segments[i].size = sizes[i]
                       /\ Published.segments[i].bounded /\ Published.segments[i].known
                       /\ FrameRestores(Published.segments[i])
  BY <1>1 DEF GoodSegment, FrameRestores
<1>11. Len(Published.segments) = L
  BY <1>1, <1>2
<1>12. InspectAccepts(Published)
  BY <1>1, <1>7, <1>9 DEF InspectAccepts
<1> HIDE DEF L
<1>13. QED
  <2>1. PICK s : s = Published
    OBVIOUS
  <2>2. /\ InspectAccepts(s) /\ s.withinLimit /\ s.count = Len(s.segments) /\ ~s.partial
        /\ s.payload = s.segments /\ s.manifestOK
        /\ TotalOf(SegmentSizes(s), s.count) = s.original
    BY <1>1, <1>6, <1>8, <1>9, <1>11, <1>12, <2>1
  <2>3. \A i \in 1..s.count :
          /\ SizeAdmitted(s.segments[i].size, i, s.count, s.target, s.slack)
          /\ s.segments[i].bounded /\ s.segments[i].known
          /\ FrameRestores(s.segments[i])
    BY <1>1, <1>5, <1>9, <1>10, <2>1
  <2>4. StreamDecodes(s)
    BY <2>2, <2>3 DEF StreamDecodes
  <2>5. QED
    BY <2>1, <2>4

--------------------------------------------------------------------------------
(* decompress_stream, on the stream compress_stream published or another.  *)

(* Before it is called. *)
ReaderRests ==
  /\ dPc = "inspect" /\ dRaised = FALSE /\ fault = FALSE
  /\ next = 0 /\ declared = 0 /\ restored = 0
  /\ dQueue = <<>> /\ dTask = [t \in Tasks |-> "new"]
  /\ dPending = <<>> /\ output = <<>> /\ dTemp = FALSE /\ dDest = Reader!Old

ReaderType == GoodStream(info) /\ GoodStream(file) /\ Reader!TypeOK

(* The segments that were read passed the checks of the loop. *)
Admitted(i) ==
  /\ SizeAdmitted(file.segments[i].size, i, info.count, info.target, info.slack)
  /\ file.segments[i].bounded /\ file.segments[i].known

Walked ==
  /\ next <= Len(info.segments) /\ next <= Len(file.segments)
  /\ \A i \in 1..next : Admitted(i)
  /\ declared = TotalOf(SegmentSizes(file), next)

(* A pool thread returns exactly for a frame that restores. *)
Restores(t) == file.segments[t].original <= file.segments[t].size /\ file.segments[t].restores

Tasked ==
  \A t \in Tasks : /\ dTask[t] = "done" => Restores(t)
                   /\ dTask[t] = "failed" => ~Restores(t)

(* The segments are written in order, and only those that restore. *)
Written ==
  /\ Len(output) <= next
  /\ \A i \in 1..Len(output) : output[i] = i /\ FrameRestores(file.segments[i])
  /\ restored = TotalOf(SegmentSizes(file), Len(output))
  /\ ~dRaised => /\ Len(output) + Len(dPending) = next
                 /\ \A i \in 1..Len(dPending) : dPending[i] = Len(output) + i

TotalsAgreed ==
  /\ next = Len(info.segments) /\ ~info.partial
  /\ next = Len(file.segments) /\ ~file.partial
  /\ restored = info.original
  /\ SubSeq(file.segments, 1, next) = info.payload
  /\ info.manifestOK

(* Where the thread is says which checks have passed. *)
Placed ==
  /\ dPc \in {"inspect", "open"} => /\ next = 0 /\ ~dRaised /\ dQueue = <<>>
                                    /\ \A t \in Tasks : dTask[t] = "new"
  /\ dPc \notin {"inspect", "error"} => InspectAccepts(info) /\ info.withinLimit
  /\ dPc = "drain" => next = info.count
  /\ dPc = "join" /\ ~dRaised => next = info.count /\ dPending = <<>>
  /\ dPc \in {"check", "replace", "ok"} => ~dRaised /\ next = info.count /\ dPending = <<>>
  /\ dRaised => dPc \in {"join", "cleanup", "error"}
  /\ dPc \in {"replace", "ok"} => TotalsAgreed
  /\ dPc = "ok" => dDest = [output |-> output, new |-> TRUE]

(* Without a failure of its own a call gives up only on a stream that does *)
(* not decode.                                                             *)
Justified ==
  (dRaised \/ dPc \in {"cleanup", "error"}) /\ ~fault /\ file = info
    => ~StreamDecodes(info)

RInv == ReaderType /\ Walked /\ Tasked /\ Written /\ Placed /\ Justified

Called ==
  ReaderRests /\ GoodStream(info) /\ file = info /\ dWorkers \in 1..MaxConcurrency

LEMMA RestsRInv == ASSUME CompressStreamAssumption PROVE Called => RInv
<1> SUFFICES ASSUME Called PROVE RInv
  OBVIOUS
<1> USE DEF Called, ReaderRests, CompressStreamAssumption
<1>1. ReaderType
  <2>1. info.count \in Nat
    BY DEF GoodStream, StreamType
  <2>2. Reader!PoolTypeOK /\ dWorkers <= MaxConcurrency
    BY DEF Reader!PoolTypeOK, Reader!TaskStates, Reader!Tasks, Tasks
  <2>3. /\ next \in 0..info.count /\ declared \in Nat /\ restored \in Nat
        /\ dPending \in Seq(Reader!Tasks) /\ output \in Seq(Reader!Tasks)
        /\ dPc = "inspect" /\ dRaised \in BOOLEAN /\ fault \in BOOLEAN /\ dTemp \in BOOLEAN
    <3>1. dPending = <<>> /\ output = <<>> /\ next = 0 /\ declared = 0 /\ restored = 0
          /\ dRaised = FALSE /\ fault = FALSE /\ dTemp = FALSE /\ dPc = "inspect"
      OBVIOUS
    <3>2. dPending \in Seq(Reader!Tasks) /\ output \in Seq(Reader!Tasks)
      BY <3>1
    <3>3. next \in 0..info.count /\ declared \in Nat /\ restored \in Nat
      BY <2>1, <3>1
    <3>4. QED
      BY <3>1, <3>2, <3>3
  <2>4. GoodStream(file)
    BY DEF Called
  <2>5. QED
    BY <2>2, <2>3, <2>4 DEF ReaderType, Reader!TypeOK
<1>2. Len(info.segments) \in Nat
  BY DEF GoodStream, StreamType
<1>3. TotalOf(SegmentSizes(file), 0) = 0
  BY TotalUnfolds
<1>4. Walked /\ Written
  BY <1>2, <1>3 DEF Walked, Written
<1>5. Tasked /\ Placed /\ Justified
  BY DEF Tasked, Placed, Justified
<1>6. QED
  BY <1>1, <1>4, <1>5 DEF RInv

LEMMA RestsRInvNext == ASSUME CompressStreamAssumption PROVE Called' => RInv'
  BY RestsRInv, PTL

(* The reader checks what the compressor's module says of a stream. *)
LEMMA SameChecks ==
  /\ \A s : Reader!InspectAccepts(s) <=> InspectAccepts(s)
  /\ \A size_, i, count_, target_, slack_ :
       Reader!SizeAdmitted(size_, i, count_, target_, slack_)
         <=> SizeAdmitted(size_, i, count_, target_, slack_)
  /\ \A s : Reader!StreamDecodes(s) <=> StreamDecodes(s)
<1>1. \A s : Reader!InspectAccepts(s) <=> InspectAccepts(s)
  BY DEF Reader!InspectAccepts, InspectAccepts
<1>2. \A size_, i, count_, target_, slack_ :
        Reader!SizeAdmitted(size_, i, count_, target_, slack_)
          <=> SizeAdmitted(size_, i, count_, target_, slack_)
  BY DEF Reader!SizeAdmitted, SizeAdmitted
<1>3. \A list, n : Reader!TotalOf(list, n) = TotalOf(list, n)
  BY Zenon DEF Reader!TotalOf, TotalOf
<1>4. \A s : Reader!SegmentSizes(s) = SegmentSizes(s)
  BY DEF Reader!SegmentSizes, SegmentSizes
<1>5. \A g : Reader!FrameRestores(g) <=> FrameRestores(g)
  BY DEF Reader!FrameRestores, FrameRestores
<1>6. \A s : Reader!StreamDecodes(s) <=> StreamDecodes(s)
  BY <1>1, <1>2, <1>3, <1>4, <1>5 DEF Reader!StreamDecodes, StreamDecodes
<1>7. QED
  BY <1>1, <1>2, <1>6

(* Facts about the streams that the proofs of the steps use. *)
LEMMA StreamFacts ==
  ASSUME NEW s, GoodStream(s)
  PROVE  /\ s.count \in Nat /\ s.original \in Nat /\ s.target \in Nat /\ s.slack \in Nat
         /\ Len(s.segments) \in Nat /\ Len(s.segments) <= MaxSegments
         /\ s.segments \in Seq(SegmentType) /\ s.payload \in Seq(SegmentType)
         /\ \A i \in 1..Len(s.segments) :
              /\ s.segments[i].size \in Nat /\ s.segments[i].original \in Nat
              /\ SegmentSizes(s)[i] = s.segments[i].size
<1>1. /\ s.count \in Nat /\ s.original \in Nat /\ s.target \in Nat /\ s.slack \in Nat
      /\ s.segments \in Seq(SegmentType) /\ s.payload \in Seq(SegmentType)
      /\ Len(s.segments) <= MaxSegments
  BY DEF GoodStream, StreamType
<1>2. ASSUME NEW i \in 1..Len(s.segments)
      PROVE  /\ s.segments[i].size \in Nat /\ s.segments[i].original \in Nat
             /\ SegmentSizes(s)[i] = s.segments[i].size
  <2>1. s.segments[i] \in SegmentType
    BY <1>1
  <2>2. QED
    BY <2>1 DEF SegmentType, SegmentSizes
<1>3. Len(s.segments) \in Nat
  BY <1>1
<1>4. QED
  BY <1>1, <1>2, <1>3

(* A segment of a stream that decodes passes every check of the loop.      *)
LEMMA SoundIsReadable ==
  ASSUME GoodStream(info), file = info, Walked, next \in Nat, next < info.count,
         StreamDecodes(info)
  PROVE  Reader!SegmentReadable
<1> DEFINE g == info.segments[next + 1]
<1>1. next + 1 \in 1..info.count /\ info.count = Len(info.segments)
  BY StreamFacts DEF StreamDecodes
<1>2. /\ SizeAdmitted(g.size, next + 1, info.count, info.target, info.slack)
      /\ g.bounded /\ g.known
  BY <1>1 DEF StreamDecodes
<1>3. declared + g.size = TotalOf(SegmentSizes(info), next + 1)
  <2>1. TotalOf(SegmentSizes(info), next + 1)
          = TotalOf(SegmentSizes(info), next) + SegmentSizes(info)[next + 1]
    BY TotalUnfolds
  <2>2. SegmentSizes(info)[next + 1] = g.size
    BY <1>1, StreamFacts
  <2>3. QED
    BY <2>1, <2>2 DEF Walked
<1>4. TotalOf(SegmentSizes(info), next + 1) <= info.original
  <2>1. \A i \in 1..info.count : SegmentSizes(info)[i] \in Nat
    BY <1>1, StreamFacts
  <2>2. PICK list : list = SegmentSizes(info)
    OBVIOUS
  <2>3. TotalOf(list, next + 1) <= TotalOf(list, info.count)
    <3>1. info.count \in Nat /\ next + 1 \in 0..info.count
      BY <1>1, StreamFacts
    <3>2. \A i \in 1..info.count : list[i] \in Nat
      BY <2>1, <2>2
    <3>3. PICK n \in Nat : n = info.count
      BY <3>1
    <3>4. \A m \in 0..n : TotalOf(list, m) <= TotalOf(list, n)
      BY <3>2, <3>3, TotalOfGrows
    <3>5. QED
      BY <3>1, <3>3, <3>4
  <2>4. QED
    BY <2>2, <2>3 DEF StreamDecodes
<1>5. next < Len(info.segments) /\ next < Len(file.segments)
  BY <1>1
<1>6. QED
  BY <1>2, <1>3, <1>4, <1>5, SameChecks DEF Reader!SegmentReadable

LEMMA InspectRInv ==
  ASSUME RInv, Reader!Inspect PROVE RInv'
<1>1. /\ dPc = "inspect"
      /\ dPc' = IF InspectAccepts(info) /\ info.withinLimit THEN "open" ELSE "error"
      /\ UNCHANGED <<dWorkers, dQueue, dTask, dRaised, info, file, fault, next, declared,
                     dPending, output, restored, dTemp, dDest>>
  BY SameChecks DEF Reader!Inspect, Reader!Keeps, Reader!poolVars
<1>2. ReaderType'
  BY <1>1 DEF RInv, ReaderType, GoodStream, Reader!TypeOK, Reader!PoolTypeOK
<1>3. Walked' /\ Tasked' /\ Written'
  BY <1>1 DEF RInv, Walked, Admitted, Tasked, Restores, Written
<1>4. Placed' /\ Justified'
  BY <1>1 DEF RInv, Placed, Justified, StreamDecodes
<1>5. QED
  BY <1>2, <1>3, <1>4 DEF RInv

LEMMA OpensRInv ==
  ASSUME RInv, Reader!Open PROVE RInv'
<1>1. /\ dPc = "open" /\ dPc' = "read"
      /\ UNCHANGED <<dWorkers, dQueue, dTask, dRaised, info, file, fault, next, declared,
                     dPending, output, restored, dDest>>
      /\ dTemp' = TRUE
  BY DEF Reader!Open, Reader!poolVars
<1>2. ReaderType'
  BY <1>1 DEF RInv, ReaderType, GoodStream, Reader!TypeOK, Reader!PoolTypeOK
<1>3. Walked' /\ Tasked' /\ Written'
  BY <1>1 DEF RInv, Walked, Admitted, Tasked, Restores, Written
<1>4. Placed' /\ Justified'
  BY <1>1 DEF RInv, Placed, Justified
<1>5. QED
  BY <1>2, <1>3, <1>4 DEF RInv

(* The file is exchanged before any of its segments was looked at. *)
LEMMA ReplacedRInv ==
  ASSUME ReaderAssumption, RInv, Reader!Replaced PROVE RInv'
<1>1. /\ dPc = "open" /\ file' \in Streams /\ file' # info /\ file = info
      /\ UNCHANGED <<dWorkers, dQueue, dTask, info, dPc, dRaised, fault, next, declared,
                     dPending, output, restored, dTemp, dDest>>
  BY DEF Reader!Replaced, Reader!poolVars
<1>2. GoodStream(file)'
  BY <1>1 DEF ReaderAssumption, GoodStream
<1>3. ReaderType'
  BY <1>1, <1>2 DEF RInv, ReaderType, GoodStream, Reader!TypeOK, Reader!PoolTypeOK
<1>4. /\ next = 0 /\ Len(output) = 0 /\ Len(output) \in Nat
      /\ ~dRaised /\ \A t \in Tasks : dTask[t] = "new"
  <2>1. Len(output) \in Nat
    BY DEF RInv, ReaderType, Reader!TypeOK
  <2>2. next = 0 /\ ~dRaised /\ \A t \in Tasks : dTask[t] = "new"
    BY <1>1 DEF RInv, Placed
  <2>3. QED
    BY <2>1, <2>2 DEF RInv, Written
<1>5. /\ TotalOf(SegmentSizes(file), 0) = 0 /\ TotalOf(SegmentSizes(file'), 0) = 0
  BY TotalUnfolds
<1>6. Len(file'.segments) \in Nat /\ Len(info.segments) \in Nat
  BY <1>2, StreamFacts DEF RInv, ReaderType, GoodStream, StreamType
<1>7. Walked' /\ Written'
  BY <1>1, <1>4, <1>5, <1>6 DEF RInv, Walked, Written, SegmentSizes
<1>8. Tasked' /\ Placed' /\ Justified'
  BY <1>1, <1>4 DEF RInv, Tasked, Placed, Justified
<1>9. QED
  BY <1>3, <1>7, <1>8 DEF RInv

LEMMA SegmentReadRInv ==
  ASSUME CompressStreamAssumption, RInv, Reader!ReadSegment PROVE RInv'
<1> DEFINE t == next + 1
           g == file.segments[t]
<1>1. /\ dPc = "read" /\ next < info.count /\ Reader!SegmentReadable
      /\ next' = t /\ declared' = declared + g.size
      /\ dQueue' = Append(dQueue, t) /\ dTask' = [dTask EXCEPT ![t] = "queued"]
      /\ dPending' = Append(dPending, t) /\ dPc' \in {"flush", "read"}
      /\ UNCHANGED <<dWorkers, info, file, dRaised, fault, output, restored, dTemp, dDest>>
  BY DEF Reader!ReadSegment, Reader!Submit
<1>2. /\ GoodStream(info) /\ GoodStream(file) /\ next \in Nat /\ declared \in Nat
      /\ restored \in Nat
      /\ dPending \in Seq(Tasks) /\ output \in Seq(Tasks) /\ dQueue \in Seq(Tasks)
      /\ dTask \in [Tasks -> TaskStates] /\ dWorkers \in Nat \ {0} /\ dWorkers <= MaxConcurrency
      /\ fault \in BOOLEAN /\ dRaised \in BOOLEAN /\ dTemp \in BOOLEAN
  BY DEF RInv, ReaderType, Reader!TypeOK, Reader!PoolTypeOK, Reader!TaskStates,
         TaskStates, Reader!Tasks, Tasks
<1>3. /\ t \in 1..Len(info.segments) /\ t \in 1..Len(file.segments) /\ t \in Tasks
      /\ t \in Nat /\ g.size \in Nat
  <2>1. next < Len(info.segments) /\ next < Len(file.segments)
    BY <1>1 DEF Reader!SegmentReadable
  <2>2. /\ Len(info.segments) \in Nat /\ Len(file.segments) \in Nat
        /\ Len(file.segments) <= MaxSegments
    BY <1>2, StreamFacts
  <2>3. t \in 1..Len(info.segments) /\ t \in 1..Len(file.segments) /\ t \in Nat
    BY <1>2, <2>1, <2>2
  <2>4. t \in Tasks
    <3>1. MaxSegments \in Int
      BY DEF CompressStreamAssumption
    <3>2. QED
      BY <2>2, <2>3, <3>1 DEF Tasks
  <2> HIDE DEF t
  <2>5. QED
    BY <1>2, <2>3, <2>4, StreamFacts
<1>4. ReaderType'
  <2>1. GoodStream(info)' /\ GoodStream(file)'
    BY <1>1, <1>2 DEF GoodStream
  <2> HIDE DEF t, g
  <2>2. dQueue' \in Seq(Tasks) /\ dPending' \in Seq(Tasks)
    BY <1>1, <1>2, <1>3
  <2>3. dTask' \in [Tasks -> TaskStates]
    BY <1>1, <1>2, <1>3 DEF TaskStates
  <2>4. declared' \in Nat /\ next' \in 0..info.count
    <3>1. next' = next + 1 /\ info.count \in Nat
      BY <1>1, <1>2, StreamFacts DEF t
    <3>2. QED
      BY SMTT(30), <3>1, <1>1, <1>2, <1>3
  <2>5. QED
    BY <1>1, <1>2, <2>1, <2>2, <2>3, <2>4
       DEF ReaderType, Reader!TypeOK, Reader!PoolTypeOK, Reader!TaskStates, TaskStates,
           Reader!Tasks, Tasks
<1>5. Walked'
  <2>1. Admitted(t)
    BY <1>1, SameChecks DEF Reader!SegmentReadable, Admitted
  <2>2. \A i \in 1..t : Admitted(i)
    BY SMTT(30), <2>1, <1>2 DEF RInv, Walked
  <2>3. TotalOf(SegmentSizes(file), t) = TotalOf(SegmentSizes(file), next) + g.size
    <3>1. SegmentSizes(file)[t] = g.size
      BY <1>2, <1>3, StreamFacts
    <3>2. QED
      BY <1>2, <3>1, TotalUnfolds
  <2>4. declared' = TotalOf(SegmentSizes(file), t)
    BY <1>1, <2>3 DEF RInv, Walked
  <2>5. QED
    BY <1>1, <1>3, <2>2, <2>4 DEF Walked, Admitted
<1>6. Tasked'
  <2> HIDE DEF t
  <2>1. \A u \in Tasks : dTask'[u] = IF u = t THEN "queued" ELSE dTask[u]
    BY <1>1, <1>2
  <2>2. QED
    BY <2>1, <1>1 DEF RInv, Tasked, Restores
<1>7. Written'
  <2>1. ~dRaised
    BY <1>1 DEF RInv, Placed
  <2>2. Len(output) + Len(dPending) = next /\ \A i \in 1..Len(dPending) : dPending[i] = Len(output) + i
    BY <2>1 DEF RInv, Written
  <2>3. /\ Len(dPending') = Len(dPending) + 1 /\ dPending'[Len(dPending) + 1] = t
        /\ \A i \in 1..Len(dPending) : dPending'[i] = dPending[i]
    BY <1>1, <1>2
  <2>4. Len(output) \in Nat /\ Len(dPending) \in Nat
    BY <1>2
  <2>5. \A i \in 1..Len(dPending') : dPending'[i] = Len(output) + i
    BY SMTT(30), <2>2, <2>3, <2>4
  <2>6. Len(output) <= next' /\ Len(output) + Len(dPending') = next'
    BY <1>1, <1>2, <2>2, <2>3, <2>4
  <2>7. QED
    BY <1>1, <2>5, <2>6 DEF RInv, Written
<1>8. Placed' /\ Justified'
  BY <1>1 DEF RInv, Placed, Justified
<1>9. QED
  BY <1>4, <1>5, <1>6, <1>7, <1>8 DEF RInv

(* The steps that only move the thread on. *)
LEMMA MovesRInv ==
  ASSUME RInv, Reader!ReadRejects \/ Reader!AllRead \/ Reader!Drained \/ Reader!Join
  PROVE  RInv'
<1>1. /\ dPc' \in {"join", "drain", "cleanup", "check"} /\ dRaised' \in BOOLEAN
      /\ UNCHANGED <<dWorkers, dQueue, dTask, info, file, fault, next, declared,
                     dPending, output, restored, dTemp, dDest>>
      /\ dRaised => dRaised'
  BY DEF Reader!ReadRejects, Reader!AllRead, Reader!Drained, Reader!Join, Reader!Keeps,
         Reader!poolVars, RInv, ReaderType, Reader!TypeOK
<1>2. ReaderType'
  BY <1>1 DEF RInv, ReaderType, GoodStream, Reader!TypeOK, Reader!PoolTypeOK
<1>3. Walked' /\ Tasked' /\ Written'
  BY <1>1 DEF RInv, Walked, Admitted, Tasked, Restores, Written
<1>4. Placed' /\ Justified'
  <2>1. CASE Reader!ReadRejects
    <3>1. /\ dPc = "read" /\ dPc' = "join" /\ dRaised' = TRUE
          /\ next < info.count /\ ~Reader!SegmentReadable
      BY <2>1 DEF Reader!ReadRejects
    <3>2. file = info => ~StreamDecodes(info)
      BY <3>1, SoundIsReadable DEF RInv, ReaderType, Reader!TypeOK
    <3>3. QED
      BY <1>1, <3>1, <3>2 DEF RInv, Placed, Justified
  <2>2. CASE Reader!AllRead
    BY <1>1, <2>2 DEF Reader!AllRead, RInv, Placed, Justified
  <2>3. CASE Reader!Drained
    BY <1>1, <2>3 DEF Reader!Drained, RInv, Placed, Justified
  <2>4. CASE Reader!Join
    BY <1>1, <2>4 DEF Reader!Join, RInv, Placed, Justified
  <2>5. QED
    BY <2>1, <2>2, <2>3, <2>4
<1>5. QED
  BY <1>2, <1>3, <1>4 DEF RInv

(* The oldest result. *)
LEMMA OldestResult ==
  ASSUME RInv, dPc \in {"flush", "drain"}, dPending # <<>>
  PROVE  LET t == Head(dPending)
         IN  /\ ~dRaised /\ Len(output) \in Nat /\ t = Len(output) + 1
             /\ t \in Tasks /\ t \in 1..next /\ t \in 1..Len(file.segments)
             /\ Len(dPending) >= 1 /\ Len(dPending) \in Nat
<1>1. ~dRaised
  BY DEF RInv, Placed
<1>2. /\ dPending \in Seq(Tasks) /\ output \in Seq(Tasks) /\ next \in Nat
  BY DEF RInv, ReaderType, Reader!TypeOK, Reader!Tasks, Tasks
<1>3. /\ Len(output) + Len(dPending) = next
      /\ \A i \in 1..Len(dPending) : dPending[i] = Len(output) + i
  BY <1>1 DEF RInv, Written
<1>4. Len(dPending) \in Nat \ {0} /\ Head(dPending) = dPending[1] /\ Len(output) \in Nat
  BY <1>2
<1>5. Head(dPending) \in Tasks
  BY <1>2
<1>6. next <= Len(file.segments) /\ Len(file.segments) \in Nat
  BY StreamFacts DEF RInv, Walked, ReaderType
<1>7. QED
  BY <1>1, <1>2, <1>3, <1>4, <1>5, <1>6

LEMMA FlushRInv ==
  ASSUME RInv, Reader!FlushRestored PROVE RInv'
<1> DEFINE t == Head(dPending)
           g == file.segments[t]
<1>1. /\ dPc \in {"flush", "drain"} /\ dPending # <<>> /\ dTask[t] = "done"
      /\ g.original = g.size /\ output' = Append(output, t)
      /\ restored' = restored + g.size /\ dPending' = Tail(dPending)
      /\ dPc' = IF dPc = "flush" THEN "read" ELSE "drain"
      /\ UNCHANGED <<dWorkers, dQueue, dTask, info, file, dRaised, fault, next, declared,
                     dTemp, dDest>>
  BY DEF Reader!FlushRestored, Reader!poolVars
<1>2. /\ ~dRaised /\ Len(output) \in Nat /\ t = Len(output) + 1
      /\ t \in Tasks /\ t \in 1..next /\ t \in 1..Len(file.segments)
      /\ Len(dPending) >= 1 /\ Len(dPending) \in Nat
  BY <1>1, OldestResult
<1>3. /\ dPending \in Seq(Tasks) /\ output \in Seq(Tasks) /\ restored \in Nat
      /\ GoodStream(file) /\ g.size \in Nat
  BY <1>2, StreamFacts DEF RInv, ReaderType, Reader!TypeOK, Reader!Tasks, Tasks
<1>4. FrameRestores(g)
  BY <1>1, <1>2 DEF RInv, Tasked, Restores, FrameRestores
<1>5. ReaderType'
  <2> HIDE DEF t, g
  <2>1. output' \in Seq(Tasks) /\ dPending' \in Seq(Tasks) /\ restored' \in Nat
    BY <1>1, <1>2, <1>3
  <2>2. QED
    BY <1>1, <2>1 DEF RInv, ReaderType, GoodStream, Reader!TypeOK, Reader!PoolTypeOK, Reader!Tasks, Tasks
<1>6. Walked' /\ Tasked'
  BY <1>1 DEF RInv, Walked, Admitted, Tasked, Restores
<1>7. Written'
  <2>1. /\ Len(output') = t /\ output'[t] = t
        /\ \A i \in 1..Len(output) : output'[i] = output[i]
    <3> HIDE DEF t
    <3>1. QED
      BY <1>1, <1>2, <1>3
  <2>2. \A i \in 1..Len(output') : output'[i] = i /\ FrameRestores(file.segments[i])
    <3>1. \A i \in 1..Len(output) : output[i] = i /\ FrameRestores(file.segments[i])
      BY DEF RInv, Written
    <3> HIDE DEF t
    <3>2. \A i \in 1..t : i = t \/ i \in 1..Len(output)
      BY <1>2
    <3>3. QED
      BY <2>1, <3>1, <3>2, <1>4 DEF g
  <2>3. restored' = TotalOf(SegmentSizes(file), t)
    <3>1. SegmentSizes(file)[t] = g.size
      BY <1>2, <1>3, StreamFacts
    <3>2. TotalOf(SegmentSizes(file), Len(output) + 1)
            = TotalOf(SegmentSizes(file), Len(output)) + SegmentSizes(file)[Len(output) + 1]
      BY <1>2, TotalUnfolds
    <3>3. QED
      BY <1>1, <1>2, <3>1, <3>2 DEF RInv, Written
  <2>4. /\ Len(dPending') = Len(dPending) - 1
        /\ \A i \in 1..Len(dPending') : dPending'[i] = dPending[i + 1]
    BY <1>1, <1>2, <1>3
  <2>5. /\ Len(output) + Len(dPending) = next
        /\ \A i \in 1..Len(dPending) : dPending[i] = Len(output) + i
    BY <1>2 DEF RInv, Written
  <2>6. /\ Len(output') + Len(dPending') = next
        /\ \A i \in 1..Len(dPending') : dPending'[i] = Len(output') + i
    <3> HIDE DEF t
    <3>1. QED
      BY <1>2, <2>1, <2>4, <2>5
  <2>7. Len(output') <= next
    BY <1>2, <2>1
  <2>8. QED
    BY <1>1, <2>1, <2>2, <2>3, <2>6, <2>7 DEF Written
<1>8. Placed' /\ Justified'
  BY <1>1, <1>2 DEF RInv, Placed, Justified
<1>9. QED
  BY <1>5, <1>6, <1>7, <1>8 DEF RInv

(* What the flush refuses does not restore. *)
LEMMA FlushRejectsRInv ==
  ASSUME RInv, Reader!FlushRejects PROVE RInv'
<1> DEFINE t == Head(dPending)
           g == file.segments[t]
<1>1. /\ dPc \in {"flush", "drain"} /\ dPending # <<>>
      /\ dTask[t] = "failed" \/ g.original # g.size
      /\ dPending' = Tail(dPending) /\ dRaised' = TRUE /\ dPc' = "join"
      /\ UNCHANGED <<dWorkers, dQueue, dTask, info, file, fault, next, declared,
                     output, restored, dTemp, dDest>>
  BY DEF Reader!FlushRejects, Reader!poolVars
<1>2. /\ t \in Tasks /\ t \in 1..next /\ t \in 1..Len(file.segments)
  BY <1>1, OldestResult
<1>3. ~FrameRestores(g)
  BY <1>1, <1>2, StreamFacts DEF RInv, Tasked, Restores, FrameRestores, ReaderType
<1>4. ReaderType'
  <2>1. dPending' \in Seq(Tasks)
    BY <1>1 DEF RInv, ReaderType, Reader!TypeOK, Reader!Tasks, Tasks
  <2>2. QED
    BY <1>1, <2>1 DEF RInv, ReaderType, GoodStream, Reader!TypeOK, Reader!PoolTypeOK, Reader!Tasks, Tasks
<1>5. Walked' /\ Tasked'
  BY <1>1 DEF RInv, Walked, Admitted, Tasked, Restores
<1>6. Written'
  BY <1>1 DEF RInv, Written
<1>7. file = info => ~StreamDecodes(info)
  <2>1. next <= info.count /\ next \in Nat /\ info.count \in Nat
    BY StreamFacts DEF RInv, ReaderType, Reader!TypeOK
  <2>2. t \in 1..info.count
    BY <1>2, <2>1
  <2>3. QED
    BY <1>3, <2>2 DEF StreamDecodes
<1>8. Placed' /\ Justified'
  BY <1>1, <1>7 DEF RInv, Placed, Justified
<1>9. QED
  BY <1>4, <1>5, <1>6, <1>8 DEF RInv

(* On a stream that decodes the totals agree. *)
LEMMA SoundTotals ==
  ASSUME RInv, dPc = "check", file = info, StreamDecodes(info)
  PROVE  TotalsAgreed
<1>1. ~dRaised /\ next = info.count /\ dPending = <<>>
  BY DEF RInv, Placed
<1>2. Len(output) = next
  <2>1. Len(output) + Len(dPending) = next /\ Len(output) \in Nat
    BY <1>1 DEF RInv, Written, ReaderType, Reader!TypeOK
  <2>2. QED
    BY <1>1, <2>1
<1>3. restored = info.original
  BY <1>1, <1>2 DEF RInv, Written, StreamDecodes
<1>4. SubSeq(info.segments, 1, Len(info.segments)) = info.segments
  BY StreamFacts DEF RInv, ReaderType
<1>5. QED
  BY <1>1, <1>3, <1>4 DEF TotalsAgreed, StreamDecodes

(* The steps after the with-block. *)
LEMMA EndsRInv ==
  ASSUME RInv, Reader!CheckTotals \/ Reader!Replace \/ Reader!Cleanup
  PROVE  RInv'
<1>1. /\ UNCHANGED <<dWorkers, dQueue, dTask, dRaised, info, file, fault, next, declared,
                     dPending, output, restored>>
      /\ dPc' \in {"replace", "cleanup", "ok", "error"} /\ dTemp' \in BOOLEAN
  BY DEF Reader!CheckTotals, Reader!Replace, Reader!Cleanup, Reader!Keeps, Reader!poolVars,
         RInv, ReaderType, Reader!TypeOK
<1>2. ReaderType'
  BY <1>1 DEF RInv, ReaderType, GoodStream, Reader!TypeOK, Reader!PoolTypeOK
<1>3. Walked' /\ Tasked' /\ Written'
  BY <1>1 DEF RInv, Walked, Admitted, Tasked, Restores, Written
<1>4. Placed' /\ Justified'
  <2>1. CASE Reader!CheckTotals
    <3>1. /\ dPc = "check" /\ dPc' = IF TotalsAgreed THEN "replace" ELSE "cleanup"
      BY <2>1 DEF Reader!CheckTotals, TotalsAgreed
    <3>2. dPc' = "cleanup" /\ file = info => ~StreamDecodes(info)
      BY <3>1, SoundTotals
    <3>3. QED
      BY <1>1, <3>1, <3>2 DEF RInv, Placed, Justified, TotalsAgreed
  <2>2. CASE Reader!Replace
    BY <1>1, <2>2 DEF Reader!Replace, RInv, Placed, Justified, TotalsAgreed
  <2>3. CASE Reader!Cleanup
    BY <1>1, <2>3 DEF Reader!Cleanup, RInv, Placed, Justified
  <2>4. QED
    BY <2>1, <2>2, <2>3
<1>5. QED
  BY <1>2, <1>3, <1>4 DEF RInv

LEMMA FailsRInv ==
  ASSUME RInv, Reader!Fails PROVE RInv'
<1>1. /\ dPc \in {"inspect", "open", "read", "flush", "drain", "check", "replace"}
      /\ fault' = TRUE /\ dRaised' = TRUE
      /\ dPc' \in {"error", "join", "cleanup"}
      /\ dPc = "inspect" => dPc' = "error"
      /\ UNCHANGED <<dWorkers, dQueue, dTask, info, file, next, declared,
                     dPending, output, restored, dTemp, dDest>>
  BY DEF Reader!Fails, Reader!poolVars
<1>2. ReaderType'
  BY <1>1 DEF RInv, ReaderType, GoodStream, Reader!TypeOK, Reader!PoolTypeOK
<1>3. Walked' /\ Tasked' /\ Written'
  BY <1>1 DEF RInv, Walked, Admitted, Tasked, Restores, Written
<1>4. Placed' /\ Justified'
  BY <1>1 DEF RInv, Placed, Justified
<1>5. QED
  BY <1>2, <1>3, <1>4 DEF RInv

(* The pool: a task says whether its frame restores. *)
LEMMA ReaderPoolRInv ==
  ASSUME RInv, Reader!TaskStarts \/ Reader!TaskEnds PROVE RInv'
<1>1. /\ UNCHANGED <<dWorkers, info, file, dPc, dRaised, fault, next, declared,
                     dPending, output, restored, dTemp, dDest>>
  BY DEF Reader!TaskStarts, Reader!TaskEnds, Reader!StartTask, Reader!FinishTask, Reader!mainVars
<1>2. dTask \in [Tasks -> TaskStates] /\ dQueue \in Seq(Tasks)
  BY DEF RInv, ReaderType, Reader!TypeOK, Reader!PoolTypeOK, Reader!TaskStates, TaskStates,
         Reader!Tasks, Tasks
<1>3. /\ dTask' \in [Tasks -> TaskStates] /\ dQueue' \in Seq(Tasks)
      /\ Tasked'
      /\ dPc \in {"inspect", "open"} =>
           dQueue' = <<>> /\ \A t \in Tasks : dTask'[t] = "new"
  <2>1. CASE Reader!TaskStarts
    <3>1. /\ dQueue # <<>> /\ dTask' = [dTask EXCEPT ![Head(dQueue)] = "running"]
          /\ dQueue' = Tail(dQueue)
      BY <2>1 DEF Reader!TaskStarts, Reader!StartTask
    <3>2. Head(dQueue) \in Tasks /\ dQueue' \in Seq(Tasks)
      BY <1>2, <3>1
    <3>3. PICK h \in Tasks : h = Head(dQueue)
      BY <3>2
    <3>4. \A t \in Tasks : dTask'[t] = IF t = h THEN "running" ELSE dTask[t]
      BY <1>2, <3>1, <3>3
    <3>5. dTask' \in [Tasks -> TaskStates]
      BY <1>2, <3>1, <3>2 DEF TaskStates
    <3>6. dPc \notin {"inspect", "open"}
      BY <3>1 DEF RInv, Placed
    <3>7. QED
      BY <1>1, <3>2, <3>4, <3>5, <3>6 DEF RInv, Tasked, Restores
  <2>2. CASE Reader!TaskEnds
    <3>1. PICK t \in Tasks :
            /\ dTask[t] = "running" /\ UNCHANGED dQueue
            /\ dTask' = [dTask EXCEPT ![t] = IF Restores(t) THEN "done" ELSE "failed"]
      BY <2>2 DEF Reader!TaskEnds, Reader!FinishTask, Restores, Reader!Tasks, Tasks
    <3>2. \A u \in Tasks : dTask'[u] = IF u = t THEN IF Restores(t) THEN "done" ELSE "failed"
                                       ELSE dTask[u]
      BY <1>2, <3>1
    <3>3. dTask' \in [Tasks -> TaskStates]
      BY <1>2, <3>1 DEF TaskStates
    <3>4. \A u \in Tasks : Restores(u)' <=> Restores(u)
      BY <1>1 DEF Restores
    <3>5. Tasked'
      BY <3>2, <3>4 DEF RInv, Tasked
    <3>6. dPc \notin {"inspect", "open"}
      BY <3>1 DEF RInv, Placed
    <3>7. QED
      BY <1>2, <3>1, <3>3, <3>5, <3>6
  <2>3. QED
    BY <2>1, <2>2
<1>4. ReaderType'
  BY <1>1, <1>3 DEF RInv, ReaderType, GoodStream, Reader!TypeOK, Reader!PoolTypeOK,
                    Reader!TaskStates, TaskStates, Reader!Tasks, Tasks
<1>5. Walked' /\ Written'
  BY <1>1 DEF RInv, Walked, Admitted, Written
<1>6. Placed' /\ Justified'
  BY <1>1, <1>3 DEF RInv, Placed, Justified, TotalsAgreed
<1>7. QED
  BY <1>3, <1>4, <1>5, <1>6 DEF RInv

LEMMA NextRInv ==
  ASSUME CompressStreamAssumption, ReaderAssumption, RInv,
         Reader!Next \/ UNCHANGED readerVars
  PROVE  RInv'
<1>1. CASE UNCHANGED readerVars
  <2>1. UNCHANGED <<dWorkers, dQueue, dTask, info, file, dPc, dRaised, fault, next, declared,
                    dPending, output, restored, dTemp, dDest>>
    BY <1>1 DEF readerVars, poolOfReader
  <2>2. ReaderType' /\ Walked' /\ Tasked' /\ Written'
    BY <2>1 DEF RInv, ReaderType, GoodStream, Reader!TypeOK, Reader!PoolTypeOK, Walked,
                Admitted, Tasked, Restores, Written
  <2>3. Placed' /\ Justified'
    BY <2>1 DEF RInv, Placed, Justified, TotalsAgreed
  <2>4. QED
    BY <2>2, <2>3 DEF RInv
<1>2. CASE Reader!Next
  <2>1. CASE Reader!Ended
    BY <1>1, <2>1 DEF Reader!Ended, Reader!vars, Reader!mainVars, Reader!poolVars, readerVars,
                      poolOfReader
  <2>2. QED
    BY <1>2, <2>1, InspectRInv, OpensRInv, ReplacedRInv, SegmentReadRInv, MovesRInv,
       FlushRInv, FlushRejectsRInv, EndsRInv, FailsRInv, ReaderPoolRInv
       DEF Reader!Next, Reader!Main
<1>3. QED
  BY <1>1, <1>2

(* What has passed every check is what the inspected header promises. *)
LEMMA VerdictOfRInv == ASSUME RInv PROVE ReaderVerdict
<1>1. Reader!RefusesOnlyBroken
  BY SameChecks DEF RInv, Justified, Reader!RefusesOnlyBroken
<1>2. ASSUME dPc = "ok" PROVE file.segments = info.payload /\ Len(output) = Len(file.segments)
  <2>1. TotalsAgreed /\ ~dRaised /\ dPending = <<>>
    BY <1>2 DEF RInv, Placed
  <2>2. SubSeq(file.segments, 1, Len(file.segments)) = file.segments
    BY StreamFacts DEF RInv, ReaderType
  <2>3. Len(output) + Len(dPending) = next /\ Len(output) \in Nat
    BY <2>1 DEF RInv, Written, ReaderType, Reader!TypeOK
  <2>4. QED
    BY <2>1, <2>2, <2>3 DEF TotalsAgreed
<1>3. ASSUME dPc = "ok" PROVE StreamDecodes([info EXCEPT !.segments = info.payload])
  <2> DEFINE s == [info EXCEPT !.segments = info.payload]
  <2>1. /\ InspectAccepts(info) /\ info.withinLimit /\ TotalsAgreed /\ next = info.count
    BY <1>3 DEF RInv, Placed
  <2>2. /\ s.wellFormed = info.wellFormed /\ s.withinLimit = info.withinLimit
        /\ s.target = info.target /\ s.slack = info.slack /\ s.original = info.original
        /\ s.count = info.count /\ s.payload = info.payload
        /\ s.payloadSizeOK = info.payloadSizeOK /\ s.manifestOK = info.manifestOK
        /\ s.partial = info.partial /\ s.segments = file.segments
    BY <1>2, <1>3 DEF RInv, ReaderType, GoodStream, StreamType
  <2> HIDE DEF s
  <2>3. InspectAccepts(s)
    BY <2>1, <2>2 DEF InspectAccepts
  <2>4. \A i \in 1..s.count :
          /\ SizeAdmitted(s.segments[i].size, i, s.count, s.target, s.slack)
          /\ s.segments[i].bounded /\ s.segments[i].known
          /\ FrameRestores(s.segments[i])
    <3>1. \A i \in 1..next : Admitted(i) /\ FrameRestores(file.segments[i])
      BY <1>2, <1>3, <2>1 DEF RInv, Walked, Written, TotalsAgreed
    <3>2. QED
      BY <2>1, <2>2, <3>1 DEF Admitted
  <2>5. TotalOf(SegmentSizes(s), s.count) = s.original
    <3>1. SegmentSizes(s) = SegmentSizes(file)
      BY <2>2 DEF SegmentSizes
    <3>2. QED
      BY <1>2, <1>3, <2>1, <2>2, <3>1 DEF RInv, Written, TotalsAgreed
  <2>6. s.count = Len(s.segments) /\ ~s.partial /\ s.withinLimit /\ s.manifestOK
        /\ s.payload = s.segments
    BY <1>2, <1>3, <2>1, <2>2 DEF TotalsAgreed
  <2>7. StreamDecodes(s)
    BY <2>3, <2>4, <2>5, <2>6 DEF StreamDecodes
  <2>8. QED
    BY <2>7 DEF s
<1>4. ASSUME dPc = "ok"
      PROVE  [i \in 1..Len(dDest.output) |-> file.segments[dDest.output[i]]] = info.payload
  <2>1. dDest.output = output
    BY <1>4 DEF RInv, Placed
  <2>2. \A i \in 1..Len(output) : output[i] = i
    BY DEF RInv, Written
  <2>3. file.segments \in Seq(SegmentType)
    <3>1. GoodStream(file)
      BY DEF RInv, ReaderType
    <3>2. QED
      BY ONLY <3>1, StreamFacts
  <2>4. file.segments = [i \in 1..Len(file.segments) |-> file.segments[i]]
    BY ONLY <2>3
  <2>5. QED
    BY <1>2, <1>4, <2>1, <2>2, <2>4
<1>5. QED
  BY <1>1, <1>3, <1>4, SameChecks DEF ReaderVerdict, Reader!PublishesInspected

--------------------------------------------------------------------------------
(* Both, one after the other. *)

BothInv ==
  /\ IInv /\ CInv /\ RInv
  /\ turn \in {"compress", "decompress"}
  /\ turn = "compress" => ReaderRests
  /\ turn = "decompress" /\ dest.new => info = Published

LEMMA InitBothInv ==
  ASSUME CompressStreamAssumption, ReaderAssumption PROVE RoundTripInit => BothInv
<1>1. ASSUME turn = "compress", Init, ReaderIdle PROVE BothInv
  <2>1. IInv /\ CInv
    BY <1>1, InitIInv, InitCInv
  <2>2. GoodStream(info) /\ file = info /\ dWorkers \in 1..MaxConcurrency /\ ReaderRests
    BY <1>1, <2>1, PublishedIsGood DEF ReaderIdle, ReaderRests, CompressStreamAssumption
  <2>3. QED
    BY <1>1, <2>1, <2>2, RestsRInv DEF BothInv, Called
<1>2. ASSUME turn = "decompress", CompressorIdle, Reader!Init PROVE BothInv
  <2>1. Init
    BY <1>2 DEF CompressorIdle, Init, CompressStreamAssumption
  <2>2. IInv /\ CInv /\ ~dest.new
    BY <1>2, <2>1, InitIInv, InitCInv DEF CompressorIdle, Old
  <2>3. /\ GoodStream(info) /\ file = info
    BY <1>2 DEF Reader!Init, ReaderAssumption, GoodStream
  <2>4. dWorkers \in 1..MaxConcurrency /\ ReaderRests
    BY <1>2 DEF Reader!Init, Reader!PoolInit, ReaderRests, Reader!Tasks, Tasks
  <2>5. QED
    BY <1>2, <2>2, <2>3, <2>4, RestsRInv DEF BothInv, Called
<1>3. QED
  BY <1>1, <1>2 DEF RoundTripInit

LEMMA NextBothInv ==
  ASSUME CompressStreamAssumption, ReaderAssumption
  PROVE  BothInv /\ [RoundTripNext]_allVars => BothInv'
<1> SUFFICES ASSUME BothInv, [RoundTripNext]_allVars PROVE BothInv'
  OBVIOUS
<1> USE DEF BothInv
<1>1. CASE Compress
  <2>1. Next /\ turn = "compress" /\ UNCHANGED turn /\ UNCHANGED readerVars
    BY <1>1 DEF Compress
  <2>2. IInv' /\ CInv' /\ RInv'
    BY <2>1, NextIInv, NextCInv, NextRInv
  <2>3. ReaderRests'
    BY <2>1 DEF ReaderRests, readerVars, poolOfReader, Reader!Old
  <2>4. QED
    BY <2>1, <2>2, <2>3
<1>2. CASE Decompress
  <2>1. Reader!Next /\ turn = "decompress" /\ UNCHANGED turn /\ UNCHANGED vars
    BY <1>2 DEF Decompress
  <2>2. IInv' /\ CInv' /\ RInv'
    BY <2>1, NextIInv, NextCInv, NextRInv
  <2>3. UNCHANGED dest
    BY <2>1 DEF vars, mainVars
  <2>4. dest.new => info = Published /\ UNCHANGED info
    <3>1. UNCHANGED info
      BY <2>1 DEF Reader!Next, Reader!Main, Reader!Inspect, Reader!Open, Reader!ReadSegment,
         Reader!ReadRejects, Reader!AllRead, Reader!FlushRestored, Reader!FlushRejects,
         Reader!Drained, Reader!Join, Reader!CheckTotals, Reader!Replace, Reader!Cleanup,
         Reader!Keeps, Reader!Fails, Reader!Replaced, Reader!TaskStarts, Reader!TaskEnds,
         Reader!Ended, Reader!vars, Reader!mainVars
    <3>2. QED
      BY <2>1, <3>1
  <2>5. Published' = Published
    BY <2>3 DEF Published
  <2>6. QED
    BY <2>1, <2>2, <2>3, <2>4, <2>5
<1>3. CASE HandOver
  <2>1. /\ turn = "compress" /\ turn' = "decompress" /\ info' = Published /\ file' = info'
        /\ dWorkers' \in 1..MaxConcurrency /\ UNCHANGED vars
        /\ UNCHANGED <<dQueue, dTask, dPc, dRaised, fault, next, declared, dPending, output,
                       restored, dTemp, dDest>>
    BY <1>3 DEF HandOver
  <2>2. IInv' /\ CInv'
    BY <2>1, NextIInv, NextCInv
  <2>3. Published' = Published
    BY <2>1 DEF Published, vars, mainVars
  <2>4. GoodStream(info)' /\ ReaderRests'
    BY <2>1, PublishedIsGood DEF ReaderRests, GoodStream, Reader!Old
  <2>5. RInv'
    BY <2>1, <2>4, RestsRInvNext DEF Called
  <2>6. QED
    BY <2>1, <2>2, <2>3, <2>5
<1>4. CASE UNCHANGED allVars
  <2>1. UNCHANGED vars /\ UNCHANGED readerVars /\ UNCHANGED turn
    BY <1>4 DEF allVars
  <2>2. IInv' /\ CInv' /\ RInv'
    BY <2>1, NextIInv, NextCInv, NextRInv
  <2>3. ReaderRests' <=> ReaderRests
    BY <2>1 DEF ReaderRests, readerVars, poolOfReader, Reader!Old
  <2>4. Published' = Published /\ UNCHANGED <<dest, info>>
    BY <2>1 DEF Published, vars, mainVars, readerVars
  <2>5. QED
    BY <2>1, <2>2, <2>3, <2>4
<1>5. QED
  BY <1>1, <1>2, <1>3, <1>4 DEF RoundTripNext

(* Every reachable state of both is one of BothInv. *)
THEOREM RoundTripInvariant ==
  ASSUME CompressStreamAssumption, ReaderAssumption PROVE RoundTripSpec => []BothInv
  BY InitBothInv, NextBothInv, PTL DEF RoundTripSpec

(* decompress_stream publishes what the inspected header promises and the  *)
(* caller's limit admits, whatever stream is there and however it is       *)
(* exchanged, and refuses a stream that is left in place only if it does   *)
(* not decode or the call met a failure of its own.                        *)
THEOREM VerdictHolds ==
  ASSUME CompressStreamAssumption, ReaderAssumption PROVE RoundTripSpec => []ReaderVerdict
<1>1. BothInv => ReaderVerdict
  BY VerdictOfRInv DEF BothInv
<1>2. QED
  BY <1>1, RoundTripInvariant, PTL

(* What compress_stream publishes is a stream decompress_stream accepts,   *)
(* unless the source both grew and shrank while it was read; and then      *)
(* every chunk comes back, in order.                                       *)
THEOREM RestoresWhatWasRead ==
  ASSUME CompressStreamAssumption, ReaderAssumption PROVE RoundTripSpec => []ReadsBack
<1>1. BothInv => ReadsBack
  <2> SUFFICES ASSUME BothInv, turn = "decompress", dest.new, kinds # {"grew", "shrank"},
                      dPc \in {"ok", "error"}, file = info, ~fault
               PROVE  /\ dPc = "ok"
                      /\ [i \in 1..Len(dDest.output) |-> file.segments[dDest.output[i]].size] = sizes
    BY DEF ReadsBack
  <2>1. info = Published /\ StreamDecodes(info)
    BY PublishedIsRead DEF BothInv
  <2>2. dPc = "ok"
    BY <2>1 DEF BothInv, RInv, Justified
  <2>3. dDest.output = output /\ TotalsAgreed /\ next = info.count
        /\ ~dRaised /\ dPending = <<>>
    BY <2>2 DEF BothInv, RInv, Placed
  <2>4. Len(output) = next /\ \A i \in 1..Len(output) : output[i] = i
    <3>1. Len(output) + Len(dPending) = next /\ Len(output) \in Nat
      BY <2>3 DEF BothInv, RInv, Written, ReaderType, Reader!TypeOK
    <3>2. QED
      BY <2>3, <3>1 DEF BothInv, RInv, Written
  <2>5. /\ info.segments = [i \in 1..Len(sizes) |-> GoodSegment(sizes[i])]
        /\ info.count = Len(sizes)
    BY <2>1, PublishedSegments DEF BothInv
  <2>6. \A i \in 1..Len(sizes) : file.segments[output[i]].size = sizes[i]
    BY <2>3, <2>4, <2>5 DEF GoodSegment
  <2>7. sizes = [i \in 1..Len(sizes) |-> sizes[i]]
    BY DEF BothInv, IInv, TypeOK
  <2>8. QED
    BY <2>2, <2>3, <2>4, <2>5, <2>6, <2>7
<1>2. QED
  BY <1>1, RoundTripInvariant, PTL

(* A call of decompress_stream alone, on any stream and with any exchange  *)
(* of the file, is a behaviour of OrderedStream: the segments of the file  *)
(* that is walked are written in their order there, and published only     *)
(* with as many as the header that was inspected has.                      *)
THEOREM ReaderRefinement ==
  ASSUME CompressStreamAssumption, ReaderAssumption
  PROVE  Reader!Spec => Reader!ImplementsOrderedStream
<1> DEFINE res == CASE dPc = "ok" -> "published"
                    [] dPc = "error" -> "failed"
                    [] OTHER -> "running"
<1>1. res = IF dPc = "ok" THEN "published" ELSE IF dPc = "error" THEN "failed" ELSE "running"
  OBVIOUS
<1>2. res' = IF dPc' = "ok" THEN "published"
             ELSE IF dPc' = "error" THEN "failed" ELSE "running"
  OBVIOUS
<1>3. Reader!Init => RInv /\ Reader!Restoring!StreamInit
  <2> SUFFICES ASSUME Reader!Init PROVE RInv /\ Reader!Restoring!StreamInit
    OBVIOUS
  <2>1. GoodStream(info) /\ file = info /\ dWorkers \in 1..MaxConcurrency /\ ReaderRests
    BY DEF Reader!Init, Reader!PoolInit, ReaderRests, Reader!Tasks, Tasks, ReaderAssumption,
           GoodStream
  <2>2. RInv
    BY <2>1, RestsRInv DEF Called
  <2>3. dPc = "inspect" /\ output = <<>> /\ info.count \in Nat
    BY <2>1, StreamFacts DEF ReaderRests
  <2>4. QED
    BY <1>1, <2>2, <2>3 DEF Reader!Restoring!StreamInit
<1>4. RInv /\ [Reader!Next]_(Reader!vars) => RInv'
  BY NextRInv DEF Reader!vars, Reader!mainVars, Reader!poolVars, readerVars, poolOfReader
<1>5. ASSUME RInv, [Reader!Next]_(Reader!vars)
      PROVE  [Reader!Restoring!StreamNext]_(Reader!Restoring!streamVars)
  <2>1. SUFFICES \/ UNCHANGED <<info.count, output>> /\ res' = res
                 \/ /\ res = "running" /\ res' = "running" /\ Len(output) < info.count
                    /\ output' = Append(output, Len(output) + 1) /\ info.count' = info.count
                 \/ /\ res = "running" /\ res' = "published" /\ Len(output) = info.count
                    /\ UNCHANGED <<info.count, output>>
                 \/ /\ res = "running" /\ res' = "failed"
                    /\ UNCHANGED <<info.count, output>>
    BY <1>5 DEF Reader!Restoring!StreamNext, Reader!Restoring!streamVars,
         Reader!Restoring!Emit, Reader!Restoring!PublishAll, Reader!Restoring!GiveUp
  <2> HIDE DEF res
  <2>2. CASE Reader!FlushRestored
    <3>1. /\ dPc \in {"flush", "drain"} /\ dPc' \in {"read", "drain"} /\ dPending # <<>>
          /\ output' = Append(output, Head(dPending)) /\ UNCHANGED info
      BY <2>2 DEF Reader!FlushRestored
    <3>2. PICK t : t = Head(dPending)
      OBVIOUS
    <3>3. /\ t = Len(output) + 1 /\ t \in Tasks /\ t \in 1..next
          /\ Len(output) \in Nat /\ output \in Seq(Tasks)
      BY <1>5, <3>1, <3>2, OldestResult DEF RInv, ReaderType, Reader!TypeOK, Reader!Tasks, Tasks
    <3>4. next <= info.count /\ next \in Nat /\ info.count \in Nat
      BY <1>5, StreamFacts DEF RInv, ReaderType, Reader!TypeOK
    <3>5. output' = Append(output, Len(output) + 1) /\ Len(output) < info.count
      BY <3>1, <3>2, <3>3, <3>4
    <3>6. QED
      BY <3>1, <3>5, <1>1, <1>2
  <2>3. CASE Reader!Replace
    <3>1. dPc = "replace" /\ dPc' = "ok" /\ UNCHANGED <<info, output>>
      BY <2>3 DEF Reader!Replace
    <3>2. ~dRaised /\ next = info.count /\ dPending = <<>>
      BY <1>5, <3>1 DEF RInv, Placed
    <3>3. Len(output) + Len(dPending) = next /\ Len(output) \in Nat
      BY <1>5, <3>2 DEF RInv, Written, ReaderType, Reader!TypeOK
    <3>4. Len(output) = info.count
      BY <3>2, <3>3
    <3>5. QED
      BY <3>1, <3>4, <1>1, <1>2
  <2>4. CASE Reader!Cleanup \/ Reader!Inspect \/ Reader!Fails
    <3>1. /\ dPc \notin {"ok", "error"} /\ dPc' # "ok" /\ UNCHANGED <<info, output>>
      BY <2>4 DEF Reader!Cleanup, Reader!Inspect, Reader!Fails, Reader!Keeps
    <3>2. QED
      BY <3>1, <1>1, <1>2
  <2>5. CASE \/ Reader!Open \/ Reader!ReadSegment \/ Reader!ReadRejects \/ Reader!AllRead
             \/ Reader!FlushRejects \/ Reader!Drained \/ Reader!Join \/ Reader!CheckTotals
             \/ Reader!Replaced
    <3>1. /\ dPc \notin {"ok", "error"} /\ dPc' \notin {"ok", "error"}
          /\ UNCHANGED <<info, output>>
      BY <2>5 DEF Reader!Open, Reader!ReadSegment, Reader!ReadRejects, Reader!AllRead,
           Reader!FlushRejects, Reader!Drained, Reader!Join, Reader!CheckTotals,
           Reader!Replaced, Reader!Keeps
    <3>2. QED
      BY <3>1, <1>1, <1>2
  <2>6. CASE \/ Reader!TaskStarts \/ Reader!TaskEnds \/ Reader!Ended
             \/ UNCHANGED Reader!vars
    <3>1. UNCHANGED <<info, output, dPc>>
      BY <2>6 DEF Reader!TaskStarts, Reader!TaskEnds, Reader!Ended, Reader!vars,
           Reader!mainVars
    <3>2. QED
      BY <3>1, <1>1, <1>2
  <2>7. QED
    BY <1>5, <2>2, <2>3, <2>4, <2>5, <2>6 DEF Reader!Next, Reader!Main
<1>6. QED
  BY <1>3, <1>4, <1>5, PTL DEF Reader!Spec, Reader!ImplementsOrderedStream,
     Reader!Restoring!StreamSpec
================================================================================
