------------------------------ MODULE Jls2Proofs ------------------------------
(***************************************************************************)
(* Proofs about the three programs that meet in a JLS2 file, for every     *)
(* number of segments and threads and for every set of streams: what       *)
(* compress_file publishes, the verdicts of its readers in Python and in   *)
(* Rust, and that the one reads back as the other was given it.            *)
(***************************************************************************)
EXTENDS Jls2RoundTrip, Sums, SequenceTheorems, FiniteSetTheorems, TLAPS

--------------------------------------------------------------------------------
(* compress_file.                                                          *)

(* The deque and the file, while no exception is on its way: the deque     *)
(* holds the segments after those in the file, oldest first.               *)
DequeInv ==
  ~raised =>
    /\ Len(digest) = Len(frames) + Len(pending)
    /\ \A i \in 1..Len(pending) : pending[i] = Len(frames) + i

(* The pool's queue holds each queued task once, and only tasks of         *)
(* segments that were read and whose frames are not yet written are active. *)
PoolInv ==
  /\ \A i \in 1..Len(queue) : task[queue[i]] = "queued"
  /\ \A i, j \in 1..Len(queue) : queue[i] = queue[j] => i = j
  /\ \A t \in Tasks : t > Len(digest) => task[t] = "new"
  /\ ~raised =>
       \A t \in Tasks : task[t] \in {"queued", "running"} => t > Len(frames)

(* What holds at each place of compress_file. *)
PhaseInv ==
  /\ raised => pc \in {"join", "cleanup", "error"}
  /\ pc = "read" => Len(pending) < workers
  /\ pc = "flush" => pending # <<>>
  /\ pc \in {"drain", "patch", "publish", "ok"} => Len(digest) = total
  /\ pc = "join" /\ ~raised => Len(digest) = total /\ pending = <<>>
  /\ pc \in {"patch", "publish", "ok"} => pending = <<>> /\ ~raised
  /\ pc \in {"patch", "publish", "cleanup", "ok", "error"} => AllFinished
  /\ pc \in {"publish", "ok"} =>
       header = [count |-> Len(frames), source |-> digest,
                 encoded |-> encodedDigest]
  /\ pc = "ok" => dest = [header |-> header, frames |-> frames, present |-> TRUE]
  /\ pc # "ok" => dest = Nothing
  /\ pc = "error" => ~temp

(* The inductive invariant. *)
IInv ==
  /\ TypeOK
  /\ \A i \in 1..Len(frames) : frames[i] = i
  /\ \A i \in 1..Len(digest) : digest[i] = i
  /\ encodedDigest = frames
  /\ Len(digest) <= total /\ Len(frames) <= Len(digest)
  /\ Len(pending) <= workers
  /\ DequeInv /\ PoolInv /\ PhaseInv
------------------------------------------------------------------------------
LEMMA InitIInv == Init => IInv
<1> SUFFICES ASSUME Init PROVE IInv
  OBVIOUS
<1>1. TypeOK
  <2>1. workers \in 1..MaxWorkers /\ queue = <<>> /\ task = [t \in Tasks |-> "new"]
    BY DEF Init, PoolInit
  <2>2. PoolTypeOK /\ workers <= MaxWorkers
    BY <2>1, CompressAssumption DEF PoolTypeOK, TaskStates
  <2>3. /\ total \in 0..MaxSegments /\ pc \in Phases
        /\ raised \in BOOLEAN /\ temp \in BOOLEAN
    BY DEF Init, Phases
  <2>4. /\ digest \in Seq(Tasks) /\ pending \in Seq(Tasks)
        /\ frames \in Seq(Tasks) /\ encodedDigest \in Seq(Tasks)
    BY DEF Init
  <2>5. QED
    BY <2>2, <2>3, <2>4 DEF TypeOK
<1>2. DequeInv
  BY DEF Init, DequeInv
<1>3. PoolInv
  BY DEF Init, PoolInv, PoolInit
<1>4. PhaseInv
  BY CompressAssumption DEF Init, PhaseInv, PoolInit
<1>5. QED
  BY <1>1, <1>2, <1>3, <1>4, CompressAssumption DEF Init, IInv, PoolInit, Tasks

(* Appending to a sequence of tasks. *)
LEMMA AppendProps ==
  ASSUME NEW S, NEW s \in Seq(S), NEW e \in S
  PROVE  /\ Append(s, e) \in Seq(S)
         /\ Len(Append(s, e)) = Len(s) + 1
         /\ Append(s, e) # <<>>
         /\ \A i \in 1..Len(s) : Append(s, e)[i] = s[i]
         /\ Append(s, e)[Len(s) + 1] = e
  OBVIOUS

(* Taking the oldest element off a sequence. *)
LEMMA TailProps ==
  ASSUME NEW S, NEW s \in Seq(S), s # <<>>
  PROVE  /\ Head(s) \in S /\ Head(s) = s[1]
         /\ Tail(s) \in Seq(S)
         /\ Len(s) \in Nat /\ Len(s) > 0
         /\ Len(Tail(s)) = Len(s) - 1
         /\ \A i \in 1..(Len(s) - 1) : Tail(s)[i] = s[i + 1]
  OBVIOUS

LEMMA ReadSegmentInv == ASSUME IInv, ReadSegment PROVE IInv'
<1> DEFINE seg == Len(digest) + 1
<1> USE DEF ReadSegment, Submit
<1>1. seg \in Tasks /\ total \in Nat /\ workers \in Nat \ {0}
  BY CompressAssumption DEF IInv, TypeOK, PoolTypeOK, Tasks
<1>2. /\ digest' = Append(digest, seg) /\ pending' = Append(pending, seg)
      /\ queue' = Append(queue, seg) /\ task' = [task EXCEPT ![seg] = "queued"]
  OBVIOUS
<1>3. TypeOK'
  BY <1>1, <1>2, AppendProps DEF IInv, TypeOK, PoolTypeOK, TaskStates, Phases
<1>4. ~raised /\ ~raised'
  BY DEF IInv, PhaseInv
<1>5. /\ Len(digest') = Len(digest) + 1 /\ \A i \in 1..Len(digest') : digest'[i] = i
      /\ Len(digest') <= total' /\ Len(frames') <= Len(digest')
      /\ Len(pending') <= workers'
  BY <1>1, <1>2, AppendProps DEF IInv, TypeOK, PhaseInv
<1>6. DequeInv'
  <2> DEFINE n == Len(pending)
  <2>1. n \in Nat /\ pending \in Seq(Tasks) /\ Len(frames) \in Nat
    BY DEF IInv, TypeOK
  <2>2. Len(digest) = Len(frames) + n /\ \A i \in 1..n : pending[i] = Len(frames) + i
    BY <1>4 DEF IInv, DequeInv
  <2>3. Len(pending') = n + 1 /\ Len(digest') = Len(digest) + 1
    BY <1>1, <1>2, <1>5, <2>1, AppendProps
  <2>4. \A i \in 1..n : pending'[i] = pending[i]
    BY <1>1, <1>2, <2>1, AppendProps
  <2>5. pending'[n + 1] = Len(frames) + (n + 1)
    BY <1>1, <1>2, <2>1, <2>2, AppendProps
  <2>6. \A i \in 1..(n + 1) : pending'[i] = Len(frames) + i
    BY <2>1, <2>2, <2>4, <2>5
  <2>7. Len(digest') = Len(frames') + Len(pending')
    BY <1>1, <2>1, <2>2, <2>3
  <2>8. QED
    BY <2>3, <2>6, <2>7 DEF DequeInv
<1>7. PoolInv'
  <2>1. task[seg] = "new"
    BY <1>1 DEF IInv, PoolInv, TypeOK
  <2>2. \A i \in 1..Len(queue) : queue[i] # seg /\ queue[i] \in Tasks
    BY <2>1 DEF IInv, PoolInv, TypeOK, PoolTypeOK
  <2>3. \A i \in 1..Len(queue') : task'[queue'[i]] = "queued"
    BY <1>1, <1>2, <2>2, AppendProps DEF IInv, PoolInv, TypeOK, PoolTypeOK
  <2>4. \A i, j \in 1..Len(queue') : queue'[i] = queue'[j] => i = j
    BY <1>1, <1>2, <2>2, AppendProps DEF IInv, PoolInv, TypeOK, PoolTypeOK
  <2>5. \A t \in Tasks : t > Len(digest') => task'[t] = "new"
    BY <1>1, <1>2, <1>5 DEF IInv, PoolInv, TypeOK, PoolTypeOK, Tasks
  <2>6. \A t \in Tasks : task'[t] \in {"queued", "running"} => t > Len(frames')
    BY <1>1, <1>2, <1>4 DEF IInv, PoolInv, TypeOK, PoolTypeOK, Tasks
  <2>7. QED
    BY <2>3, <2>4, <2>5, <2>6 DEF PoolInv
<1>8. PhaseInv'
  BY <1>1, <1>2, <1>4, AppendProps DEF IInv, PhaseInv, TypeOK, AllFinished
<1>9. QED
  BY <1>3, <1>5, <1>6, <1>7, <1>8 DEF IInv

LEMMA WriteNextInv == ASSUME IInv, WriteNext PROVE IInv'
<1> DEFINE seg == Head(pending)
<1> USE DEF WriteNext, poolVars
<1>1. /\ pending \in Seq(Tasks) /\ pending # <<>> /\ frames \in Seq(Tasks)
      /\ digest \in Seq(Tasks) /\ workers \in Nat /\ total \in Nat
  BY CompressAssumption DEF IInv, TypeOK, PoolTypeOK
<1>2. /\ seg \in Tasks /\ pending' \in Seq(Tasks) /\ Len(pending) > 0
      /\ Len(pending) \in Nat /\ Len(pending') = Len(pending) - 1
      /\ \A i \in 1..Len(pending') : pending'[i] = pending[i + 1]
      /\ seg = pending[1]
  BY <1>1, TailProps
<1>3. ~raised /\ ~raised'
  BY DEF IInv, PhaseInv
<1>4. seg = Len(frames) + 1 /\ Len(digest) = Len(frames) + Len(pending)
  BY <1>1, <1>2, <1>3 DEF IInv, DequeInv
<1>5. /\ frames' \in Seq(Tasks) /\ Len(frames') = Len(frames) + 1
      /\ \A i \in 1..Len(frames) : frames'[i] = frames[i]
      /\ frames'[Len(frames) + 1] = seg
      /\ encodedDigest' = frames'
  BY <1>1, <1>2, AppendProps DEF IInv
<1>6. TypeOK'
  BY <1>2, <1>5 DEF IInv, TypeOK, PoolTypeOK, Phases
<1>7. \A i \in 1..Len(frames') : frames'[i] = i
  BY <1>1, <1>4, <1>5 DEF IInv
<1>8. DequeInv'
  BY <1>1, <1>2, <1>3, <1>4, <1>5 DEF IInv, DequeInv
<1>9. PoolInv'
  <2>1. task[seg] = "done" /\ task' = task /\ queue' = queue /\ digest' = digest
    OBVIOUS
  <2>2. \A t \in Tasks : task[t] \in {"queued", "running"} => t > Len(frames')
    BY <1>1, <1>3, <1>4, <1>5, <2>1 DEF IInv, PoolInv, Tasks
  <2>3. QED
    BY <2>1, <2>2 DEF IInv, PoolInv
<1>10. PhaseInv'
  BY <1>1, <1>2, <1>3 DEF IInv, PhaseInv
<1>11. QED
  BY <1>1, <1>2, <1>4, <1>5, <1>6, <1>7, <1>8, <1>9, <1>10 DEF IInv

(* The other steps of compress_file move no segment. *)
LEMMA MainInv == ASSUME IInv, Main PROVE IInv'
<1> USE DEF poolVars
<1>1. CASE ReadSegment
  BY <1>1, ReadSegmentInv
<1>2. CASE WriteNext
  BY <1>2, WriteNextInv
<1>3. CASE EndOfSource
  BY <1>3 DEF EndOfSource, IInv, TypeOK, PoolTypeOK, DequeInv, PoolInv, PhaseInv, Phases
<1>4. CASE ReadRaises
  BY <1>4 DEF ReadRaises, IInv, TypeOK, PoolTypeOK, DequeInv, PoolInv, PhaseInv, Phases
<1>5. CASE WriteNextRaises
  <2>1. pending' \in Seq(Tasks) /\ Len(pending') <= workers'
    BY <1>5, TailProps DEF WriteNextRaises, IInv, TypeOK, PoolTypeOK
  <2>2. QED
    BY <1>5, <2>1 DEF WriteNextRaises, IInv, TypeOK, PoolTypeOK, DequeInv, PoolInv, PhaseInv, Phases
<1>6. CASE Drained
  BY <1>6 DEF Drained, IInv, TypeOK, PoolTypeOK, DequeInv, PoolInv, PhaseInv, Phases
<1>7. CASE Join
  BY <1>7 DEF Join, IInv, TypeOK, PoolTypeOK, DequeInv, PoolInv, PhaseInv, Phases, AllFinished
<1>8. CASE PatchHeader
  BY <1>8 DEF PatchHeader, IInv, TypeOK, PoolTypeOK, DequeInv, PoolInv, PhaseInv, Phases, AllFinished
<1>9. CASE Publish
  BY ZenonT(30), <1>9 DEF Publish, IInv, TypeOK, PoolTypeOK, DequeInv, PoolInv, PhaseInv, Phases, AllFinished
<1>10. CASE FinishRaises
  BY <1>10 DEF FinishRaises, IInv, TypeOK, PoolTypeOK, DequeInv, PoolInv, PhaseInv, Phases, AllFinished
<1>11. CASE Cleanup
  BY ZenonT(30), <1>11 DEF Cleanup, IInv, TypeOK, PoolTypeOK, DequeInv, PoolInv, PhaseInv, Phases, AllFinished
<1>12. QED
  BY <1>1, <1>2, <1>3, <1>4, <1>5, <1>6, <1>7, <1>8, <1>9, <1>10, <1>11 DEF Main

(* A pool thread takes the oldest task: it was queued, so the call is      *)
(* still inside its with-block.                                            *)
LEMMA TaskStartsInv == ASSUME IInv, TaskStarts PROVE IInv'
<1> DEFINE t0 == Head(queue)
<1> USE DEF TaskStarts, StartTask, mainVars
<1>1. queue \in Seq(Tasks) /\ queue # <<>> /\ task \in [Tasks -> TaskStates]
  BY DEF IInv, TypeOK, PoolTypeOK
<1>2. /\ t0 \in Tasks /\ queue' \in Seq(Tasks) /\ t0 = queue[1]
      /\ Len(queue) \in Nat /\ Len(queue) > 0 /\ Len(queue') = Len(queue) - 1
      /\ \A i \in 1..Len(queue') : queue'[i] = queue[i + 1]
  BY <1>1, TailProps
<1>3. task[t0] = "queued" /\ \A i \in 1..Len(queue') : queue'[i] # t0
  BY <1>2 DEF IInv, PoolInv
<1>4. task' = [task EXCEPT ![t0] = "running"]
  OBVIOUS
<1>5. ~AllFinished
  BY <1>2, <1>3 DEF AllFinished
<1>6. TypeOK'
  BY <1>1, <1>2, <1>4 DEF IInv, TypeOK, PoolTypeOK, TaskStates
<1>7. PoolInv'
  <2>1. \A i \in 1..Len(queue') : task'[queue'[i]] = "queued"
    BY <1>1, <1>2, <1>3, <1>4 DEF IInv, PoolInv
  <2>2. \A i, j \in 1..Len(queue') : queue'[i] = queue'[j] => i = j
    BY <1>2 DEF IInv, PoolInv
  <2>3. \A t \in Tasks : t > Len(digest') => task'[t] = "new"
    BY <1>1, <1>3, <1>4 DEF IInv, PoolInv
  <2>4. ~raised' => \A t \in Tasks : task'[t] \in {"queued", "running"} => t > Len(frames')
    BY <1>1, <1>3, <1>4 DEF IInv, PoolInv
  <2>5. QED
    BY <2>1, <2>2, <2>3, <2>4 DEF PoolInv
<1>8. QED
  BY <1>5, <1>6, <1>7 DEF IInv, DequeInv, PhaseInv

LEMMA TaskEndsInv == ASSUME IInv, TaskEnds PROVE IInv'
<1> USE DEF TaskEnds, FinishTask, mainVars
<1>1. PICK t0 \in Tasks, outcome \in {"done", "failed"} :
        task[t0] = "running" /\ task' = [task EXCEPT ![t0] = outcome]
  OBVIOUS
<1>2. task \in [Tasks -> TaskStates] /\ queue \in Seq(Tasks)
  BY DEF IInv, TypeOK, PoolTypeOK
<1>3. ~AllFinished
  BY <1>1 DEF AllFinished
<1>4. TypeOK'
  BY <1>1, <1>2 DEF IInv, TypeOK, PoolTypeOK, TaskStates
<1>5. \A i \in 1..Len(queue) : queue[i] # t0 /\ queue[i] \in Tasks
  BY <1>1, <1>2 DEF IInv, PoolInv
<1>6. PoolInv'
  BY <1>1, <1>2, <1>5 DEF IInv, PoolInv
<1>7. QED
  BY <1>3, <1>4, <1>6 DEF IInv, DequeInv, PhaseInv

LEMMA NextIInv == IInv /\ [Next]_vars => IInv'
<1>1. IInv /\ UNCHANGED vars => IInv'
  BY DEF vars, poolVars, mainVars, IInv, TypeOK, PoolTypeOK, DequeInv, PoolInv,
         PhaseInv, AllFinished
<1>2. QED
  BY <1>1, MainInv, TaskStartsInv, TaskEndsInv DEF Next, Ended

THEOREM Invariance == Spec => []IInv
  BY InitIInv, NextIInv, PTL DEF Spec

(* The types of the variables. *)
THEOREM TypeCorrect == Spec => []TypeOK
<1>1. IInv => TypeOK
  BY DEF IInv
<1>2. QED
  BY Invariance, <1>1, PTL

(* No segment is lost, duplicated or written out of order. *)
THEOREM InOrder == Spec => []NothingLost
<1>1. IInv => NothingLost
  <2> SUFFICES ASSUME IInv PROVE NothingLost
    OBVIOUS
  <2>1. /\ frames \in Seq(Tasks) /\ digest \in Seq(Tasks) /\ pending \in Seq(Tasks)
        /\ Len(frames) \in Nat /\ Len(pending) \in Nat
    BY DEF IInv, TypeOK
  <2>2. frames = FirstSegments(Len(frames))
    BY <2>1 DEF IInv, FirstSegments
  <2>3. ASSUME ~raised PROVE frames \o pending = digest
    <3>1. /\ Len(digest) = Len(frames) + Len(pending)
          /\ \A i \in 1..Len(pending) : pending[i] = Len(frames) + i
      BY <2>3 DEF IInv, DequeInv
    <3>2. /\ frames \o pending \in Seq(Tasks)
          /\ Len(frames \o pending) = Len(digest)
          /\ \A i \in 1..Len(digest) : (frames \o pending)[i] =
                IF i <= Len(frames) THEN frames[i] ELSE pending[i - Len(frames)]
      BY <2>1, <3>1, ConcatProperties
    <3>3. \A i \in 1..Len(digest) : (frames \o pending)[i] = digest[i]
      BY SMTT(30), <2>1, <3>1, <3>2 DEF IInv
    <3>4. QED
      BY <2>1, <3>2, <3>3, SeqEqual
  <2>4. QED
    BY <2>2, <2>3 DEF NothingLost
<1>2. QED
  BY Invariance, <1>1, PTL

(* What is published decodes to the whole source. *)
THEOREM Published == Spec => []PublishedDecodes
<1>1. IInv => PublishedDecodes
  <2> SUFFICES ASSUME IInv, dest.present
               PROVE  /\ dest.frames = FirstSegments(total)
                      /\ dest.header = [count |-> total,
                                        source |-> FirstSegments(total),
                                        encoded |-> dest.frames]
    BY DEF PublishedDecodes
  <2>1. pc = "ok"
    BY DEF IInv, PhaseInv, Nothing
  <2>2. /\ dest.header = header /\ dest.frames = frames
        /\ header = [count |-> Len(frames), source |-> digest, encoded |-> frames]
        /\ Len(digest) = total /\ pending = <<>> /\ ~raised
    BY <2>1 DEF IInv, PhaseInv
  <2>3. Len(frames) = total /\ Len(frames) \in Nat
    BY <2>2 DEF IInv, DequeInv, TypeOK
  <2>4. frames = FirstSegments(total) /\ digest = FirstSegments(total)
    BY <2>2, <2>3 DEF IInv, TypeOK, FirstSegments
  <2>5. QED
    BY <2>2, <2>3, <2>4
<1>2. QED
  BY Invariance, <1>1, PTL

(* At most `workers` segments wait or are worked on. *)
THEOREM MemoryBounded == Spec => []BoundedPending
<1>1. IInv => BoundedPending
  <2> SUFFICES ASSUME IInv PROVE BoundedPending
    OBVIOUS
  <2> DEFINE active == {t \in Tasks : task[t] \in {"queued", "running"}}
             held == (Len(frames) + 1)..Len(digest)
  <2>1. Len(frames) \in Nat /\ Len(digest) \in Nat /\ Len(pending) \in Nat
    BY DEF IInv, TypeOK
  <2>2. ASSUME ~raised PROVE Cardinality(active) <= Len(pending)
    <3>1. active \subseteq held
      BY <2>1, <2>2 DEF IInv, PoolInv, TypeOK, Tasks
    <3>2. IsFiniteSet(held) /\ Cardinality(held) = Len(digest) - Len(frames)
      <4>1. Len(frames) + 1 \in Int /\ Len(digest) \in Int
            /\ Len(frames) <= Len(digest)
        BY <2>1 DEF IInv
      <4>2. /\ IsFiniteSet(held)
            /\ Cardinality(held) = IF Len(frames) + 1 > Len(digest) THEN 0
                                   ELSE Len(digest) - (Len(frames) + 1) + 1
        BY <4>1, FS_Interval
      <4>3. QED
        BY <4>1, <4>2, <2>1
    <3>3. Len(digest) - Len(frames) = Len(pending)
      BY <2>1, <2>2 DEF IInv, DequeInv
    <3>4. Cardinality(active) <= Cardinality(held)
      BY <3>1, <3>2, FS_Subset
    <3>5. QED
      BY <3>2, <3>3, <3>4
  <2>3. QED
    BY <2>2 DEF IInv, BoundedPending
<1>2. QED
  BY Invariance, <1>1, PTL

(* The pool is idle whenever the temporary file is finished or removed. *)
THEOREM NoTaskOutlives == Spec => []NoTaskOutlivesTheCall
<1>1. IInv => NoTaskOutlivesTheCall
  BY DEF IInv, PhaseInv, NoTaskOutlivesTheCall
<1>2. QED
  BY Invariance, <1>1, PTL

(* A call that raises leaves neither output nor temporary file. *)
THEOREM FailureClean == Spec => []FailureLeavesNothing
<1>1. IInv => FailureLeavesNothing
  BY DEF IInv, PhaseInv, FailureLeavesNothing, Nothing
<1>2. QED
  BY Invariance, <1>1, PTL
------------------------------------------------------------------------------
(* Every behaviour of compress_file is one of OrderedStream: each frame    *)
(* that goes into the temporary file is that of the next segment of the    *)
(* source, whatever order the pool finishes in, and the file is published  *)
(* only when it holds them all.                                            *)
THEOREM Refinement == Spec => ImplementsOrderedStream
<1> DEFINE res == CASE pc = "ok" -> "published"
                    [] pc = "error" -> "failed"
                    [] OTHER -> "running"
<1>1. Init => Stream!StreamInit
  BY CompressAssumption DEF Init, Stream!StreamInit
<1>2. ASSUME IInv, [Next]_vars PROVE [Stream!StreamNext]_(Stream!streamVars)
  <2> USE DEF Stream!StreamNext, Stream!streamVars
  <2>1. CASE WriteNext
    <3>1. /\ frames \in Seq(Tasks) /\ pending \in Seq(Tasks) /\ pending # <<>>
          /\ Head(pending) \in Tasks
      BY <1>2, <2>1, TailProps DEF WriteNext, IInv, TypeOK
    <3>2. Head(pending) = Len(frames) + 1
      BY <1>2, <2>1, <3>1 DEF WriteNext, IInv, DequeInv, PhaseInv, TypeOK
    <3>3. Len(frames) < total
      BY <1>2, <2>1, <3>1, TailProps DEF WriteNext, IInv, DequeInv, PhaseInv, TypeOK
    <3>4. /\ res = "running" /\ res' = "running" /\ UNCHANGED total
          /\ frames' = Append(frames, Head(pending))
      BY <2>1 DEF WriteNext
    <3>5. QED
      BY <3>2, <3>3, <3>4 DEF Stream!Emit
  <2>2. CASE Publish
    <3>1. Len(frames) = total
      BY <1>2, <2>2 DEF Publish, IInv, DequeInv, PhaseInv, TypeOK
    <3>2. QED
      BY <2>2, <3>1 DEF Publish, Stream!PublishAll
  <2>3. CASE Cleanup
    BY <2>3 DEF Cleanup, Stream!GiveUp
  <2>4. ASSUME Next, ~WriteNext, ~Publish, ~Cleanup
        PROVE  UNCHANGED Stream!streamVars
    BY <2>4, <1>2 DEF Next, Main, ReadSegment, EndOfSource, ReadRaises, WriteNextRaises,
         Drained, Join, PatchHeader, FinishRaises, TaskStarts, TaskEnds, Ended,
         mainVars, vars, IInv, PhaseInv
  <2>5. CASE UNCHANGED vars
    BY <2>5 DEF vars, mainVars
  <2>6. QED
    BY <2>1, <2>2, <2>3, <2>4, <2>5, <1>2
<1>3. QED
  BY Invariance, <1>1, <1>2, PTL DEF Spec, ImplementsOrderedStream, Stream!StreamSpec

--------------------------------------------------------------------------------
(* Streams: what both readers make of the sizes they declare.              *)

GoodStream(s) == s \in Python!StreamType /\ Len(s.segments) <= MaxSegments

(* Declared adds the sizes of the segment headers one by one. *)
LEMMA DeclaredIsSum ==
  ASSUME NEW s
  PROVE  \E f : Adds(f, [i \in Nat |-> s.segments[i].size])
               /\ \A n : Python!Declared(s, n) = f[n]
<1> DEFINE list == [i \in Nat |-> s.segments[i].size]
           Whole(f) == f = [i \in Nat |-> IF i = 0 THEN 0 ELSE f[i - 1] + s.segments[i].size]
           sum == CHOOSE f : Whole(f)
<1>1. PICK g : IsSum(g, list)
  BY SumExists
<1>2. Whole(g)
  <2>1. \A i \in Nat : list[i] = s.segments[i].size
    OBVIOUS
  <2>2. g = [i \in Nat |-> IF i = 0 THEN 0 ELSE g[i - 1] + list[i]]
    BY <1>1, Zenon DEF IsSum
  <2> HIDE DEF list
  <2>3. QED
    BY <2>1, <2>2
<1>3. Whole(sum)
  <2> HIDE DEF Whole
  <2>1. QED
    BY <1>2, Zenon
<1>4. \A n : Python!Declared(s, n) = sum[n]
  BY Zenon DEF Python!Declared
<1> HIDE DEF sum
<1>5. IsSum(sum, list)
  <2>1. \A i \in Nat : list[i] = s.segments[i].size
    OBVIOUS
  <2>2. sum = [i \in Nat |-> IF i = 0 THEN 0 ELSE sum[i - 1] + s.segments[i].size]
    BY <1>3
  <2> HIDE DEF list
  <2>3. QED
    BY <2>1, <2>2 DEF IsSum
<1>6. Adds(sum, list)
  <2> HIDE DEF list
  <2>1. QED
    BY <1>5, SumAdds
<1>7. QED
  BY <1>4, <1>6

LEMMA DeclaredUnfolds ==
  ASSUME NEW s
  PROVE  /\ Python!Declared(s, 0) = 0
         /\ \A n \in Nat : Python!Declared(s, n + 1)
                             = Python!Declared(s, n) + s.segments[n + 1].size
<1>1. PICK f : Adds(f, [i \in Nat |-> s.segments[i].size])
               /\ \A n : Python!Declared(s, n) = f[n]
  BY DeclaredIsSum
<1>2. ASSUME NEW n \in Nat
      PROVE  Python!Declared(s, n + 1) = Python!Declared(s, n) + s.segments[n + 1].size
  <2>1. n + 1 \in Nat
    OBVIOUS
  <2>2. [i \in Nat |-> s.segments[i].size][n + 1] = s.segments[n + 1].size
    BY <2>1
  <2>3. f[n + 1] = f[n] + [i \in Nat |-> s.segments[i].size][n + 1]
    BY <1>1 DEF Adds
  <2>4. QED
    BY <1>1, <2>2, <2>3
<1>3. Python!Declared(s, 0) = 0
  BY <1>1 DEF Adds
<1>4. QED
  BY <1>2, <1>3

(* What the segments of a stream are, as far as the readers look. *)
LEMMA StreamFacts ==
  ASSUME NEW s, GoodStream(s)
  PROVE  /\ s.count \in Nat /\ s.original \in Nat
         /\ s.segments \in Seq(Python!SegmentType(Nat))
         /\ Len(s.segments) \in Nat /\ Len(s.segments) <= MaxSegments
         /\ \A i \in 1..Len(s.segments) :
              s.segments[i].size \in Nat /\ s.segments[i].original \in Nat
<1>1. /\ s.count \in Nat /\ s.original \in Nat
      /\ s.segments \in Seq(Python!SegmentType(Nat))
      /\ Len(s.segments) <= MaxSegments
  BY DEF GoodStream, Python!StreamType
<1>2. ASSUME NEW i \in 1..Len(s.segments)
      PROVE  s.segments[i].size \in Nat /\ s.segments[i].original \in Nat
  <2>1. s.segments[i] \in Python!SegmentType(Nat)
    BY <1>1
  <2>2. QED
    BY <2>1 DEF Python!SegmentType
<1>3. Len(s.segments) \in Nat
  BY <1>1
<1>4. QED
  BY <1>1, <1>2, <1>3

LEMMA DeclaredGrows ==
  ASSUME NEW s, GoodStream(s), NEW n \in Nat, n <= Len(s.segments)
  PROVE  \A m \in 0..n : /\ Python!Declared(s, m) \in Nat
                          /\ Python!Declared(s, m) <= Python!Declared(s, n)
<1>1. PICK f : Adds(f, [i \in Nat |-> s.segments[i].size])
               /\ \A m : Python!Declared(s, m) = f[m]
  BY DeclaredIsSum
<1>2. PICK list : list = [i \in Nat |-> s.segments[i].size]
  OBVIOUS
<1>3. \A i \in 1..n : list[i] \in Nat
  BY <1>2, StreamFacts
<1>4. \A m \in 0..n : f[m] \in Nat /\ f[m] <= f[n]
  <2>1. Adds(f, list)
    BY <1>1, <1>2
  <2>2. QED
    BY ONLY <2>1, <1>3, n \in Nat, SumGrows
<1>5. QED
  BY <1>1, <1>4

(* Both readers check the same things. *)
LEMMA SameChecks ==
  /\ \A s : Native!HeaderAccepted(s) <=> Python!HeaderAccepted(s)
  /\ \A s : Native!WalkAccepted(s) <=> Python!WalkAccepted(s)
  /\ \A g : Native!FrameRestores(g) <=> Python!FrameRestores(g)
  /\ \A s : Native!MemoryDecodes(s) <=> Python!MemoryDecodes(s)
<1>1. \A s : Native!HeaderAccepted(s) <=> Python!HeaderAccepted(s)
  BY DEF Native!HeaderAccepted, Python!HeaderAccepted
<1>2. \A s, n : Native!Declared(s, n) = Python!Declared(s, n)
  BY Zenon DEF Native!Declared, Python!Declared
<1>3. \A s : Native!Trailing(s) <=> Python!Trailing(s)
  BY DEF Native!Trailing, Python!Trailing
<1>4. \A s : Native!WalkAccepted(s) <=> Python!WalkAccepted(s)
  BY <1>2, <1>3 DEF Native!WalkAccepted, Python!WalkAccepted
<1>5. \A g : Native!FrameRestores(g) <=> Python!FrameRestores(g)
  BY DEF Native!FrameRestores, Python!FrameRestores
<1>6. \A n : Native!FirstSegments(n) = Python!FirstSegments(n)
  BY DEF Native!FirstSegments, Python!FirstSegments
<1>7. \A s : Native!MemoryDecodes(s) <=> Python!MemoryDecodes(s)
  BY <1>1, <1>4, <1>5, <1>6 DEF Native!MemoryDecodes, Python!MemoryDecodes
<1>8. QED
  BY <1>1, <1>4, <1>5, <1>7

--------------------------------------------------------------------------------
(* decompress_file, in Python.                                             *)

(* Before it is called. *)
PythonRests ==
  /\ pQueue = <<>> /\ pTask = [t \in Tasks |-> "new"]
  /\ pPc = "header" /\ pRaised = FALSE /\ pFault = FALSE
  /\ pNext = 0 /\ pDeclared = 0 /\ pRestored = 0
  /\ pPending = <<>> /\ pOutput = <<>> /\ pTemp = TRUE /\ pDest = Python!Nothing

PythonCalled == GoodStream(stream) /\ PythonRests /\ pWorkers \in 1..MaxWorkers

(* The segments that were read stay within what the header declares. *)
Walked ==
  /\ pNext <= Len(stream.segments)
  /\ \A i \in 1..pNext :
       stream.segments[i].size <= stream.original - Python!Declared(stream, i - 1)
  /\ pDeclared = Python!Declared(stream, pNext)
  /\ pDeclared <= stream.original

(* A pool thread returns only for a frame that restores, and raises on the *)
(* others or for lack of memory.                                           *)
Tasked ==
  \A t \in Tasks :
    /\ pTask[t] = "done" => Python!FrameRestores(stream.segments[t])
    /\ pTask[t] = "failed" => ~Python!FrameRestores(stream.segments[t]) \/ pFault

(* A frame that write_restored accepts. *)
Exact(g) == Python!FrameRestores(g) /\ g.original = g.size

(* Segments are written in order and only if they restore; the deque holds *)
(* those that follow, and one worker keeps none there.                     *)
Restored ==
  /\ Len(pOutput) <= pNext
  /\ \A i \in 1..Len(pOutput) : pOutput[i] = i /\ Exact(stream.segments[i])
  /\ pRestored = Python!Declared(stream, Len(pOutput))
  /\ ~pRaised => /\ Len(pOutput) + Len(pPending) + (IF pPc = "restore" THEN 1 ELSE 0) = pNext
                 /\ \A i \in 1..Len(pPending) : pPending[i] = Len(pOutput) + i
  /\ pWorkers = 1 => pPending = <<>>

TotalsAgreed ==
  /\ pDeclared = stream.original /\ pRestored = stream.original
  /\ stream.encodedDigestOK /\ pOutput = stream.source

(* Where the thread is says which checks have passed. *)
Placed ==
  /\ pPc \notin {"header", "cleanup", "error"} =>
       Python!HeaderAccepted(stream) /\ stream.withinLimit
  /\ pPc = "header" => pNext = 0
  /\ pPc = "restore" => pWorkers = 1
  /\ pPc = "drain" => pNext = stream.count
  /\ pPc = "join" /\ ~pRaised => pNext = stream.count /\ pPending = <<>>
  /\ pPc \in {"trailing", "check", "publish", "ok"} =>
       ~pRaised /\ pNext = stream.count /\ pPending = <<>>
  /\ pRaised => pPc \in {"join", "cleanup", "error"}
  /\ pPc \in {"check", "publish", "ok"} => ~Python!Trailing(stream)
  /\ pPc \in {"publish", "ok"} => TotalsAgreed
  /\ pPc = "ok" => pDest = [output |-> pOutput, present |-> TRUE]

(* Without a failure of its own a call gives up only on a stream that      *)
(* decompress() rejects.                                                   *)
Justified ==
  (pRaised \/ pPc \in {"cleanup", "error"}) /\ ~pFault
    => ~Python!MemoryDecodes(stream)

PythonInv ==
  /\ GoodStream(stream) /\ Python!TypeOK
  /\ Walked /\ Tasked /\ Restored /\ Placed /\ Justified

--------------------------------------------------------------------------------
(* decode_to_writer, in Rust.                                              *)

NativeRests ==
  /\ nPc = "table" /\ nFault = FALSE /\ first = 0
  /\ thread = [i \in Tasks |-> "none"]
  /\ channel = <<>> /\ nPending = {} /\ nOutput = <<>>

NativeCalled ==
  GoodStream(stream) /\ NativeRests /\ nWorkers \in 1..MaxWorkers /\ unwinds \in BOOLEAN

(* The last segment of the batch. *)
BatchEnd == Native!Smaller(first + nWorkers, stream.count)

(* Once the table is checked the stream may be restored. *)
TableAccepted ==
  nPc \notin {"table", "error"} =>
    /\ Python!HeaderAccepted(stream) /\ stream.withinLimit
    /\ stream.encodedDigestOK /\ Python!WalkAccepted(stream)

(* The output is a prefix of the source, and how far it is is known.       *)
Prefix ==
  /\ nPc = "table" => first = 0 /\ nOutput = <<>> /\ nPending = {}
  /\ Len(nOutput) <= BatchEnd
  /\ \A i \in 1..Len(nOutput) : nOutput[i] = i /\ Native!FrameDecodes(stream.segments[i])
  /\ nPc \in {"receive", "write"} => first < stream.count /\ first <= Len(nOutput)
  /\ nPc = "spawn" => Len(nOutput) = Native!Smaller(first, stream.count)
  /\ nPc = "scope" => Len(nOutput) = BatchEnd
  /\ nPc \in {"digest", "ok"} => Len(nOutput) = stream.count
  /\ nPc = "ok" => nOutput = stream.source

(* Whose thread has sent its result finds it written, in the map or in the *)
(* channel, and outside thread::scope there are no threads.                *)
Accounted ==
  /\ \A i \in Tasks : thread[i] # "none" => i <= BatchEnd
  /\ nPc \in {"receive", "write"} =>
       \A i \in (first + 1)..BatchEnd :
         /\ thread[i] # "none"
         /\ thread[i] = "sent" => \/ i <= Len(nOutput) \/ i \in nPending
                                  \/ \E k \in 1..Len(channel) : channel[k] = i
  /\ nPc = "receive" => Len(nOutput) + 1 <= BatchEnd /\ Len(nOutput) + 1 \notin nPending
  /\ nPc \in {"table", "spawn", "digest", "ok", "error"} =>
       \A i \in Tasks : thread[i] \in {"none", "sent"}
  /\ nPc = "panicked" => \A i \in Tasks : thread[i] # "running"

(* What is held decodes and belongs to the batches begun. *)
Held ==
  /\ nPc = "spawn" => \A i \in nPending : i <= first
  /\ \A i \in nPending : i <= BatchEnd /\ Native!FrameDecodes(stream.segments[i])
  /\ \A k \in 1..Len(channel) : channel[k] <= BatchEnd

Accepted ==
  /\ Python!MemoryDecodes(stream)
  /\ \A i \in 1..stream.count : stream.segments[i].nested

(* An error that is not the writer's is the stream's, or a panic's, and    *)
(* then it does not leave the scope.                                       *)
Answered ==
  /\ nPc = "scope error" /\ ~nFault =>
       ~Accepted \/ \E i \in Tasks : thread[i] = "panicked"
  /\ nPc = "error" /\ ~nFault => ~Accepted

NativeInv ==
  /\ GoodStream(stream) /\ Native!TypeOK
  /\ TableAccepted /\ Prefix /\ Accounted /\ Held /\ Answered

--------------------------------------------------------------------------------
(* All three, one after the other. *)
AllInv ==
  /\ IInv /\ PythonInv /\ NativeInv
  /\ turn \in {"encode", "python", "native"}
  /\ turn = "encode" => PythonRests /\ NativeRests /\ stream.count = total
  /\ turn # "encode" /\ pc = "ok" => stream = AsStream(dest)

--------------------------------------------------------------------------------
(* The Python reader keeps its invariant.                                  *)

LEMMA RestingPython == PythonCalled => PythonInv
<1> SUFFICES ASSUME PythonCalled PROVE PythonInv
  OBVIOUS
<1> USE DEF PythonCalled, PythonRests
<1>1. stream.count \in Nat /\ Len(stream.segments) \in Nat /\ stream.original \in Nat
  BY StreamFacts
<1>2. Python!TypeOK
  <2>1. Python!PoolTypeOK /\ pWorkers <= MaxWorkers
    BY CompressAssumption DEF Python!PoolTypeOK, Python!TaskStates, Python!Tasks, Tasks
  <2>2. pPending = <<>> /\ pOutput = <<>> /\ pNext = 0 /\ pDeclared = 0 /\ pRestored = 0
        /\ pRaised = FALSE /\ pFault = FALSE /\ pTemp = TRUE /\ pPc = "header"
    OBVIOUS
  <2>3. pPending \in Seq(Python!Tasks) /\ pOutput \in Seq(Python!Tasks)
    BY <2>2
  <2>4. pNext \in 0..stream.count /\ pDeclared \in Nat /\ pRestored \in Nat
    BY <1>1, <2>2
  <2>5. QED
    BY <2>1, <2>2, <2>3, <2>4 DEF Python!TypeOK, Python!Phases
<1>3. Python!Declared(stream, 0) = 0
  BY DeclaredUnfolds
<1>4. Walked /\ Restored
  BY <1>1, <1>3 DEF Walked, Restored
<1>5. Tasked /\ Placed /\ Justified
  BY DEF Tasked, Placed, Justified
<1>6. QED
  BY <1>2, <1>4, <1>5 DEF PythonInv

LEMMA RestingPythonNext == PythonCalled' => PythonInv'
  BY RestingPython, PTL

(* What the types say, in one place. *)
LEMMA PythonFacts ==
  ASSUME PythonInv
  PROVE  /\ GoodStream(stream)
         /\ stream.count \in Nat /\ stream.original \in Nat
         /\ Len(stream.segments) \in Nat /\ Len(stream.segments) <= MaxSegments
         /\ pNext \in Nat /\ pNext <= stream.count /\ pNext <= Len(stream.segments)
         /\ pDeclared \in Nat /\ pRestored \in Nat
         /\ pPending \in Seq(Tasks) /\ pOutput \in Seq(Tasks) /\ pQueue \in Seq(Tasks)
         /\ Len(pPending) \in Nat /\ Len(pOutput) \in Nat
         /\ pTask \in [Tasks -> TaskStates] /\ pWorkers \in Nat \ {0} /\ pWorkers <= MaxWorkers
<1>1. /\ stream.count \in Nat /\ stream.original \in Nat
      /\ Len(stream.segments) \in Nat /\ Len(stream.segments) <= MaxSegments
  BY StreamFacts DEF PythonInv
<1>2. /\ pNext \in 0..stream.count /\ pDeclared \in Nat /\ pRestored \in Nat
      /\ pPending \in Seq(Tasks) /\ pOutput \in Seq(Tasks) /\ pQueue \in Seq(Tasks)
      /\ pTask \in [Tasks -> TaskStates] /\ pWorkers \in Nat \ {0} /\ pWorkers <= MaxWorkers
  BY DEF PythonInv, Python!TypeOK, Python!PoolTypeOK, Python!TaskStates,
         TaskStates, Python!Tasks, Tasks
<1>3. QED
  BY <1>1, <1>2 DEF PythonInv, Walked

(* A stream that decompress() restores passes every check of the walk.     *)
LEMMA SoundIsReadable ==
  ASSUME PythonInv, pNext < stream.count, Python!MemoryDecodes(stream)
  PROVE  Python!SegmentReadable
<1>1. pNext + 1 \in 1..stream.count /\ pNext < Len(stream.segments) /\ (pNext + 1) - 1 = pNext
  BY PythonFacts DEF Python!MemoryDecodes, Python!WalkAccepted
<1>2. stream.segments[pNext + 1].size
        <= stream.original - Python!Declared(stream, (pNext + 1) - 1)
  BY <1>1 DEF Python!MemoryDecodes, Python!WalkAccepted
<1>3. QED
  BY <1>1, <1>2 DEF Python!SegmentReadable, PythonInv, Walked

LEMMA CheckHeaderInv == ASSUME PythonInv, Python!CheckHeader PROVE PythonInv'
<1>1. /\ pPc = "header"
      /\ pPc' = IF Python!HeaderAccepted(stream) /\ stream.withinLimit
                THEN "read" ELSE "cleanup"
      /\ UNCHANGED <<pWorkers, pQueue, pTask, stream, pRaised, pFault, pNext, pDeclared,
                     pPending, pOutput, pRestored, pTemp, pDest>>
  BY DEF Python!CheckHeader, Python!Keeps, Python!poolVars
<1>2. GoodStream(stream)' /\ Python!TypeOK'
  BY <1>1 DEF PythonInv, GoodStream, Python!TypeOK, Python!PoolTypeOK, Python!Phases
<1>3. Walked' /\ Tasked' /\ Restored'
  BY <1>1 DEF PythonInv, Walked, Tasked, Restored, Exact
<1>4. Placed' /\ Justified'
  BY <1>1 DEF PythonInv, Placed, Justified, Python!MemoryDecodes
<1>5. QED
  BY <1>2, <1>3, <1>4 DEF PythonInv

LEMMA ReadNextSegmentInv == ASSUME PythonInv, Python!ReadNextSegment PROVE PythonInv'
<1> DEFINE t == pNext + 1
           g == stream.segments[t]
<1>1. /\ pPc = "read" /\ pNext < stream.count /\ Python!SegmentReadable
      /\ pNext' = t /\ pDeclared' = pDeclared + g.size
      /\ UNCHANGED <<pWorkers, stream, pRaised, pFault, pOutput, pRestored, pTemp, pDest>>
  BY DEF Python!ReadNextSegment, Python!Submit, Python!poolVars
<1>2. /\ t \in 1..Len(stream.segments) /\ t \in Tasks /\ t \in Nat /\ t \in 0..stream.count
      /\ g.size \in Nat /\ g.size <= stream.original - pDeclared
      /\ ~pRaised
  <2>1. pNext < Len(stream.segments) /\ g.size <= stream.original - pDeclared
    BY <1>1 DEF Python!SegmentReadable
  <2>2. t \in 1..Len(stream.segments) /\ t \in Tasks /\ t \in Nat /\ t \in 0..stream.count
    BY SMTT(30), <1>1, <2>1, PythonFacts, CompressAssumption DEF Tasks
  <2> HIDE DEF t
  <2>3. g.size \in Nat
    BY <2>2, StreamFacts DEF PythonInv
  <2>4. QED
    BY <1>1, <2>1, <2>2, <2>3 DEF PythonInv, Placed
<1>3. \/ /\ pWorkers = 1 /\ pPc' = "restore" /\ UNCHANGED <<pPending, pQueue, pTask>>
      \/ /\ pWorkers # 1 /\ pPc' \in {"flush", "read"}
         /\ pQueue' = Append(pQueue, t) /\ pTask' = [pTask EXCEPT ![t] = "queued"]
         /\ pPending' = Append(pPending, t)
  BY DEF Python!ReadNextSegment, Python!Submit, Python!poolVars
<1>4. GoodStream(stream)' /\ Python!TypeOK'
  <2>1. GoodStream(stream)'
    BY <1>1 DEF PythonInv, GoodStream
  <2> HIDE DEF t, g
  <2>2. pQueue' \in Seq(Tasks) /\ pPending' \in Seq(Tasks) /\ pTask' \in [Tasks -> TaskStates]
    <3>1. CASE pWorkers = 1
      BY <1>3, <3>1, PythonFacts
    <3>2. CASE pWorkers # 1
      <4>1. /\ pQueue \in Seq(Tasks) /\ pPending \in Seq(Tasks)
            /\ pTask \in [Tasks -> TaskStates] /\ t \in Tasks
        BY <1>2, PythonFacts
      <4>2. /\ pQueue' = Append(pQueue, t) /\ pTask' = [pTask EXCEPT ![t] = "queued"]
            /\ pPending' = Append(pPending, t)
        BY <1>3, <3>2
      <4>3. QED
        BY ONLY <4>1, <4>2 DEF TaskStates
    <3>3. QED
      BY <3>1, <3>2
  <2>3. pDeclared' \in Nat
    BY SMTT(30), <1>1, <1>2, PythonFacts
  <2>4. pPc' \in Python!Phases
    BY <1>3 DEF Python!Phases
  <2>5. QED
    BY <1>1, <1>2, <2>1, <2>2, <2>3, <2>4
       DEF PythonInv, Python!TypeOK, Python!PoolTypeOK, Python!TaskStates, TaskStates,
           Python!Tasks, Tasks
<1>5. Walked'
  <2>1. pDeclared = Python!Declared(stream, pNext) /\ pNext \in Nat /\ (pNext + 1) - 1 = pNext
    BY PythonFacts DEF PythonInv, Walked
  <2>2. Python!Declared(stream, t) = pDeclared + g.size
    BY <2>1, DeclaredUnfolds
  <2>3. \A i \in 1..t : stream.segments[i].size <= stream.original - Python!Declared(stream, i - 1)
    <3>1. \A i \in 1..t : i \in 1..pNext \/ i = t
      BY <2>1
    <3>2. stream.segments[t].size <= stream.original - Python!Declared(stream, t - 1)
      BY <1>2, <2>1
    <3>3. QED
      BY <3>1, <3>2 DEF PythonInv, Walked
  <2>4. pDeclared + g.size <= stream.original
    BY SMTT(30), <1>2, PythonFacts
  <2>5. t <= Len(stream.segments)
    BY <1>2
  <2> HIDE DEF t, g
  <2>6. QED
    BY <1>1, <2>2, <2>3, <2>4, <2>5 DEF Walked
<1>6. Tasked'
  <2> HIDE DEF t
  <2>1. \A u \in Tasks : pTask'[u] = pTask[u] \/ pTask'[u] = "queued"
    BY <1>2, <1>3, PythonFacts
  <2>2. QED
    BY <2>1, <1>1 DEF PythonInv, Tasked
<1>7. Restored'
  <2>1. /\ Len(pOutput) + Len(pPending) = pNext
        /\ \A i \in 1..Len(pPending) : pPending[i] = Len(pOutput) + i
        /\ pWorkers = 1 => pPending = <<>>
    BY <1>1, <1>2, PythonFacts DEF PythonInv, Restored
  <2>2. Len(pOutput') <= pNext' /\ \A i \in 1..Len(pOutput') : pOutput'[i] = i /\ Exact(stream.segments[i])'
    BY <1>1, <1>2, PythonFacts DEF PythonInv, Restored, Exact
  <2>3. pRestored' = Python!Declared(stream, Len(pOutput))'
    BY <1>1 DEF PythonInv, Restored
  <2>4. CASE pWorkers = 1
    BY <1>1, <1>3, <2>1, <2>2, <2>3, <2>4, PythonFacts DEF Restored
  <2>5. CASE pWorkers # 1
    <3>1. /\ Len(pPending') = Len(pPending) + 1 /\ pPending'[Len(pPending) + 1] = t
          /\ \A i \in 1..Len(pPending) : pPending'[i] = pPending[i]
          /\ pPc' # "restore"
      <4>1. pPending \in Seq(Tasks) /\ t \in Tasks
        BY <1>2, PythonFacts
      <4>2. pPending' = Append(pPending, t) /\ pPc' # "restore"
        BY <1>3, <2>5
      <4>3. QED
        BY ONLY <4>1, <4>2
    <3>2. \A i \in 1..Len(pPending') : pPending'[i] = Len(pOutput) + i
      <4>1. Len(pPending) \in Nat /\ Len(pOutput) \in Nat
        BY PythonFacts
      <4>2. t = Len(pOutput) + (Len(pPending) + 1)
        BY <2>1, <4>1
      <4> HIDE DEF t
      <4>3. \A i \in 1..(Len(pPending) + 1) : i = Len(pPending) + 1 \/ i \in 1..Len(pPending)
        BY <4>1
      <4>4. QED
        BY <2>1, <3>1, <4>2, <4>3
    <3>3. Len(pOutput') + Len(pPending') = pNext'
      BY <1>1, <2>1, <3>1, PythonFacts
    <3>4. Len(pOutput') \in Nat /\ Len(pPending') \in Nat
      BY <1>1, <3>1, PythonFacts
    <3>5. QED
      BY <1>1, <2>2, <2>3, <2>5, <3>1, <3>2, <3>3, <3>4 DEF Restored
  <2>6. QED
    BY <2>4, <2>5
<1>8. Placed' /\ Justified'
  BY <1>1, <1>3 DEF PythonInv, Placed, Justified
<1>9. QED
  BY <1>4, <1>5, <1>6, <1>7, <1>8 DEF PythonInv

(* The segment that the sequential path restores next. *)
LEMMA SegmentHere ==
  ASSUME PythonInv, pPc = "restore"
  PROVE  /\ pNext = Len(pOutput) + 1 /\ pNext \in 1..stream.count
         /\ pNext \in 1..Len(stream.segments) /\ pNext \in Tasks
         /\ ~pRaised /\ pWorkers = 1 /\ pPending = <<>>
<1>1. ~pRaised /\ pWorkers = 1
  BY DEF PythonInv, Placed
<1>2. pPending = <<>> /\ Len(pOutput) + Len(pPending) + 1 = pNext
  BY <1>1 DEF PythonInv, Restored
<1>3. QED
  BY <1>1, <1>2, PythonFacts, CompressAssumption DEF Tasks

(* The oldest result. *)
LEMMA OldestResult ==
  ASSUME PythonInv, pPc \in {"flush", "drain"}, pPending # <<>>
  PROVE  LET t == Head(pPending)
         IN  /\ ~pRaised /\ t = Len(pOutput) + 1 /\ t \in Tasks
             /\ t \in 1..pNext /\ t \in 1..stream.count /\ t \in 1..Len(stream.segments)
             /\ Len(pPending) >= 1 /\ pWorkers # 1
<1>1. ~pRaised
  BY DEF PythonInv, Placed
<1>2. /\ Len(pOutput) + Len(pPending) = pNext
      /\ \A i \in 1..Len(pPending) : pPending[i] = Len(pOutput) + i
      /\ pWorkers # 1
  <2>1. pPc # "restore"
    OBVIOUS
  <2>2. /\ Len(pOutput) + Len(pPending) + 0 = pNext
        /\ \A i \in 1..Len(pPending) : pPending[i] = Len(pOutput) + i
        /\ pWorkers # 1
    BY <1>1, <2>1 DEF PythonInv, Restored
  <2>3. QED
    BY <2>2, PythonFacts
<1>3. pPending \in Seq(Tasks)
  BY PythonFacts
<1>4. Len(pPending) \in Nat \ {0} /\ Head(pPending) = pPending[1] /\ Head(pPending) \in Tasks
  BY <1>3
<1>5. QED
  BY SMTT(30), <1>1, <1>2, <1>4, PythonFacts

(* A frame of a stream that decompress() restores is exact. *)
LEMMA SoundFrames ==
  ASSUME Python!MemoryDecodes(stream), NEW i \in 1..stream.count
  PROVE  Exact(stream.segments[i])
  BY DEF Python!MemoryDecodes, Exact

(* The steps that only move the thread on. *)
LEMMA MovesInv ==
  ASSUME PythonInv,
         \/ Python!ReadRejects \/ Python!AllRead \/ Python!RestoreHereRejects
         \/ Python!Drained \/ Python!Join \/ Python!CheckTrailing
  PROVE  PythonInv'
<1>1. /\ pPc' \in {"join", "drain", "trailing", "cleanup", "check"} /\ pRaised' \in BOOLEAN
      /\ pRaised => pRaised'
      /\ UNCHANGED <<pWorkers, pQueue, pTask, stream, pFault, pNext, pDeclared,
                     pPending, pOutput, pRestored, pTemp, pDest>>
  BY DEF Python!ReadRejects, Python!AllRead, Python!RestoreHereRejects, Python!Drained,
         Python!Join, Python!CheckTrailing, Python!Raise, Python!Keeps, Python!poolVars,
         PythonInv, Python!TypeOK
<1>2. GoodStream(stream)' /\ Python!TypeOK'
  BY <1>1 DEF PythonInv, GoodStream, Python!TypeOK, Python!PoolTypeOK, Python!Phases
<1>3. Walked' /\ Tasked'
  BY <1>1 DEF PythonInv, Walked, Tasked
<1>4. pPc = "restore" => pRaised'
  BY DEF Python!ReadRejects, Python!AllRead, Python!RestoreHereRejects, Python!Drained,
         Python!Join, Python!CheckTrailing, Python!Raise
<1>5. Restored'
  BY <1>1, <1>4 DEF PythonInv, Restored, Exact
<1>6. Placed' /\ Justified'
  <2>1. CASE Python!ReadRejects
    <3>1. /\ pPc = "read" /\ pPc' \in {"join", "cleanup"} /\ pRaised' = TRUE
          /\ pNext < stream.count /\ ~Python!SegmentReadable
      BY <2>1 DEF Python!ReadRejects, Python!Raise
    <3>2. ~Python!MemoryDecodes(stream)
      BY <3>1, SoundIsReadable
    <3>3. QED
      BY <1>1, <3>1, <3>2 DEF PythonInv, Placed, Justified
  <2>2. CASE Python!AllRead
    <3>1. /\ pPc = "read" /\ pNext = stream.count /\ UNCHANGED pRaised
          /\ pPc' = IF pWorkers = 1 THEN "trailing" ELSE "drain"
      BY <2>2 DEF Python!AllRead
    <3>2. pWorkers = 1 => pPending = <<>>
      BY DEF PythonInv, Restored
    <3>3. QED
      BY <1>1, <3>1, <3>2 DEF PythonInv, Placed, Justified
  <2>3. CASE Python!RestoreHereRejects
    <3>1. /\ pPc = "restore" /\ pPc' \in {"join", "cleanup"} /\ pRaised' = TRUE
          /\ ~Exact(stream.segments[pNext])
      BY <2>3 DEF Python!RestoreHereRejects, Python!Raise, Exact
    <3>2. ~Python!MemoryDecodes(stream)
      BY <3>1, SegmentHere, SoundFrames
    <3>3. QED
      BY <1>1, <3>1, <3>2 DEF PythonInv, Placed, Justified
  <2>4. CASE Python!Drained
    BY <1>1, <2>4 DEF Python!Drained, PythonInv, Placed, Justified
  <2>5. CASE Python!Join
    BY <1>1, <2>5 DEF Python!Join, PythonInv, Placed, Justified
  <2>6. CASE Python!CheckTrailing
    <3>1. /\ pPc = "trailing" /\ UNCHANGED pRaised
          /\ pPc' = IF Python!Trailing(stream) THEN "cleanup" ELSE "check"
      BY <2>6 DEF Python!CheckTrailing
    <3>2. Python!Trailing(stream) => ~Python!MemoryDecodes(stream)
      BY DEF Python!MemoryDecodes, Python!WalkAccepted
    <3>3. QED
      BY <1>1, <3>1, <3>2 DEF PythonInv, Placed, Justified
  <2>7. QED
    BY <2>1, <2>2, <2>3, <2>4, <2>5, <2>6
<1>7. QED
  BY <1>2, <1>3, <1>5, <1>6 DEF PythonInv

(* A segment is written, by whichever path. *)
LEMMA WrittenInv ==
  ASSUME PythonInv, NEW t \in Tasks, t = Len(pOutput) + 1, t <= pNext,
         Exact(stream.segments[t]),
         pOutput' = Append(pOutput, t),
         pRestored' = pRestored + stream.segments[t].original,
         UNCHANGED <<stream, pNext>>
  PROVE  /\ pOutput' \in Seq(Tasks) /\ pRestored' \in Nat
         /\ Len(pOutput') = t
         /\ \A i \in 1..Len(pOutput') : pOutput'[i] = i /\ Exact(stream.segments[i])
         /\ pRestored' = Python!Declared(stream, Len(pOutput'))
<1>1. pOutput \in Seq(Tasks) /\ Len(pOutput) \in Nat
  BY PythonFacts
<1>2. /\ pOutput' \in Seq(Tasks) /\ Len(pOutput') = t /\ pOutput'[t] = t
      /\ \A i \in 1..Len(pOutput) : pOutput'[i] = pOutput[i]
  BY <1>1
<1>3. \A i \in 1..t : i = t \/ i \in 1..Len(pOutput)
  BY <1>1
<1>4. \A i \in 1..Len(pOutput) : pOutput[i] = i /\ Exact(stream.segments[i])
  BY DEF PythonInv, Restored
<1>5. \A i \in 1..Len(pOutput') : pOutput'[i] = i /\ Exact(stream.segments[i])
  BY <1>2, <1>3, <1>4
<1>6. stream.segments[t].original = stream.segments[t].size /\ stream.segments[t].size \in Nat
  <2>1. t \in 1..Len(stream.segments)
    BY <1>1, PythonFacts
  <2>2. QED
    BY <2>1, StreamFacts DEF Exact, PythonInv
<1>7. Python!Declared(stream, t) = Python!Declared(stream, Len(pOutput)) + stream.segments[t].size
  BY <1>1, DeclaredUnfolds
<1>8. pRestored = Python!Declared(stream, Len(pOutput)) /\ pRestored \in Nat
  BY PythonFacts DEF PythonInv, Restored
<1>9. pRestored' = Python!Declared(stream, Len(pOutput')) /\ pRestored' \in Nat
  BY <1>2, <1>6, <1>7, <1>8
<1>10. QED
  BY <1>2, <1>5, <1>9

LEMMA RestoreHereInv == ASSUME PythonInv, Python!RestoreHere PROVE PythonInv'
<1>1. /\ pPc = "restore" /\ pPc' = "read" /\ Exact(stream.segments[pNext])
      /\ pOutput' = Append(pOutput, pNext)
      /\ pRestored' = pRestored + stream.segments[pNext].original
      /\ UNCHANGED <<pWorkers, pQueue, pTask, stream, pRaised, pFault, pNext, pDeclared,
                     pPending, pTemp, pDest>>
  BY DEF Python!RestoreHere, Python!poolVars, Exact
<1>2. /\ pNext = Len(pOutput) + 1 /\ pNext \in Tasks /\ ~pRaised /\ pPending = <<>>
  BY <1>1, SegmentHere
<1>3. /\ pOutput' \in Seq(Tasks) /\ pRestored' \in Nat /\ Len(pOutput') = pNext
      /\ \A i \in 1..Len(pOutput') : pOutput'[i] = i /\ Exact(stream.segments[i])
      /\ pRestored' = Python!Declared(stream, Len(pOutput'))
  <2>1. pNext <= pNext
    BY PythonFacts
  <2>2. QED
    BY <1>1, <1>2, <2>1, WrittenInv
<1>4. GoodStream(stream)' /\ Python!TypeOK'
  BY <1>1, <1>3 DEF PythonInv, GoodStream, Python!TypeOK, Python!PoolTypeOK, Python!Phases,
                    Python!Tasks, Tasks
<1>5. Walked' /\ Tasked'
  BY <1>1 DEF PythonInv, Walked, Tasked
<1>6. Restored'
  BY <1>1, <1>2, <1>3, PythonFacts DEF Restored, Exact
<1>7. Placed' /\ Justified'
  BY <1>1, <1>2 DEF PythonInv, Placed, Justified
<1>8. QED
  BY <1>4, <1>5, <1>6, <1>7 DEF PythonInv

LEMMA WriteNextPythonInv == ASSUME PythonInv, Python!WriteNext PROVE PythonInv'
<1> DEFINE t == Head(pPending)
<1>1. /\ pPc \in {"flush", "drain"} /\ pPending # <<>> /\ pTask[t] = "done"
      /\ stream.segments[t].original = stream.segments[t].size
      /\ pOutput' = Append(pOutput, t)
      /\ pRestored' = pRestored + stream.segments[t].original
      /\ pPending' = Tail(pPending)
      /\ pPc' = IF pPc = "flush" THEN "read" ELSE "drain"
      /\ UNCHANGED <<pWorkers, pQueue, pTask, stream, pRaised, pFault, pNext, pDeclared,
                     pTemp, pDest>>
  BY DEF Python!WriteNext, Python!poolVars
<1>2. /\ ~pRaised /\ t = Len(pOutput) + 1 /\ t \in Tasks /\ t \in 1..pNext
      /\ Len(pPending) >= 1 /\ pWorkers # 1
  BY <1>1, OldestResult
<1>3. Exact(stream.segments[t])
  BY <1>1, <1>2 DEF PythonInv, Tasked, Exact
<1> HIDE DEF t
<1>4. /\ pOutput' \in Seq(Tasks) /\ pRestored' \in Nat /\ Len(pOutput') = t
      /\ \A i \in 1..Len(pOutput') : pOutput'[i] = i /\ Exact(stream.segments[i])
      /\ pRestored' = Python!Declared(stream, Len(pOutput'))
  <2>1. t <= pNext
    BY <1>2
  <2>2. QED
    BY <1>1, <1>2, <1>3, <2>1, WrittenInv
<1>5. /\ pPending' \in Seq(Tasks) /\ Len(pPending') = Len(pPending) - 1
      /\ \A i \in 1..Len(pPending') : pPending'[i] = pPending[i + 1]
  <2>1. pPending \in Seq(Tasks)
    BY PythonFacts
  <2>2. QED
    BY <1>1, <2>1, TailProps
<1>6. GoodStream(stream)' /\ Python!TypeOK'
  BY <1>1, <1>4, <1>5 DEF PythonInv, GoodStream, Python!TypeOK, Python!PoolTypeOK,
                          Python!Phases, Python!Tasks, Tasks
<1>7. Walked' /\ Tasked'
  BY <1>1 DEF PythonInv, Walked, Tasked
<1>8. Restored'
  <2>1. /\ Len(pOutput) + Len(pPending) = pNext
        /\ \A i \in 1..Len(pPending) : pPending[i] = Len(pOutput) + i
    <3>1. pPc # "restore"
      BY <1>1
    <3>2. /\ Len(pOutput) + Len(pPending) + 0 = pNext
          /\ \A i \in 1..Len(pPending) : pPending[i] = Len(pOutput) + i
      BY <1>2, <3>1 DEF PythonInv, Restored
    <3>3. QED
      BY <3>2, PythonFacts
  <2>2. Len(pOutput) \in Nat /\ Len(pPending) \in Nat
    BY PythonFacts
  <2>3. Len(pOutput') + Len(pPending') = pNext
    BY <1>2, <1>4, <1>5, <2>1, <2>2
  <2>4. \A i \in 1..Len(pPending') : pPending'[i] = Len(pOutput') + i
    BY <1>2, <1>4, <1>5, <2>1, <2>2
  <2>5. Len(pOutput') <= pNext /\ Len(pOutput') + Len(pPending') + 0 = pNext
    BY <1>2, <1>4, <1>5, <2>2, <2>3
  <2>6. QED
    BY <1>1, <1>2, <1>4, <2>4, <2>5 DEF Restored, Exact
<1>9. Placed' /\ Justified'
  BY <1>1, <1>2 DEF PythonInv, Placed, Justified
<1>10. QED
  BY <1>6, <1>7, <1>8, <1>9 DEF PythonInv

(* What write_next refuses does not restore to the declared size, or       *)
(* memory ran out.                                                         *)
LEMMA WriteNextRejectsInv == ASSUME PythonInv, Python!WriteNextRejects PROVE PythonInv'
<1> DEFINE t == Head(pPending)
<1>1. /\ pPc \in {"flush", "drain"} /\ pPending # <<>>
      /\ pTask[t] = "failed" \/ stream.segments[t].original # stream.segments[t].size
      /\ pPending' = Tail(pPending)
      /\ pPc' \in {"cleanup", "join"} /\ pRaised' = TRUE
      /\ UNCHANGED <<pWorkers, pQueue, pTask, stream, pFault, pNext, pDeclared,
                     pOutput, pRestored, pTemp, pDest>>
  BY DEF Python!WriteNextRejects, Python!Raise, Python!poolVars
<1>2. t \in Tasks /\ t \in 1..stream.count /\ pWorkers # 1
  BY <1>1, OldestResult
<1>3. ~Exact(stream.segments[t]) \/ pFault
  BY <1>1, <1>2 DEF PythonInv, Tasked, Exact
<1>4. pPending' \in Seq(Tasks)
  BY <1>1, PythonFacts, TailProps
<1>5. GoodStream(stream)' /\ Python!TypeOK'
  BY <1>1, <1>4 DEF PythonInv, GoodStream, Python!TypeOK, Python!PoolTypeOK, Python!Phases,
                    Python!Tasks, Tasks
<1>6. Walked' /\ Tasked'
  BY <1>1 DEF PythonInv, Walked, Tasked
<1>7. Restored'
  BY <1>1, <1>2 DEF PythonInv, Restored, Exact
<1>8. Placed' /\ Justified'
  BY <1>1, <1>2, <1>3, SoundFrames DEF PythonInv, Placed, Justified
<1>9. QED
  BY <1>5, <1>6, <1>7, <1>8 DEF PythonInv

(* At the end everything that was read is written. *)
LEMMA AllRestored ==
  ASSUME PythonInv, pPc \in {"check", "publish", "ok"}
  PROVE  /\ Len(pOutput) = stream.count /\ pNext = stream.count
         /\ pOutput = Python!FirstSegments(stream.count)
         /\ pRestored = Python!Declared(stream, stream.count)
         /\ pDeclared = Python!Declared(stream, stream.count)
<1>1. ~pRaised /\ pNext = stream.count /\ pPending = <<>>
  BY DEF PythonInv, Placed
<1>2. Len(pOutput) + Len(pPending) + 0 = pNext
  <2>1. pPc # "restore"
    OBVIOUS
  <2>2. QED
    BY <1>1, <2>1 DEF PythonInv, Restored
<1>3. Len(pOutput) = stream.count
  BY <1>1, <1>2, PythonFacts
<1>4. pOutput = [i \in 1..Len(pOutput) |-> pOutput[i]]
  <2>1. pOutput \in Seq(Tasks)
    BY PythonFacts
  <2>2. QED
    BY ONLY <2>1
<1>5. pOutput = Python!FirstSegments(stream.count)
  BY <1>3, <1>4 DEF PythonInv, Restored, Python!FirstSegments
<1>6. QED
  BY <1>1, <1>3, <1>5 DEF PythonInv, Restored, Walked

(* On a stream that decompress() restores the totals and digests agree. *)
LEMMA SoundTotals ==
  ASSUME PythonInv, pPc = "check", Python!MemoryDecodes(stream)
  PROVE  TotalsAgreed
  BY AllRestored DEF TotalsAgreed, Python!MemoryDecodes, Python!WalkAccepted

LEMMA EndsInv ==
  ASSUME PythonInv, Python!CheckTotals \/ Python!Publish \/ Python!Cleanup
  PROVE  PythonInv'
<1>1. /\ UNCHANGED <<pWorkers, pQueue, pTask, pRaised, stream, pFault, pNext, pDeclared,
                     pPending, pOutput, pRestored>>
      /\ pPc \in {"check", "publish", "cleanup"}
      /\ pPc' \in {"publish", "cleanup", "ok", "error"} /\ pTemp' \in BOOLEAN
  BY DEF Python!CheckTotals, Python!Publish, Python!Cleanup, Python!Keeps, Python!poolVars,
         PythonInv, Python!TypeOK
<1>2. GoodStream(stream)' /\ Python!TypeOK'
  BY <1>1 DEF PythonInv, GoodStream, Python!TypeOK, Python!PoolTypeOK, Python!Phases
<1>3. Walked' /\ Tasked' /\ Restored'
  BY <1>1 DEF PythonInv, Walked, Tasked, Restored, Exact
<1>4. Placed' /\ Justified'
  <2>1. CASE Python!CheckTotals
    <3>1. pPc = "check" /\ pPc' = IF TotalsAgreed THEN "publish" ELSE "cleanup"
      BY <2>1 DEF Python!CheckTotals, TotalsAgreed
    <3>2. pPc' = "cleanup" => ~Python!MemoryDecodes(stream)
      BY <3>1, SoundTotals
    <3>3. QED
      BY <1>1, <3>1, <3>2 DEF PythonInv, Placed, Justified, TotalsAgreed
  <2>2. CASE Python!Publish
    BY <1>1, <2>2 DEF Python!Publish, PythonInv, Placed, Justified, TotalsAgreed
  <2>3. CASE Python!Cleanup
    BY <1>1, <2>3 DEF Python!Cleanup, PythonInv, Placed, Justified
  <2>4. QED
    BY <2>1, <2>2, <2>3
<1>5. QED
  BY <1>2, <1>3, <1>4 DEF PythonInv

LEMMA FailsInv == ASSUME PythonInv, Python!Fails PROVE PythonInv'
<1>1. /\ pPc \in {"header", "read", "restore", "flush", "drain", "trailing", "publish"}
      /\ pFault' = TRUE /\ pRaised' = TRUE /\ pPc' \in {"join", "cleanup"}
      /\ pPc = "header" => pPc' = "cleanup"
      /\ UNCHANGED <<pWorkers, pQueue, pTask, stream, pNext, pDeclared,
                     pPending, pOutput, pRestored, pTemp, pDest>>
  BY DEF Python!Fails, Python!poolVars
<1>2. GoodStream(stream)' /\ Python!TypeOK'
  BY <1>1 DEF PythonInv, GoodStream, Python!TypeOK, Python!PoolTypeOK, Python!Phases
<1>3. Walked' /\ Tasked' /\ Restored'
  BY <1>1 DEF PythonInv, Walked, Tasked, Restored, Exact
<1>4. Placed' /\ Justified'
  BY <1>1 DEF PythonInv, Placed, Justified
<1>5. QED
  BY <1>2, <1>3, <1>4 DEF PythonInv

(* The pool: a task returns exactly for a frame that restores, unless its  *)
(* thread runs out of memory.                                              *)
LEMMA PythonPoolInv ==
  ASSUME PythonInv, Python!TaskStarts \/ Python!TaskEnds \/ Python!TaskFails
  PROVE  PythonInv'
<1>1. /\ UNCHANGED <<pWorkers, stream, pPc, pRaised, pNext, pDeclared,
                     pPending, pOutput, pRestored, pTemp, pDest>>
      /\ pFault' \in BOOLEAN
      /\ pFault => pFault'
  BY DEF Python!TaskStarts, Python!TaskEnds, Python!TaskFails, Python!StartTask,
         Python!FinishTask, Python!mainVars, PythonInv, Python!TypeOK
<1>2. pTask \in [Tasks -> TaskStates] /\ pQueue \in Seq(Tasks)
  BY PythonFacts
<1>3. pTask' \in [Tasks -> TaskStates] /\ pQueue' \in Seq(Tasks) /\ Tasked'
  <2>1. CASE Python!TaskStarts
    <3>1. /\ pQueue # <<>> /\ pTask' = [pTask EXCEPT ![Head(pQueue)] = "running"]
          /\ pQueue' = Tail(pQueue)
      BY <2>1 DEF Python!TaskStarts, Python!StartTask
    <3>2. Head(pQueue) \in Tasks /\ pQueue' \in Seq(Tasks)
      BY <1>2, <3>1, TailProps
    <3>3. PICK h \in Tasks : h = Head(pQueue)
      BY <3>2
    <3>4. \A t \in Tasks : pTask'[t] = IF t = h THEN "running" ELSE pTask[t]
      BY <1>2, <3>1, <3>3
    <3>5. pTask' \in [Tasks -> TaskStates]
      BY <1>2, <3>1, <3>2 DEF TaskStates
    <3>6. Tasked'
      BY <1>1, <3>4 DEF PythonInv, Tasked
    <3>7. QED
      BY <3>2, <3>5, <3>6
  <2>2. CASE Python!TaskEnds \/ Python!TaskFails
    <3>1. PICK t \in Tasks, outcome \in {"done", "failed"} :
            /\ UNCHANGED pQueue /\ pTask' = [pTask EXCEPT ![t] = outcome]
            /\ outcome = "done" => Python!FrameRestores(stream.segments[t])
            /\ outcome = "failed" => ~Python!FrameRestores(stream.segments[t]) \/ pFault'
      BY <2>2 DEF Python!TaskEnds, Python!TaskFails, Python!FinishTask, Python!Tasks, Tasks
    <3>2. \A u \in Tasks : pTask'[u] = IF u = t THEN outcome ELSE pTask[u]
      BY <1>2, <3>1
    <3>3. pTask' \in [Tasks -> TaskStates]
      BY <1>2, <3>1 DEF TaskStates
    <3>4. Tasked'
      BY <1>1, <3>1, <3>2 DEF PythonInv, Tasked
    <3>5. QED
      BY <1>2, <3>1, <3>3, <3>4
  <2>3. QED
    BY <2>1, <2>2
<1>4. GoodStream(stream)' /\ Python!TypeOK'
  BY <1>1, <1>3 DEF PythonInv, GoodStream, Python!TypeOK, Python!PoolTypeOK,
                    Python!TaskStates, TaskStates, Python!Tasks, Tasks
<1>5. Walked' /\ Restored'
  BY <1>1 DEF PythonInv, Walked, Restored, Exact
<1>6. Placed' /\ Justified'
  BY <1>1 DEF PythonInv, Placed, Justified, TotalsAgreed
<1>7. QED
  BY <1>3, <1>4, <1>5, <1>6 DEF PythonInv

LEMMA NextPythonInv ==
  ASSUME PythonInv, Python!Next \/ UNCHANGED <<stream, pythonVars>>
  PROVE  PythonInv'
<1>1. CASE UNCHANGED <<stream, pythonVars>>
  <2>1. UNCHANGED <<pWorkers, pQueue, pTask, stream, pPc, pRaised, pFault, pNext, pDeclared,
                    pPending, pOutput, pRestored, pTemp, pDest>>
    BY <1>1 DEF pythonVars
  <2>2. GoodStream(stream)' /\ Python!TypeOK' /\ Walked' /\ Tasked' /\ Restored'
    BY <2>1 DEF PythonInv, GoodStream, Python!TypeOK, Python!PoolTypeOK, Walked, Tasked,
                Restored, Exact
  <2>3. Placed' /\ Justified'
    BY <2>1 DEF PythonInv, Placed, Justified, TotalsAgreed
  <2>4. QED
    BY <2>2, <2>3 DEF PythonInv
<1>2. CASE Python!Next
  <2>1. CASE Python!Ended
    BY <1>1, <2>1 DEF Python!Ended, Python!vars, Python!mainVars, Python!poolVars, pythonVars
  <2>2. QED
    BY <1>2, <2>1, CheckHeaderInv, ReadNextSegmentInv, MovesInv, RestoreHereInv,
       WriteNextPythonInv, WriteNextRejectsInv, EndsInv, FailsInv, PythonPoolInv
       DEF Python!Next, Python!Main
<1>3. QED
  BY <1>1, <1>2

(* The verdict. *)
LEMMA PythonVerdict == ASSUME PythonInv PROVE SameVerdictAsMemory
<1>1. ASSUME pPc = "ok" PROVE Python!MemoryDecodes(stream)
  <2>1. /\ Python!HeaderAccepted(stream) /\ stream.withinLimit
        /\ ~Python!Trailing(stream) /\ TotalsAgreed
    BY <1>1 DEF PythonInv, Placed
  <2>2. /\ Len(pOutput) = stream.count /\ pNext = stream.count
        /\ pOutput = Python!FirstSegments(stream.count)
        /\ pDeclared = Python!Declared(stream, stream.count)
    BY <1>1, AllRestored
  <2>3. Python!WalkAccepted(stream)
    BY <2>1, <2>2 DEF TotalsAgreed, PythonInv, Walked, Python!WalkAccepted
  <2>4. \A i \in 1..stream.count : Exact(stream.segments[i])
    BY <2>2 DEF PythonInv, Restored
  <2>5. QED
    BY <2>1, <2>2, <2>3, <2>4 DEF TotalsAgreed, Exact, Python!MemoryDecodes
<1>2. Python!SameVerdictAsMemory
  BY <1>1 DEF PythonInv, Justified, Python!SameVerdictAsMemory
<1>3. Python!MemoryDecodes(stream) => Python!InspectAccepts(stream)
  BY DEF Python!MemoryDecodes, Python!InspectAccepts, Python!FrameRestores
<1>4. Python!InspectAgrees
  BY <1>1, <1>3 DEF Python!InspectAgrees
<1>5. pRestored <= pDeclared
  <2>1. /\ pRestored = Python!Declared(stream, Len(pOutput))
        /\ pDeclared = Python!Declared(stream, pNext)
        /\ Len(pOutput) \in 0..pNext
    BY PythonFacts DEF PythonInv, Restored, Walked
  <2>2. QED
    BY <2>1, PythonFacts, DeclaredGrows
<1>6. Python!OutputWithinDeclared
  BY <1>5 DEF PythonInv, Walked, Python!OutputWithinDeclared
<1>7. QED
  BY <1>2, <1>4, <1>6 DEF SameVerdictAsMemory

--------------------------------------------------------------------------------
(* The Rust reader keeps its invariant.                                    *)

LEMMA NativeTypes ==
  ASSUME NativeInv
  PROVE  /\ GoodStream(stream) /\ stream.count \in Nat /\ Len(stream.segments) \in Nat
         /\ first \in Nat /\ nWorkers \in Nat \ {0} /\ nWorkers \in 1..MaxWorkers
         /\ thread \in [Tasks -> {"none", "running", "sent", "panicked"}]
         /\ channel \in Seq(Tasks) /\ nPending \subseteq Tasks /\ nOutput \in Seq(Tasks)
         /\ Len(nOutput) \in Nat /\ Len(channel) \in Nat
         /\ unwinds \in BOOLEAN /\ nFault \in BOOLEAN
         /\ BatchEnd \in Nat /\ BatchEnd <= stream.count /\ BatchEnd <= first + nWorkers
         /\ BatchEnd = stream.count \/ BatchEnd = first + nWorkers
         /\ Native!Batch = (first + 1)..BatchEnd
         /\ Native!Cursor = Len(nOutput) + 1
<1>1. GoodStream(stream) /\ stream.count \in Nat /\ Len(stream.segments) \in Nat
  BY StreamFacts DEF NativeInv
<1>2. /\ first \in Nat /\ nWorkers \in 1..MaxWorkers
      /\ thread \in [Tasks -> {"none", "running", "sent", "panicked"}]
      /\ channel \in Seq(Tasks) /\ nPending \subseteq Tasks /\ nOutput \in Seq(Tasks)
      /\ unwinds \in BOOLEAN /\ nFault \in BOOLEAN
  BY DEF NativeInv, Native!TypeOK, Native!Segments, Tasks
<1>3. nWorkers \in Nat \ {0}
  BY <1>2, CompressAssumption
<1>4. /\ BatchEnd \in Nat /\ BatchEnd <= stream.count /\ BatchEnd <= first + nWorkers
      /\ BatchEnd = stream.count \/ BatchEnd = first + nWorkers
  BY <1>1, <1>2, <1>3 DEF BatchEnd, Native!Smaller
<1>5. Native!Batch = (first + 1)..BatchEnd /\ Native!Cursor = Len(nOutput) + 1
  BY DEF Native!Batch, BatchEnd, Native!Cursor
<1>6. Len(nOutput) \in Nat /\ Len(channel) \in Nat
  BY <1>2
<1>7. QED
  BY <1>1, <1>2, <1>3, <1>4, <1>5, <1>6

(* After the table is checked every batch is one of segments that exist.   *)
LEMMA BatchesExist ==
  ASSUME NativeInv, nPc \notin {"table", "error"}
  PROVE  /\ stream.count <= Len(stream.segments) /\ stream.count <= MaxSegments
         /\ \A i \in Nat : i >= 1 /\ i <= BatchEnd => i \in Tasks /\ i \in 1..stream.count
<1>1. stream.count <= Len(stream.segments)
  BY DEF NativeInv, TableAccepted, Python!WalkAccepted
<1>2. Len(stream.segments) <= MaxSegments /\ MaxSegments \in Nat
  BY CompressAssumption, StreamFacts DEF NativeInv
<1>3. QED
  BY SMTT(30), <1>1, <1>2, NativeTypes DEF Tasks

LEMMA RestingNative == NativeCalled => NativeInv
<1> SUFFICES ASSUME NativeCalled PROVE NativeInv
  OBVIOUS
<1> USE DEF NativeCalled, NativeRests
<1>1. stream.count \in Nat
  BY StreamFacts
<1>2. Native!TypeOK
  <2>1. channel = <<>> /\ nOutput = <<>> /\ nPending = {}
    OBVIOUS
  <2>2. channel \in Seq(Native!Segments) /\ nOutput \in Seq(Native!Segments)
    BY <2>1
  <2>3. thread \in [Native!Segments -> {"none", "running", "sent", "panicked"}]
    BY DEF Native!Segments, Tasks
  <2>4. QED
    BY <2>1, <2>2, <2>3 DEF Native!TypeOK
<1>3. BatchEnd \in Nat
  BY <1>1, CompressAssumption DEF BatchEnd, Native!Smaller
<1>4. TableAccepted /\ Prefix /\ Accounted /\ Held /\ Answered
  BY <1>3 DEF TableAccepted, Prefix, Accounted, Held, Answered
<1>5. QED
  BY <1>2, <1>4 DEF NativeInv

LEMMA RestingNativeNext == NativeCalled' => NativeInv'
  BY RestingNative, PTL

(* The frame checks of both readers differ only in the nested digests.     *)
LEMMA AcceptedFrames ==
  ASSUME Accepted, NEW i \in 1..stream.count
  PROVE  Native!FrameDecodes(stream.segments[i])
  BY DEF Accepted, Python!MemoryDecodes, Python!FrameRestores, Native!FrameDecodes

LEMMA CheckTableInv == ASSUME NativeInv, Native!CheckTable PROVE NativeInv'
<1>1. /\ nPc = "table"
      /\ nPc' = IF /\ Python!HeaderAccepted(stream) /\ stream.withinLimit
                   /\ stream.encodedDigestOK /\ Python!WalkAccepted(stream)
                THEN "spawn" ELSE "error"
      /\ UNCHANGED <<stream, unwinds, nWorkers, nFault, first, thread, channel, nPending,
                     nOutput>>
  BY SameChecks DEF Native!CheckTable
<1>2. GoodStream(stream)' /\ Native!TypeOK'
  BY <1>1 DEF NativeInv, GoodStream, Native!TypeOK
<1>3. BatchEnd' = BatchEnd
  BY <1>1 DEF BatchEnd
<1>4. TableAccepted' /\ Held' /\ Accounted'
  BY <1>1, <1>3 DEF NativeInv, TableAccepted, Held, Accounted, Prefix
<1>5. Prefix'
  <2>1. nOutput = <<>> /\ first = 0 /\ Native!Smaller(first, stream.count) = 0
    BY <1>1, NativeTypes DEF NativeInv, Prefix, Native!Smaller
  <2>2. QED
    BY <1>1, <1>3, <2>1 DEF NativeInv, Prefix
<1>6. Answered'
  BY <1>1 DEF NativeInv, Answered, Accepted, Python!MemoryDecodes
<1>7. QED
  BY <1>2, <1>4, <1>5, <1>6 DEF NativeInv

LEMMA SpawnInv == ASSUME NativeInv, Native!Spawn PROVE NativeInv'
<1>1. /\ nPc = "spawn" /\ nPc' = "receive" /\ first < stream.count
      /\ thread' = [i \in Tasks |-> IF i \in (first + 1)..BatchEnd THEN "running" ELSE thread[i]]
      /\ UNCHANGED <<stream, unwinds, nWorkers, nFault, first, channel, nPending, nOutput>>
  BY NativeTypes DEF Native!Spawn, Native!Segments, Tasks
<1>2. BatchEnd' = BatchEnd
  BY <1>1 DEF BatchEnd
<1>3. GoodStream(stream)' /\ Native!TypeOK'
  <2>1. thread' \in [Tasks -> {"none", "running", "sent", "panicked"}]
    BY <1>1, NativeTypes
  <2>2. QED
    BY <1>1, <2>1 DEF NativeInv, GoodStream, Native!TypeOK, Native!Segments, Tasks
<1>4. Len(nOutput) = first /\ BatchEnd > first
  BY <1>1, NativeTypes DEF NativeInv, Prefix, Native!Smaller
<1>5. TableAccepted' /\ Prefix' /\ Held' /\ Answered'
  BY <1>1, <1>2, <1>4, NativeTypes DEF NativeInv, TableAccepted, Prefix, Held, Answered
<1>6. Accounted'
  <2>1. \A i \in (first + 1)..BatchEnd : i \in Tasks
    BY <1>1, NativeTypes, BatchesExist
  <2>2. \A i \in (first + 1)..BatchEnd : thread'[i] = "running"
    BY <1>1, <2>1
  <2>3. \A i \in Tasks : thread'[i] # "none" => i <= BatchEnd
    BY <1>1, NativeTypes DEF NativeInv, Accounted
  <2>4. Len(nOutput) + 1 <= BatchEnd
    BY <1>4, NativeTypes
  <2>5. Len(nOutput) + 1 \notin nPending
    BY <1>1, <1>4, NativeTypes DEF NativeInv, Held
  <2>6. QED
    BY <1>1, <1>2, <2>2, <2>3, <2>4, <2>5 DEF Accounted
<1>7. QED
  BY <1>3, <1>5, <1>6 DEF NativeInv

(* The steps that only move the calling thread on, or end the process. *)
LEMMA AllBatchesInv == ASSUME NativeInv, Native!AllBatches \/ Native!CheckDigest PROVE NativeInv'
<1>1. /\ nPc \in {"spawn", "digest"} /\ nPc' \in {"digest", "ok", "error"}
      /\ UNCHANGED <<stream, unwinds, nWorkers, nFault, first, thread, channel, nPending,
                     nOutput>>
  BY DEF Native!AllBatches, Native!CheckDigest
<1>2. GoodStream(stream)' /\ Native!TypeOK'
  BY <1>1 DEF NativeInv, GoodStream, Native!TypeOK
<1>3. BatchEnd' = BatchEnd
  BY <1>1 DEF BatchEnd
<1>4. TableAccepted' /\ Held' /\ Accounted'
  BY <1>1, <1>3 DEF NativeInv, TableAccepted, Held, Accounted
<1>5. Prefix' /\ Answered'
  <2>1. CASE Native!AllBatches
    <3>1. nPc = "spawn" /\ nPc' = "digest" /\ first >= stream.count
      BY <2>1 DEF Native!AllBatches
    <3>2. Len(nOutput) = stream.count
      BY <3>1, NativeTypes DEF NativeInv, Prefix, Native!Smaller
    <3>3. QED
      BY <1>1, <1>3, <3>1, <3>2 DEF NativeInv, Prefix, Answered
  <2>2. CASE Native!CheckDigest
    <3>1. nPc = "digest" /\ nPc' = IF nOutput = stream.source THEN "ok" ELSE "error"
      BY <2>2 DEF Native!CheckDigest
    <3>2. nOutput = Python!FirstSegments(stream.count)
      <4>1. nOutput = [i \in 1..Len(nOutput) |-> nOutput[i]]
        <5>1. nOutput \in Seq(Tasks)
          BY NativeTypes
        <5>2. QED
          BY ONLY <5>1
      <4>2. Len(nOutput) = stream.count
        BY <3>1 DEF NativeInv, Prefix
      <4>3. QED
        BY <4>1, <4>2 DEF NativeInv, Prefix, Python!FirstSegments
    <3>3. nPc' = "error" => ~Accepted
      BY <3>1, <3>2 DEF Accepted, Python!MemoryDecodes
    <3>4. Prefix'
      BY <1>1, <1>3, <3>1 DEF NativeInv, Prefix
    <3>5. Answered'
      BY <1>1, <3>1, <3>3 DEF NativeInv, Answered, Accepted
    <3>6. QED
      BY <3>4, <3>5
  <2>3. QED
    BY <2>1, <2>2
<1>6. QED
  BY <1>2, <1>4, <1>5 DEF NativeInv

(* A thread sends its result ... *)
LEMMA SendInv ==
  ASSUME NativeInv, NEW i \in Tasks, Native!Send(i) PROVE NativeInv'
<1>1. /\ thread[i] = "running" /\ thread' = [thread EXCEPT ![i] = "sent"]
      /\ channel' = IF nPc \in {"receive", "write"} THEN Append(channel, i) ELSE channel
      /\ UNCHANGED <<stream, unwinds, nWorkers, nPc, nFault, first, nPending, nOutput>>
  BY DEF Native!Send
<1>2. BatchEnd' = BatchEnd
  BY <1>1 DEF BatchEnd
<1>3. \A j \in Tasks : thread'[j] = IF j = i THEN "sent" ELSE thread[j]
  BY <1>1, NativeTypes
<1>4. i <= BatchEnd
  BY <1>1 DEF NativeInv, Accounted
<1>5. /\ channel' \in Seq(Tasks)
      /\ \A k \in 1..Len(channel') : channel'[k] = i \/ \E l \in 1..Len(channel) : channel'[k] = channel[l]
      /\ \A l \in 1..Len(channel) : \E k \in 1..Len(channel') : channel'[k] = channel[l]
      /\ nPc \in {"receive", "write"} => \E k \in 1..Len(channel') : channel'[k] = i
  <2>1. channel \in Seq(Tasks)
    BY NativeTypes
  <2>2. CASE nPc \in {"receive", "write"}
    <3>1. channel' = Append(channel, i)
      BY <1>1, <2>2
    <3>2. /\ channel' \in Seq(Tasks) /\ Len(channel') = Len(channel) + 1
          /\ \A l \in 1..Len(channel) : channel'[l] = channel[l]
          /\ channel'[Len(channel) + 1] = i
      BY <2>1, <3>1, AppendProps
    <3>3. Len(channel) \in Nat
      BY <2>1
    <3>4. \A k \in 1..Len(channel') : k = Len(channel) + 1 \/ k \in 1..Len(channel)
      BY <3>2, <3>3
    <3>5. Len(channel) + 1 \in 1..Len(channel') /\ \A l \in 1..Len(channel) : l \in 1..Len(channel')
      BY <3>2, <3>3
    <3>6. QED
      BY <3>2, <3>4, <3>5
  <2>3. CASE nPc \notin {"receive", "write"}
    BY <1>1, <2>1, <2>3
  <2>4. QED
    BY <2>2, <2>3
<1>6. GoodStream(stream)' /\ Native!TypeOK'
  <2>1. thread' \in [Tasks -> {"none", "running", "sent", "panicked"}]
    BY <1>1, NativeTypes
  <2>2. QED
    BY <1>1, <1>5, <2>1 DEF NativeInv, GoodStream, Native!TypeOK, Native!Segments, Tasks
<1>7. TableAccepted' /\ Prefix'
  BY <1>1, <1>2 DEF NativeInv, TableAccepted, Prefix
<1>8. Held'
  BY <1>1, <1>2, <1>4, <1>5 DEF NativeInv, Held
<1>9. Accounted'
  <2>1. \A j \in Tasks : thread'[j] # "none" => j <= BatchEnd
    BY <1>3, <1>4 DEF NativeInv, Accounted
  <2>2. ASSUME nPc \in {"receive", "write"}, NEW j \in (first + 1)..BatchEnd
        PROVE  /\ thread'[j] # "none"
               /\ thread'[j] = "sent" => \/ j <= Len(nOutput) \/ j \in nPending
                                         \/ \E k \in 1..Len(channel') : channel'[k] = j
    <3>1. j \in Tasks
      BY <2>2, NativeTypes, BatchesExist
    <3>2. CASE j = i
      BY <3>1, <3>2, <1>3, <1>5, <2>2
    <3>3. CASE j # i
      <4>1. /\ thread'[j] = thread[j] /\ thread[j] # "none"
            /\ thread[j] = "sent" => \/ j <= Len(nOutput) \/ j \in nPending
                                     \/ \E l \in 1..Len(channel) : channel[l] = j
        BY <3>1, <3>3, <1>3, <2>2 DEF NativeInv, Accounted
      <4>2. (\E l \in 1..Len(channel) : channel[l] = j) => \E k \in 1..Len(channel') : channel'[k] = j
        BY <1>5
      <4>3. QED
        BY <4>1, <4>2
    <3>4. QED
      BY <3>2, <3>3
  <2>3. nPc \in {"table", "spawn", "digest", "ok", "error"} =>
          \A j \in Tasks : thread'[j] \in {"none", "sent"}
    BY <1>3 DEF NativeInv, Accounted
  <2> nPc # "panicked"
    BY <1>1 DEF NativeInv, Accounted
  <2>4. QED
    BY <1>1, <1>2, <2>1, <2>2, <2>3 DEF NativeInv, Accounted
<1>10. Answered'
  <2>1. (\E j \in Tasks : thread[j] = "panicked") => \E j \in Tasks : thread'[j] = "panicked"
    BY <1>1, <1>3
  <2>2. QED
    BY <1>1, <2>1 DEF NativeInv, Answered, Accepted
<1>11. QED
  BY <1>6, <1>7, <1>8, <1>9, <1>10 DEF NativeInv

(* ... or panics, which with panic = "abort" ends the process. *)
LEMMA PanicInv ==
  ASSUME NativeInv, NEW i \in Tasks, Native!Panic(i) PROVE NativeInv'
<1>1. /\ thread[i] = "running" /\ thread' = [thread EXCEPT ![i] = "panicked"]
      /\ nPc' = nPc \/ nPc' = "aborted"
      /\ UNCHANGED <<stream, unwinds, nWorkers, nFault, first, channel, nPending, nOutput>>
  BY DEF Native!Panic
<1>2. BatchEnd' = BatchEnd
  BY <1>1 DEF BatchEnd
<1>3. \A j \in Tasks : thread'[j] = IF j = i THEN "panicked" ELSE thread[j]
  BY <1>1, NativeTypes
<1>4. i <= BatchEnd /\ nPc \notin {"table", "spawn", "digest", "ok", "error", "panicked"}
  BY <1>1 DEF NativeInv, Accounted
<1>5. GoodStream(stream)' /\ Native!TypeOK'
  <2>1. thread' \in [Tasks -> {"none", "running", "sent", "panicked"}]
    BY <1>1, NativeTypes
  <2>2. QED
    BY <1>1, <2>1 DEF NativeInv, GoodStream, Native!TypeOK, Native!Segments, Tasks
<1>6. TableAccepted' /\ Prefix' /\ Held'
  BY <1>1, <1>2, <1>4 DEF NativeInv, TableAccepted, Prefix, Held
<1>7. Accounted'
  <2>1. \A j \in Tasks : thread'[j] # "none" => j <= BatchEnd
    BY <1>3, <1>4 DEF NativeInv, Accounted
  <2>2. ASSUME nPc \in {"receive", "write"}, NEW j \in (first + 1)..BatchEnd
        PROVE  thread'[j] # "none" /\ (thread'[j] = "sent" => thread[j] = "sent")
    <3>1. j \in Tasks
      BY <2>2, NativeTypes, BatchesExist
    <3>2. thread[j] # "none"
      BY <2>2 DEF NativeInv, Accounted
    <3>3. QED
      BY <3>1, <3>2, <1>3
  <2>3. QED
    BY <1>1, <1>2, <1>4, <2>1, <2>2 DEF NativeInv, Accounted
<1>8. Answered'
  BY <1>1, <1>3, <1>4 DEF NativeInv, Answered, Accepted
<1>9. QED
  BY <1>5, <1>6, <1>7, <1>8 DEF NativeInv

(* A result is received: it decodes or ends the closure. *)
LEMMA ReceiveInv ==
  ASSUME NativeInv, Native!Receive \/ Native!ReceiveError PROVE NativeInv'
<1> DEFINE i == Head(channel)
<1>1. /\ nPc = "receive" /\ channel # <<>>
      /\ \/ /\ Native!FrameDecodes(stream.segments[i])
            /\ channel' = Tail(channel) /\ nPending' = nPending \cup {i} /\ nPc' = "write"
         \/ /\ ~Native!FrameDecodes(stream.segments[i])
            /\ channel' = <<>> /\ nPending' = {} /\ nPc' = "scope error"
      /\ UNCHANGED <<stream, unwinds, nWorkers, nFault, first, thread, nOutput>>
  BY DEF Native!Receive, Native!ReceiveError
<1>2. BatchEnd' = BatchEnd
  BY <1>1 DEF BatchEnd
<1>3. /\ channel \in Seq(Tasks) /\ i \in Tasks /\ i = channel[1]
      /\ Tail(channel) \in Seq(Tasks) /\ Len(channel) \in Nat /\ Len(channel) > 0
      /\ Len(Tail(channel)) = Len(channel) - 1
      /\ \A k \in 1..(Len(channel) - 1) : Tail(channel)[k] = channel[k + 1]
  BY <1>1, NativeTypes, TailProps
<1>4. i <= BatchEnd /\ i \in 1..stream.count
  <2>1. i <= BatchEnd
    BY <1>3 DEF NativeInv, Held
  <2>2. i \in Nat /\ i >= 1 /\ nPc \notin {"table", "error"}
    <3>1. nPc \notin {"table", "error"}
      BY <1>1
    <3>2. PICK n \in Nat : n = MaxSegments
      BY CompressAssumption
    <3>3. i \in 1..n
      BY <1>3, <3>2 DEF Tasks
    <3>4. \A k \in 1..n : k \in Nat /\ k >= 1
      BY ONLY n \in Nat
    <3>5. QED
      BY <3>1, <3>3, <3>4
  <2>3. i \in 1..stream.count
    BY <2>1, <2>2, BatchesExist
  <2>4. QED
    BY <2>1, <2>3
<1> HIDE DEF i
<1>5. /\ channel' \in Seq(Tasks) /\ nPending' \subseteq Tasks
      /\ \A k \in 1..Len(channel') : \E l \in 1..Len(channel) : channel'[k] = channel[l]
  <2>1. channel' \in Seq(Tasks) /\ nPending' \subseteq Tasks
    <3>1. CASE channel' = <<>> /\ nPending' = {}
      BY ONLY <3>1
    <3>2. CASE channel' = Tail(channel) /\ nPending' = nPending \cup {i}
      BY <1>3, <3>2, NativeTypes
    <3>3. QED
      BY <1>1, <3>1, <3>2
  <2>2. CASE channel' = <<>>
    <3>1. Len(channel') = 0
      BY <2>2
    <3>2. 1..Len(channel') = {}
      BY <3>1
    <3>3. QED
      BY <2>1, <3>2
  <2>3. CASE channel' = Tail(channel)
    <3>1. \A k \in 1..Len(channel') : k \in 1..(Len(channel) - 1) /\ k + 1 \in 1..Len(channel)
      BY <1>3, <2>3
    <3>2. QED
      BY <1>3, <2>1, <2>3, <3>1
  <2>4. QED
    BY <1>1, <2>1, <2>2, <2>3
<1>6. GoodStream(stream)' /\ Native!TypeOK'
  BY <1>1, <1>5 DEF NativeInv, GoodStream, Native!TypeOK, Native!Segments, Tasks
<1>7. TableAccepted' /\ Prefix'
  BY <1>1, <1>2 DEF NativeInv, TableAccepted, Prefix
<1>8. Held'
  BY <1>1, <1>2, <1>4, <1>5 DEF NativeInv, Held
<1>9. Accounted'
  <2>1. ASSUME nPc' = "write", NEW j \in (first + 1)..BatchEnd
        PROVE  /\ thread[j] # "none"
               /\ thread[j] = "sent" => \/ j <= Len(nOutput) \/ j \in nPending'
                                        \/ \E k \in 1..Len(channel') : channel'[k] = j
    <3>1. /\ thread[j] # "none"
          /\ thread[j] = "sent" => \/ j <= Len(nOutput) \/ j \in nPending
                                   \/ \E l \in 1..Len(channel) : channel[l] = j
      BY <1>1, <2>1 DEF NativeInv, Accounted
    <3>2. channel' = Tail(channel) /\ nPending' = nPending \cup {i}
      BY <1>1, <2>1
    <3>3. ASSUME NEW l \in 1..Len(channel), channel[l] = j
          PROVE  j \in nPending' \/ \E k \in 1..Len(channel') : channel'[k] = j
      <4>1. CASE l = 1
        BY <4>1, <1>3, <3>2, <3>3
      <4>2. CASE l # 1
        <5>1. l - 1 \in 1..(Len(channel) - 1) /\ (l - 1) + 1 = l
          BY <4>2, <1>3
        <5>2. l - 1 \in 1..Len(channel') /\ channel'[l - 1] = j
          BY <5>1, <1>3, <3>2, <3>3
        <5>3. QED
          BY <5>2
      <4>3. QED
        BY <4>1, <4>2
    <3>4. QED
      BY <3>1, <3>2, <3>3
  <2>2. nPc' \in {"write", "scope error"}
    BY <1>1
  <2>3. QED
    BY <1>1, <1>2, <2>1, <2>2 DEF NativeInv, Accounted
<1>10. Answered'
  BY <1>1, <1>4, AcceptedFrames DEF Answered, Accepted
<1>11. QED
  BY <1>6, <1>7, <1>8, <1>9, <1>10 DEF NativeInv

(* Nobody is left to send: the thread of the segment that is due panicked. *)
LEMMA DisconnectedInv == ASSUME NativeInv, Native!ReceiveDisconnected PROVE NativeInv'
<1>1. /\ nPc = "receive" /\ channel = <<>> /\ nPending' = {} /\ nPc' = "scope error"
      /\ \A i \in (first + 1)..BatchEnd : thread[i] # "running"
      /\ UNCHANGED <<stream, unwinds, nWorkers, nFault, first, thread, channel, nOutput>>
  BY NativeTypes DEF Native!ReceiveDisconnected
<1>2. BatchEnd' = BatchEnd
  BY <1>1 DEF BatchEnd
<1>3. PICK i \in Nat : i = Len(nOutput) + 1
  BY NativeTypes
<1>4. i \in (first + 1)..BatchEnd /\ i \notin nPending /\ i \in Tasks /\ ~(i <= Len(nOutput))
  <2>1. first <= Len(nOutput) /\ i <= BatchEnd /\ i \notin nPending
    BY <1>1, <1>3 DEF NativeInv, Prefix, Accounted
  <2>2. i \in (first + 1)..BatchEnd /\ ~(i <= Len(nOutput)) /\ i >= 1
    BY <2>1, <1>3, NativeTypes
  <2>3. QED
    BY <1>1, <2>1, <2>2, BatchesExist
<1>5. thread[i] = "panicked"
  <2>1. thread[i] # "none" /\ thread[i] # "running"
    BY <1>1, <1>4 DEF NativeInv, Accounted
  <2>2. thread[i] # "sent"
    <3>1. thread[i] = "sent" => \E k \in 1..Len(channel) : channel[k] = i
      BY <1>1, <1>4 DEF NativeInv, Accounted
    <3>2. Len(channel) = 0
      BY <1>1
    <3>3. 1..Len(channel) = {}
      BY <3>2
    <3>4. QED
      BY <3>1, <3>3
  <2>3. QED
    BY <1>4, <2>1, <2>2, NativeTypes
<1>6. GoodStream(stream)' /\ Native!TypeOK'
  BY <1>1 DEF NativeInv, GoodStream, Native!TypeOK
<1>7. TableAccepted' /\ Prefix' /\ Held' /\ Accounted'
  BY <1>1, <1>2 DEF NativeInv, TableAccepted, Prefix, Held, Accounted
<1>8. Answered'
  BY <1>1, <1>4, <1>5 DEF Answered
<1>9. QED
  BY <1>6, <1>7, <1>8 DEF NativeInv

(* The result that is due is written. *)
LEMMA WriteNextNativeInv == ASSUME NativeInv, Native!WriteNext PROVE NativeInv'
<1> DEFINE c == Len(nOutput) + 1
<1>1. /\ nPc = "write" /\ nPc' = "write" /\ c \in nPending
      /\ nPending' = nPending \ {c} /\ nOutput' = Append(nOutput, c)
      /\ UNCHANGED <<stream, unwinds, nWorkers, nFault, first, thread, channel>>
  BY NativeTypes DEF Native!WriteNext
<1>2. BatchEnd' = BatchEnd
  BY <1>1 DEF BatchEnd
<1>3. c \in Tasks /\ c <= BatchEnd /\ Native!FrameDecodes(stream.segments[c])
  BY <1>1, NativeTypes DEF NativeInv, Held
<1>4. /\ nOutput' \in Seq(Tasks) /\ Len(nOutput') = c /\ c \in Nat /\ Len(nOutput) \in Nat
      /\ \A k \in 1..Len(nOutput) : nOutput'[k] = nOutput[k]
      /\ nOutput'[c] = c /\ Len(nOutput) < c
      /\ \A k \in 1..c : k = c \/ k \in 1..Len(nOutput)
  <2>1. nOutput \in Seq(Tasks) /\ Len(nOutput) \in Nat
    BY NativeTypes
  <2>2. /\ nOutput' \in Seq(Tasks) /\ Len(nOutput') = Len(nOutput) + 1
        /\ \A k \in 1..Len(nOutput) : nOutput'[k] = nOutput[k]
        /\ nOutput'[Len(nOutput) + 1] = c
    BY <1>1, <1>3, <2>1, AppendProps
  <2>3. /\ Len(nOutput) + 1 \in Nat /\ Len(nOutput) < Len(nOutput) + 1
        /\ \A k \in 1..(Len(nOutput) + 1) : k = Len(nOutput) + 1 \/ k \in 1..Len(nOutput)
    BY ONLY <2>1
  <2>4. QED
    BY <2>1, <2>2, <2>3
<1>5. first \in Nat /\ BatchEnd \in Nat
  BY NativeTypes
<1> HIDE DEF c
<1>6. GoodStream(stream)' /\ Native!TypeOK'
  BY <1>1, <1>4 DEF NativeInv, GoodStream, Native!TypeOK, Native!Segments, Tasks
<1>7. TableAccepted' /\ Held' /\ Answered'
  BY <1>1, <1>2 DEF NativeInv, TableAccepted, Held, Answered
<1>8. Prefix'
  <2>1. \A k \in 1..Len(nOutput') : nOutput'[k] = k /\ Native!FrameDecodes(stream.segments[k])
    BY <1>3, <1>4 DEF NativeInv, Prefix
  <2>2. first < stream.count /\ first <= Len(nOutput')
    BY <1>1, <1>4, <1>5 DEF NativeInv, Prefix
  <2>3. QED
    BY <1>1, <1>2, <1>3, <1>4, <2>1, <2>2 DEF Prefix
<1>9. Accounted'
  <2>1. ASSUME NEW j \in (first + 1)..BatchEnd
        PROVE  /\ thread[j] # "none"
               /\ thread[j] = "sent" => \/ j <= Len(nOutput') \/ j \in nPending'
                                        \/ \E k \in 1..Len(channel) : channel[k] = j
    <3>1. /\ thread[j] # "none"
          /\ thread[j] = "sent" => \/ j <= Len(nOutput) \/ j \in nPending
                                   \/ \E l \in 1..Len(channel) : channel[l] = j
      BY <1>1 DEF NativeInv, Accounted
    <3>2. j \in Nat
      BY <1>5
    <3>3. j <= Len(nOutput) => j <= Len(nOutput')
      BY <1>4, <3>2
    <3>4. j = c => j <= Len(nOutput')
      BY <1>4
    <3>5. QED
      BY <1>1, <3>1, <3>3, <3>4
  <2>2. QED
    BY <1>1, <1>2, <2>1 DEF NativeInv, Accounted
<1>10. QED
  BY <1>6, <1>7, <1>8, <1>9 DEF NativeInv

(* The writer fails, or has nothing to write. *)
LEMMA WriteFailsInv == ASSUME NativeInv, Native!WriteFails PROVE NativeInv'
<1>1. /\ nPc = "write" /\ nPc' = "scope error" /\ nFault' = TRUE
      /\ channel' = <<>> /\ nPending' = {}
      /\ UNCHANGED <<stream, unwinds, nWorkers, first, thread, nOutput>>
  BY DEF Native!WriteFails
<1>2. BatchEnd' = BatchEnd
  BY <1>1 DEF BatchEnd
<1>3. channel' \in Seq(Tasks) /\ 1..Len(channel') = {}
  <2>1. channel' = <<>>
    BY <1>1
  <2>2. channel' \in Seq(Tasks)
    BY <2>1
  <2>3. Len(channel') = 0
    BY <2>1
  <2>4. 1..Len(channel') = {}
    BY <2>3
  <2>5. QED
    BY <2>2, <2>4
<1>4. GoodStream(stream)' /\ Native!TypeOK'
  BY <1>1, <1>3 DEF NativeInv, GoodStream, Native!TypeOK, Native!Segments, Tasks
<1>5. TableAccepted' /\ Prefix' /\ Accounted' /\ Answered'
  BY <1>1, <1>2 DEF NativeInv, TableAccepted, Prefix, Accounted, Answered
<1>6. Held'
  BY <1>1, <1>3 DEF Held
<1>7. QED
  BY <1>4, <1>5, <1>6 DEF NativeInv

LEMMA NothingToWriteInv == ASSUME NativeInv, Native!NothingToWrite PROVE NativeInv'
<1>1. /\ nPc = "write" /\ Len(nOutput) + 1 \notin nPending
      /\ nPc' = IF Len(nOutput) + 1 \in (first + 1)..BatchEnd THEN "receive" ELSE "scope"
      /\ UNCHANGED <<stream, unwinds, nWorkers, nFault, first, thread, channel, nPending,
                     nOutput>>
  BY NativeTypes DEF Native!NothingToWrite
<1>2. BatchEnd' = BatchEnd
  BY <1>1 DEF BatchEnd
<1>3. GoodStream(stream)' /\ Native!TypeOK'
  BY <1>1 DEF NativeInv, GoodStream, Native!TypeOK
<1>4. /\ nPc' = "receive" => Len(nOutput) + 1 <= BatchEnd
      /\ nPc' = "scope" => Len(nOutput) = BatchEnd
      /\ nPc' \in {"receive", "scope"}
  <2>1. first <= Len(nOutput) /\ Len(nOutput) <= BatchEnd
    BY <1>1 DEF NativeInv, Prefix
  <2>2. QED
    BY <1>1, <2>1, NativeTypes
<1>5. TableAccepted' /\ Held' /\ Answered'
  BY <1>1, <1>2, <1>4 DEF NativeInv, TableAccepted, Held, Answered
<1>6. Prefix'
  BY <1>1, <1>2, <1>4 DEF NativeInv, Prefix
<1>7. Accounted'
  BY <1>1, <1>2, <1>4 DEF NativeInv, Accounted
<1>8. QED
  BY <1>3, <1>5, <1>6, <1>7 DEF NativeInv

(* thread::scope joins its threads; the next batch follows this one. *)
LEMMA LeaveScopeInv == ASSUME NativeInv, Native!LeaveScope PROVE NativeInv'
<1>1. /\ nPc \in {"scope", "scope error"}
      /\ first' = IF nPc = "scope" THEN first + nWorkers ELSE first
      /\ UNCHANGED <<stream, unwinds, nWorkers, nFault, thread, channel, nPending, nOutput>>
  BY DEF Native!LeaveScope
<1>2. \/ nPc' = "panicked"
      \/ /\ nPc = "scope error" /\ nPc' = "error"
         /\ \A i \in Tasks : thread[i] # "panicked"
      \/ /\ nPc = "scope" /\ nPc' = "spawn"
         /\ \A i \in Tasks : thread[i] # "panicked"
  <2>1. \/ (\E i \in Tasks : thread[i] = "panicked") /\ nPc' = "panicked"
        \/ /\ ~\E i \in Tasks : thread[i] = "panicked"
           /\ nPc' = IF nPc = "scope error" THEN "error" ELSE "spawn"
    BY DEF Native!LeaveScope, Native!Segments, Tasks
  <2>2. QED
    BY <1>1, <2>1
<1>3. \A i \in Tasks : thread[i] # "running"
  <2>1. Native!Live = {}
    BY DEF Native!LeaveScope
  <2>2. QED
    BY <2>1 DEF Native!Live, Native!Segments, Tasks
<1>4. /\ first' \in Nat /\ BatchEnd \in Nat /\ BatchEnd' \in Nat /\ BatchEnd <= BatchEnd'
      /\ nPc = "scope" => BatchEnd <= first' /\ BatchEnd = Native!Smaller(first', stream.count)
  <2>1. /\ first \in Nat /\ nWorkers \in Nat /\ stream.count \in Nat
        /\ first' = first + nWorkers \/ first' = first
        /\ nWorkers' = nWorkers /\ stream' = stream
        /\ nPc = "scope" => first' = first + nWorkers
    BY <1>1, NativeTypes
  <2>2. PICK n \in Nat : n = stream.count
    BY <2>1
  <2>3. /\ BatchEnd = IF first + nWorkers < n THEN first + nWorkers ELSE n
        /\ BatchEnd' = IF first' + nWorkers < n THEN first' + nWorkers ELSE n
        /\ Native!Smaller(first', stream.count) = IF first' < n THEN first' ELSE n
    BY <2>1, <2>2 DEF BatchEnd, Native!Smaller
  <2>4. first' \in Nat /\ BatchEnd \in Nat /\ BatchEnd' \in Nat /\ BatchEnd <= BatchEnd'
    BY <2>1, <2>3
  <2>5. ASSUME nPc = "scope"
        PROVE  BatchEnd <= first' /\ BatchEnd = Native!Smaller(first', stream.count)
    <3>1. first' = first + nWorkers
      BY <2>1, <2>5
    <3>2. QED
      BY <2>1, <2>3, <3>1
  <2>6. QED
    BY <2>4, <2>5
<1>5. GoodStream(stream)' /\ Native!TypeOK'
  BY <1>1, <1>2, <1>4 DEF NativeInv, GoodStream, Native!TypeOK
<1>6. TableAccepted' /\ Answered'
  BY <1>1, <1>2 DEF NativeInv, TableAccepted, Answered, Accepted
<1>7. Prefix'
  <2>1. Len(nOutput) <= BatchEnd'
    <3>1. Len(nOutput) <= BatchEnd
      BY DEF NativeInv, Prefix
    <3>2. QED
      BY <1>4, <3>1, NativeTypes
  <2>2. nPc' = "spawn" => Len(nOutput) = Native!Smaller(first', stream.count)
    BY <1>2, <1>4 DEF NativeInv, Prefix
  <2>3. QED
    BY <1>1, <1>2, <2>1, <2>2 DEF NativeInv, Prefix
<1>8. \A i \in Tasks : i <= BatchEnd => i <= BatchEnd' /\ (nPc = "scope" => i <= first')
  BY <1>4, CompressAssumption DEF Tasks
<1>9. Accounted'
  <2>1. \A i \in Tasks : thread[i] # "none" => i <= BatchEnd'
    BY <1>8 DEF NativeInv, Accounted
  <2>2. nPc' \in {"spawn", "error"} => \A i \in Tasks : thread[i] \in {"none", "sent"}
    BY <1>2, <1>3, NativeTypes
  <2>3. QED
    BY <1>1, <1>2, <1>3, <2>1, <2>2 DEF Accounted
<1>10. Held'
  <2>1. \A i \in nPending : i \in Tasks /\ i <= BatchEnd /\ Native!FrameDecodes(stream.segments[i])
    BY NativeTypes DEF NativeInv, Held
  <2>2. \A k \in 1..Len(channel) : channel[k] \in Tasks /\ channel[k] <= BatchEnd
    BY NativeTypes DEF NativeInv, Held
  <2>3. QED
    BY <1>1, <1>2, <1>8, <2>1, <2>2 DEF Held
<1>11. QED
  BY <1>5, <1>6, <1>7, <1>9, <1>10 DEF NativeInv

LEMMA NextNativeInv ==
  ASSUME NativeInv, Native!Next \/ UNCHANGED <<stream, nativeVars>> PROVE NativeInv'
<1>1. ASSUME UNCHANGED <<stream, nativeVars>> PROVE NativeInv'
  <2>1. UNCHANGED <<stream, unwinds, nWorkers, nPc, nFault, first, thread, channel,
                    nPending, nOutput>>
    BY <1>1 DEF nativeVars
  <2>2. BatchEnd' = BatchEnd
    BY <2>1 DEF BatchEnd
  <2>3. GoodStream(stream)' /\ Native!TypeOK' /\ TableAccepted'
    BY <2>1 DEF NativeInv, GoodStream, Native!TypeOK, TableAccepted
  <2>4. Prefix' /\ Held'
    BY <2>1, <2>2 DEF NativeInv, Prefix, Held
  <2>5. Accounted'
    BY <2>1, <2>2 DEF NativeInv, Accounted
  <2>6. Answered'
    BY <2>1 DEF NativeInv, Answered, Accepted
  <2>7. QED
    BY <2>3, <2>4, <2>5, <2>6 DEF NativeInv
<1>2. ASSUME Native!Main PROVE NativeInv'
  BY <1>2, CheckTableInv, SpawnInv, AllBatchesInv, ReceiveInv, DisconnectedInv,
     WriteNextNativeInv, NothingToWriteInv, LeaveScopeInv DEF Native!Main
<1>3. ASSUME Native!Threads \/ Native!Panics PROVE NativeInv'
  BY <1>3, SendInv, PanicInv DEF Native!Threads, Native!Panics, Native!Segments, Tasks
<1>4. ASSUME Native!Ended PROVE NativeInv'
  BY <1>1, <1>4 DEF Native!Ended, Native!vars, nativeVars
<1>5. QED
  BY <1>1, <1>2, <1>3, <1>4, WriteFailsInv DEF Native!Next

(* The verdict is the stream's. *)
LEMMA NativeVerdictHolds == ASSUME NativeInv PROVE NativeVerdict
<1>1. ASSUME nPc = "ok" PROVE Accepted
  <2>1. Len(nOutput) = stream.count /\ nOutput = stream.source
    BY <1>1 DEF NativeInv, Prefix
  <2>2. \A i \in 1..stream.count : nOutput[i] = i /\ Native!FrameDecodes(stream.segments[i])
    BY <2>1 DEF NativeInv, Prefix
  <2>3. nOutput = Python!FirstSegments(stream.count)
    <3>1. nOutput = [i \in 1..Len(nOutput) |-> nOutput[i]]
      <4>1. nOutput \in Seq(Tasks)
        BY NativeTypes
      <4>2. QED
        BY ONLY <4>1
    <3>2. QED
      BY <2>1, <2>2, <3>1 DEF Python!FirstSegments
  <2>4. /\ Python!HeaderAccepted(stream) /\ stream.withinLimit
        /\ stream.encodedDigestOK /\ Python!WalkAccepted(stream)
    BY <1>1 DEF NativeInv, TableAccepted
  <2>5. \A i \in 1..stream.count :
          /\ Python!FrameRestores(stream.segments[i])
          /\ stream.segments[i].original = stream.segments[i].size
          /\ stream.segments[i].nested
    <3>1. ASSUME NEW i \in 1..stream.count
          PROVE  stream.segments[i].size \in Nat
      <4>1. stream.count <= Len(stream.segments) /\ stream.count \in Nat
        BY <2>4, NativeTypes DEF Python!WalkAccepted
      <4>2. i \in 1..Len(stream.segments)
        BY <4>1, NativeTypes
      <4>3. QED
        BY <4>2, StreamFacts DEF NativeInv
    <3>2. QED
      BY <2>2, <3>1 DEF Python!FrameRestores, Native!FrameDecodes
  <2>6. QED
    BY <2>1, <2>3, <2>4, <2>5 DEF Accepted, Python!MemoryDecodes
<1>2. nPc = "error" /\ ~nFault => ~Accepted
  BY DEF NativeInv, Answered
<1>3. Native!NativeVerdict
  BY <1>1, <1>2, SameChecks DEF Native!NativeVerdict, Accepted
<1>4. Native!PanicIsNoVerdict
  BY DEF NativeInv, Accounted, Native!PanicIsNoVerdict, Native!Segments, Tasks
<1>5. QED
  BY <1>3, <1>4 DEF NativeVerdict

--------------------------------------------------------------------------------
(* The three programs one after the other.                                 *)

(* What compress_file publishes is a sound stream of its segments. *)
LEMMA PublishedStream ==
  ASSUME NEW d, NEW n \in 0..MaxSegments,
         d.present = TRUE, d.frames = FirstSegments(n),
         d.header = [count |-> n, source |-> FirstSegments(n), encoded |-> d.frames]
  PROVE  /\ GoodStream(AsStream(d))
         /\ AsStream(d).count = n /\ AsStream(d).source = FirstSegments(n)
         /\ Python!MemoryDecodes(AsStream(d))
         /\ \A i \in 1..n : AsStream(d).segments[i].nested
<1> DEFINE one == Python!GoodSegment(1)
<1>1. PICK s : s = AsStream(d)
  OBVIOUS
<1>2. n \in Nat /\ n <= MaxSegments
  BY CompressAssumption
<1>3. Len(d.frames) = n
  BY <1>2 DEF FirstSegments
<1>4. s = [wellFormed |-> TRUE, withinLimit |-> TRUE, original |-> n, count |-> n,
           segments |-> [i \in 1..n |-> one], partial |-> FALSE, encodedDigestOK |-> TRUE,
           source |-> FirstSegments(n)]
  <2>1. d.header.count = n /\ d.header.source = FirstSegments(n)
        /\ d.header.encoded = d.frames
    OBVIOUS
  <2>2. [i \in 1..Len(d.frames) |-> one] = [i \in 1..n |-> one]
    BY <1>3
  <2> HIDE DEF one
  <2>3. s = [wellFormed |-> d.present, withinLimit |-> TRUE, original |-> d.header.count,
             count |-> d.header.count, segments |-> [i \in 1..Len(d.frames) |-> one],
             partial |-> FALSE, encodedDigestOK |-> d.header.encoded = d.frames,
             source |-> d.header.source]
    BY <1>1 DEF AsStream, one
  <2>4. d.present = TRUE /\ (d.header.encoded = d.frames) = TRUE
    BY <2>1
  <2>5. QED
    BY <2>1, <2>2, <2>3, <2>4
<1>5. one.size = 1 /\ one.original = 1 /\ one.nested = TRUE /\ one \in Python!SegmentType(Nat)
      /\ Python!FrameRestores(one)
  BY DEF Python!GoodSegment, Python!SegmentType, Python!Modes, Python!FrameRestores
<1> HIDE DEF one
<1>6. s.segments \in Seq(Python!SegmentType(Nat)) /\ Len(s.segments) = n
      /\ \A i \in 1..n : s.segments[i] = one
  BY <1>2, <1>4, <1>5
<1>7. GoodStream(s)
  <2>1. FirstSegments(n) \in Seq(Nat)
    BY <1>2 DEF FirstSegments
  <2>2. s \in Python!StreamType
    BY <1>2, <1>4, <1>6, <2>1 DEF Python!StreamType
  <2>3. QED
    BY <1>2, <1>6, <2>2 DEF GoodStream
<1>8. \A m \in 0..n : Python!Declared(s, m) = m
  <2>1. PICK f : Adds(f, [i \in Nat |-> s.segments[i].size])
                 /\ \A m : Python!Declared(s, m) = f[m]
    BY DeclaredIsSum
  <2>2. PICK list : list = [i \in Nat |-> s.segments[i].size]
    OBVIOUS
  <2>3. PICK ones : ones = [i \in Nat |-> 1]
    OBVIOUS
  <2>4. PICK count : count = [i \in Nat |-> i]
    OBVIOUS
  <2>5. Adds(count, ones) /\ Adds(f, list)
    BY <2>1, <2>2, <2>3, <2>4 DEF Adds
  <2>6. \A i \in 1..n : i \in Nat /\ list[i] = ones[i]
    BY <1>2, <1>5, <1>6, <2>2, <2>3
  <2>7. ASSUME NEW m \in 0..n PROVE f[m] = count[m]
    <3>1. m \in Nat
      BY <1>2
    <3>2. \A i \in 1..m : list[i] = ones[i]
      BY <1>2, <2>6
    <3>3. Adds(f, list)
      BY <2>5
    <3>4. Adds(count, ones)
      BY <2>5
    <3>5. QED
      BY ONLY <3>1, <3>2, <3>3, <3>4, SumOfSame
  <2>8. QED
    BY <1>2, <2>1, <2>4, <2>7
<1>9. Python!WalkAccepted(s)
  <2>1. s.count = n /\ s.original = n /\ s.partial = FALSE
    BY <1>4
  <2>2. ASSUME NEW i \in 1..n PROVE s.segments[i].size <= n - Python!Declared(s, i - 1)
    <3>1. i - 1 \in 0..n /\ i \in Nat
      BY <1>2
    <3>2. Python!Declared(s, i - 1) = i - 1 /\ s.segments[i].size = 1
      BY <1>5, <1>6, <1>8, <3>1
    <3>3. QED
      BY <1>2, <3>2
  <2>3. Python!Declared(s, n) = n
    BY <1>2, <1>8
  <2>4. QED
    BY <1>2, <1>6, <2>1, <2>2, <2>3 DEF Python!WalkAccepted, Python!Trailing
<1>10. Python!MemoryDecodes(s)
  <2>1. Python!HeaderAccepted(s) /\ s.withinLimit /\ s.encodedDigestOK
    BY <1>4 DEF Python!HeaderAccepted
  <2>2. \A i \in 1..s.count : /\ Python!FrameRestores(s.segments[i])
                              /\ s.segments[i].original = s.segments[i].size
    BY <1>4, <1>5, <1>6
  <2>3. s.source = Python!FirstSegments(s.count)
    BY <1>4 DEF FirstSegments, Python!FirstSegments
  <2>4. QED
    BY <1>9, <2>1, <2>2, <2>3 DEF Python!MemoryDecodes
<1>11. s.count = n /\ s.source = FirstSegments(n) /\ \A i \in 1..n : s.segments[i].nested
  BY <1>4, <1>5, <1>6
<1>12. QED
  BY <1>1, <1>7, <1>10, <1>11

(* What compress_file has published when it returns. *)
LEMMA EncoderPublished ==
  ASSUME IInv, pc = "ok"
  PROVE  /\ total \in 0..MaxSegments
         /\ dest.present = TRUE /\ dest.frames = FirstSegments(total)
         /\ dest.header = [count |-> total, source |-> FirstSegments(total),
                           encoded |-> dest.frames]
<1>1. total \in 0..MaxSegments
  BY DEF IInv, TypeOK
<1>2. dest = [header |-> header, frames |-> frames, present |-> TRUE]
      /\ header = [count |-> Len(frames), source |-> digest, encoded |-> encodedDigest]
      /\ Len(digest) = total /\ pending = <<>> /\ ~raised /\ encodedDigest = frames
  BY DEF IInv, PhaseInv
<1>3. Len(frames) = total
  BY <1>2 DEF IInv, DequeInv, TypeOK
<1>4. frames = FirstSegments(total) /\ digest = FirstSegments(total)
  BY <1>2, <1>3 DEF IInv, TypeOK, FirstSegments
<1>5. QED
  BY <1>1, <1>2, <1>3, <1>4

LEMMA EncoderRests == EncoderIdle => IInv
<1>1. EncoderIdle => Init
  BY CompressAssumption DEF EncoderIdle, Init
<1>2. QED
  BY <1>1, InitIInv

LEMMA InitAllInv == RoundTripInit => AllInv
<1> SUFFICES ASSUME RoundTripInit PROVE AllInv
  OBVIOUS
<1>1. PythonIdle => PythonRests /\ pWorkers \in 1..MaxWorkers
  BY CompressAssumption DEF PythonIdle, PythonRests
<1>2. NativeIdle => NativeRests /\ nWorkers \in 1..MaxWorkers /\ unwinds \in BOOLEAN
  BY CompressAssumption DEF NativeIdle, NativeRests
<1>3. CASE turn = "encode" /\ Init /\ stream = Written(total) /\ PythonIdle /\ NativeIdle
  <2>1. total \in 0..MaxSegments /\ pc # "ok"
    BY <1>3 DEF Init
  <2>2. PICK d : d = [header |-> [count |-> total, source |-> FirstSegments(total),
                                  encoded |-> FirstSegments(total)],
                      frames |-> FirstSegments(total), present |-> TRUE]
    OBVIOUS
  <2>3. stream = AsStream(d)
    BY <1>3, <2>2 DEF Written
  <2>4. d.present = TRUE /\ d.frames = FirstSegments(total)
        /\ d.header = [count |-> total, source |-> FirstSegments(total), encoded |-> d.frames]
    BY <2>2
  <2>5. GoodStream(stream) /\ stream.count = total
    BY <2>1, <2>3, <2>4, PublishedStream
  <2>6. PythonInv /\ NativeInv
    BY <1>1, <1>2, <1>3, <2>5, RestingPython, RestingNative DEF PythonCalled, NativeCalled
  <2>7. QED
    BY <1>1, <1>2, <1>3, <2>5, <2>6, InitIInv DEF AllInv
<1>4. CASE turn = "python" /\ Python!Init /\ EncoderIdle /\ NativeIdle
  <2>1. GoodStream(stream)
    BY <1>4, ReadersAssumption DEF Python!Init, GoodStream
  <2>2. PythonRests
    BY <1>4 DEF Python!Init, Python!PoolInit, PythonRests, Python!Tasks, Tasks
  <2>3. pWorkers \in 1..MaxWorkers
    <3>1. PICK cpus \in 1..MaxWorkers :
            pWorkers = Python!Smaller(Python!Larger(1, stream.count), cpus)
      BY <1>4 DEF Python!Init, Python!PoolInit
    <3>2. stream.count \in Nat
      BY <2>1, StreamFacts
    <3>3. QED
      BY <3>1, <3>2, CompressAssumption DEF Python!Smaller, Python!Larger
  <2>4. PythonInv /\ NativeInv
    BY <1>2, <1>4, <2>1, <2>2, <2>3, RestingPython, RestingNative DEF PythonCalled, NativeCalled
  <2>5. pc # "ok"
    BY <1>4 DEF EncoderIdle
  <2>6. QED
    BY <1>4, <2>4, <2>5, EncoderRests DEF AllInv
<1>5. CASE turn = "native" /\ Native!Init /\ EncoderIdle /\ PythonIdle
  <2>1. GoodStream(stream)
    BY <1>5, ReadersAssumption DEF Native!Init, GoodStream
  <2>2. NativeRests /\ unwinds \in BOOLEAN
    BY <1>5 DEF Native!Init, NativeRests, Native!Segments, Tasks
  <2>3. nWorkers \in 1..MaxWorkers
    <3>1. PICK available \in 1..MaxWorkers :
            nWorkers = Native!Larger(1, Native!Smaller(stream.count, available))
      BY <1>5 DEF Native!Init
    <3>2. stream.count \in Nat
      BY <2>1, StreamFacts
    <3>3. QED
      BY <3>1, <3>2, CompressAssumption DEF Native!Smaller, Native!Larger
  <2>4. PythonInv /\ NativeInv
    BY <1>1, <1>5, <2>1, <2>2, <2>3, RestingPython, RestingNative DEF PythonCalled, NativeCalled
  <2>5. pc # "ok"
    BY <1>5 DEF EncoderIdle
  <2>6. QED
    BY <1>5, <2>4, <2>5, EncoderRests DEF AllInv
<1>6. QED
  BY <1>3, <1>4, <1>5 DEF RoundTripInit

(* A reader is called on what was published. *)
LEMMA HandOver ==
  ASSUME AllInv, turn = "encode", pc = "ok", stream' = AsStream(dest)
  PROVE  GoodStream(stream') /\ stream'.count = total /\ stream'.count = stream.count
         /\ stream'.source = FirstSegments(total) /\ stream'.count \in Nat
<1>1. GoodStream(AsStream(dest)) /\ AsStream(dest).count = total
      /\ AsStream(dest).source = FirstSegments(total)
  <2>1. IInv
    BY DEF AllInv
  <2>2. QED
    BY <2>1, EncoderPublished, PublishedStream
<1>2. stream'.count \in Nat
  BY <1>1, StreamFacts
<1>3. QED
  BY <1>1, <1>2 DEF AllInv

LEMMA HandToPythonInv == ASSUME AllInv, HandToPython PROVE AllInv'
<1>1. /\ turn = "encode" /\ pc = "ok" /\ turn' = "python" /\ stream' = AsStream(dest)
      /\ UNCHANGED vars /\ UNCHANGED nativeVars
      /\ UNCHANGED <<pQueue, pTask, pPc, pRaised, pFault, pNext, pDeclared, pPending,
                     pOutput, pRestored, pTemp, pDest>>
  BY DEF HandToPython
<1>2. PICK cpus \in 1..MaxWorkers :
        pWorkers' = Python!Smaller(Python!Larger(1, stream'.count), cpus)
  BY DEF HandToPython
<1>3. GoodStream(stream)' /\ stream'.count \in Nat
  BY <1>1, HandOver DEF GoodStream
<1>4. IInv'
  BY <1>1, NextIInv DEF AllInv
<1>5. PythonCalled'
  <2>1. pWorkers' \in 1..MaxWorkers
    BY <1>2, <1>3, CompressAssumption DEF Python!Smaller, Python!Larger
  <2>2. PythonRests'
    BY <1>1 DEF AllInv, PythonRests
  <2>3. QED
    BY <1>3, <2>1, <2>2 DEF PythonCalled
<1>6. NativeCalled'
  <2>1. nWorkers \in 1..MaxWorkers /\ unwinds \in BOOLEAN
    BY NativeTypes DEF AllInv
  <2>2. NativeRests' /\ nWorkers' = nWorkers /\ unwinds' = unwinds
    BY <1>1 DEF AllInv, NativeRests, nativeVars
  <2>3. QED
    BY <1>3, <2>1, <2>2 DEF NativeCalled
<1>7. dest' = dest
  BY <1>1 DEF vars, mainVars
<1>8. (stream = AsStream(dest))'
  BY <1>1, <1>7 DEF AsStream
<1>9. QED
  BY <1>1, <1>4, <1>5, <1>6, <1>8, RestingPythonNext, RestingNativeNext DEF AllInv

LEMMA HandToNativeInv == ASSUME AllInv, HandToNative PROVE AllInv'
<1>1. /\ turn = "encode" /\ pc = "ok" /\ turn' = "native" /\ stream' = AsStream(dest)
      /\ unwinds' \in BOOLEAN /\ UNCHANGED vars /\ UNCHANGED pythonVars
      /\ UNCHANGED <<nPc, nFault, first, thread, channel, nPending, nOutput>>
  BY DEF HandToNative
<1>2. PICK cpus \in 1..MaxWorkers :
        nWorkers' = Python!Larger(1, Python!Smaller(stream'.count, cpus))
  BY DEF HandToNative
<1>3. GoodStream(stream)' /\ stream'.count \in Nat
  BY <1>1, HandOver DEF GoodStream
<1>4. IInv'
  BY <1>1, NextIInv DEF AllInv
<1>5. NativeCalled'
  <2>1. nWorkers' \in 1..MaxWorkers
    BY <1>2, <1>3, CompressAssumption DEF Python!Smaller, Python!Larger
  <2>2. NativeRests'
    BY <1>1 DEF AllInv, NativeRests
  <2>3. QED
    BY <1>1, <1>3, <2>1, <2>2 DEF NativeCalled
<1>6. PythonCalled'
  <2>1. pWorkers \in 1..MaxWorkers
    BY PythonFacts, CompressAssumption DEF AllInv
  <2>2. PythonRests' /\ pWorkers' = pWorkers
    BY <1>1 DEF AllInv, PythonRests, pythonVars
  <2>3. QED
    BY <1>3, <2>1, <2>2 DEF PythonCalled
<1>7. dest' = dest
  BY <1>1 DEF vars, mainVars
<1>8. (stream = AsStream(dest))'
  BY <1>1, <1>7 DEF AsStream
<1>9. QED
  BY <1>1, <1>4, <1>5, <1>6, <1>8, RestingPythonNext, RestingNativeNext DEF AllInv

(* No reader changes its stream, no encoder its source. *)
LEMMA StreamKept ==
  /\ Python!Next => UNCHANGED stream
  /\ Native!Next => UNCHANGED stream
  /\ Next => UNCHANGED total
<1>1. Python!Next => UNCHANGED stream
  BY DEF Python!Next, Python!Main, Python!CheckHeader, Python!ReadNextSegment,
         Python!ReadRejects, Python!AllRead, Python!RestoreHere, Python!RestoreHereRejects,
         Python!WriteNext, Python!WriteNextRejects, Python!Drained, Python!Join,
         Python!CheckTrailing, Python!CheckTotals, Python!Publish, Python!Cleanup,
         Python!Fails, Python!TaskStarts, Python!TaskEnds, Python!TaskFails, Python!Ended,
         Python!mainVars, Python!vars, Python!Keeps
<1>2. Native!Next => UNCHANGED stream
  BY DEF Native!Next, Native!Main, Native!CheckTable, Native!Spawn, Native!AllBatches,
         Native!Receive, Native!ReceiveError, Native!ReceiveDisconnected, Native!WriteNext,
         Native!NothingToWrite, Native!LeaveScope, Native!CheckDigest, Native!Threads,
         Native!Send, Native!WriteFails, Native!Panics, Native!Panic, Native!Ended,
         Native!vars
<1>3. Next => UNCHANGED total
  BY DEF Next, Main, ReadSegment, EndOfSource, ReadRaises, WriteNext, WriteNextRaises,
         Drained, Join, PatchHeader, Publish, FinishRaises, Cleanup, TaskStarts, TaskEnds,
         Ended, mainVars, vars
<1>4. QED
  BY <1>1, <1>2, <1>3

LEMMA NextAllInv == AllInv /\ [RoundTripNext]_allVars => AllInv'
<1> SUFFICES ASSUME AllInv, [RoundTripNext]_allVars PROVE AllInv'
  OBVIOUS
<1>1. IInv /\ PythonInv /\ NativeInv
  BY DEF AllInv
<1>2. CASE UNCHANGED allVars
  <2>1. UNCHANGED vars /\ UNCHANGED turn /\ UNCHANGED stream /\ UNCHANGED pythonVars
        /\ UNCHANGED nativeVars
    BY <1>2 DEF allVars
  <2>2. IInv' /\ PythonInv' /\ NativeInv'
    BY <1>1, <2>1, NextIInv, NextPythonInv, NextNativeInv
  <2>3. QED
    BY <2>1, <2>2 DEF AllInv, PythonRests, NativeRests, pythonVars, nativeVars, vars,
                      mainVars, AsStream
<1>3. CASE Encode
  <2>1. turn = "encode" /\ Next /\ UNCHANGED turn /\ UNCHANGED stream
        /\ UNCHANGED pythonVars /\ UNCHANGED nativeVars
    BY <1>3 DEF Encode
  <2>2. IInv' /\ PythonInv' /\ NativeInv'
    BY <1>1, <2>1, NextIInv, NextPythonInv, NextNativeInv
  <2>3. UNCHANGED total
    BY <2>1, StreamKept
  <2>4. PythonRests' /\ NativeRests'
    BY <2>1 DEF AllInv, PythonRests, NativeRests, pythonVars, nativeVars
  <2>5. QED
    BY <2>1, <2>2, <2>3, <2>4 DEF AllInv
<1>4. CASE ReadInPython
  <2>1. turn = "python" /\ Python!Next /\ UNCHANGED turn /\ UNCHANGED stream
        /\ UNCHANGED vars /\ UNCHANGED nativeVars
    BY <1>4, StreamKept DEF ReadInPython
  <2>2. IInv' /\ PythonInv' /\ NativeInv'
    BY <1>1, <2>1, NextIInv, NextPythonInv, NextNativeInv
  <2>3. QED
    BY <2>1, <2>2 DEF AllInv, vars, mainVars, AsStream
<1>5. CASE ReadNatively
  <2>1. turn = "native" /\ Native!Next /\ UNCHANGED turn /\ UNCHANGED stream
        /\ UNCHANGED vars /\ UNCHANGED pythonVars
    BY <1>5, StreamKept DEF ReadNatively
  <2>2. IInv' /\ PythonInv' /\ NativeInv'
    BY <1>1, <2>1, NextIInv, NextPythonInv, NextNativeInv
  <2>3. QED
    BY <2>1, <2>2 DEF AllInv, vars, mainVars, AsStream
<1>6. QED
  BY <1>2, <1>3, <1>4, <1>5, HandToPythonInv, HandToNativeInv DEF RoundTripNext

(* Whoever is called, each program keeps its own invariant, and a reader   *)
(* that is called after the encoder is given what the encoder published.   *)
THEOREM RoundTripInvariant == RoundTripSpec => []AllInv
  BY InitAllInv, NextAllInv, PTL DEF RoundTripSpec

(* decompress_file publishes exactly the streams that decompress() returns *)
(* for, inspect() accepts what is published, and never more is written     *)
(* than the header declares.                                               *)
THEOREM SameVerdict == RoundTripSpec => []SameVerdictAsMemory
<1>1. AllInv => SameVerdictAsMemory
  BY PythonVerdict DEF AllInv
<1>2. QED
  BY RoundTripInvariant, <1>1, PTL

(* The Rust decoder's verdict is that of decompress() with the nested      *)
(* digests, in whatever order its threads finish and batches are cut, and  *)
(* no panic is turned into a verdict.                                      *)
THEOREM NativeVerdictCorrect == RoundTripSpec => []NativeVerdict
<1>1. AllInv => NativeVerdict
  BY NativeVerdictHolds DEF AllInv
<1>2. QED
  BY RoundTripInvariant, <1>1, PTL

(* What compress_file published restores the source in Python and in Rust. *)
THEOREM RoundTrips == RoundTripSpec => []ReadsBack
<1>1. AllInv => ReadsBack
  <2> SUFFICES ASSUME AllInv, pc = "ok"
               PROVE  /\ turn = "python" /\ pPc \in {"ok", "error"} /\ ~pFault
                           => pPc = "ok" /\ pDest.output = FirstSegments(total)
                      /\ turn = "native" /\ nPc \in {"ok", "error"} /\ ~nFault
                           => nPc = "ok" /\ nOutput = FirstSegments(total)
    BY DEF ReadsBack
  <2>1. IInv /\ PythonInv /\ NativeInv
    BY DEF AllInv
  <2>2. /\ AsStream(dest).count = total /\ AsStream(dest).source = FirstSegments(total)
        /\ Python!MemoryDecodes(AsStream(dest))
        /\ \A i \in 1..total : AsStream(dest).segments[i].nested
    BY <2>1, EncoderPublished, PublishedStream
  <2>3. ASSUME turn \in {"python", "native"}
        PROVE  /\ stream.source = FirstSegments(total) /\ Python!MemoryDecodes(stream)
               /\ Accepted
    <3>1. stream = AsStream(dest)
      BY <2>3 DEF AllInv
    <3>2. QED
      BY <2>2, <3>1 DEF Accepted
  <2>4. ASSUME turn = "python", pPc \in {"ok", "error"}, ~pFault
        PROVE  pPc = "ok" /\ pDest.output = FirstSegments(total)
    <3>1. pPc = "ok"
      BY <2>1, <2>3, <2>4 DEF PythonInv, Justified
    <3>2. pDest.output = stream.source
      BY <2>1, <3>1 DEF PythonInv, Placed, TotalsAgreed
    <3>3. QED
      BY <2>3, <2>4, <3>1, <3>2
  <2>5. ASSUME turn = "native", nPc \in {"ok", "error"}, ~nFault
        PROVE  nPc = "ok" /\ nOutput = FirstSegments(total)
    <3>1. nPc = "ok"
      BY <2>1, <2>3, <2>5 DEF NativeInv, Answered
    <3>2. nOutput = stream.source
      BY <2>1, <3>1 DEF NativeInv, Prefix
    <3>3. QED
      BY <2>3, <2>5, <3>1, <3>2
  <2>6. QED
    BY <2>4, <2>5
<1>2. QED
  BY RoundTripInvariant, <1>1, PTL

(* Every behaviour of the three programs is, seen from the Rust decoder's  *)
(* output, one of OrderedStream: handing the published stream over keeps   *)
(* the number of segments, and only a decoder that runs restores any.      *)
THEOREM NativeRefinement == RoundTripSpec => Native!ImplementsOrderedStream
<1> DEFINE res == CASE nPc = "ok" -> "published"
                    [] nPc \in {"error", "panicked"} -> "failed"
                    [] OTHER -> "running"
           sv == <<stream.count, nOutput, res>>
<1>1. res = IF nPc = "ok" THEN "published"
            ELSE IF nPc \in {"error", "panicked"} THEN "failed" ELSE "running"
  OBVIOUS
<1>2. res' = IF nPc' = "ok" THEN "published"
             ELSE IF nPc' \in {"error", "panicked"} THEN "failed" ELSE "running"
  OBVIOUS
<1>3. RoundTripInit => Native!Restoring!StreamInit
  <2> SUFFICES ASSUME RoundTripInit PROVE Native!Restoring!StreamInit
    OBVIOUS
  <2>1. AllInv
    BY InitAllInv
  <2>2. nPc = "table" /\ nOutput = <<>>
    BY DEF RoundTripInit, NativeIdle, Native!Init
  <2>3. stream.count \in Nat
    BY <2>1, <2>2, NativeTypes DEF AllInv
  <2>4. QED
    BY <1>1, <2>2, <2>3 DEF Native!Restoring!StreamInit
<1>4. ASSUME AllInv, [RoundTripNext]_allVars
      PROVE  [Native!Restoring!StreamNext]_(Native!Restoring!streamVars)
  <2>1. SUFFICES \/ UNCHANGED <<stream.count, nOutput>> /\ res' = res
                 \/ /\ res = "running" /\ res' = "running" /\ Len(nOutput) < stream.count
                    /\ nOutput' = Append(nOutput, Len(nOutput) + 1) /\ stream.count' = stream.count
                 \/ /\ res = "running" /\ res' = "published" /\ Len(nOutput) = stream.count
                    /\ UNCHANGED <<stream.count, nOutput>>
                 \/ /\ res = "running" /\ res' = "failed"
                    /\ UNCHANGED <<stream.count, nOutput>>
    BY <1>4 DEF Native!Restoring!StreamNext, Native!Restoring!streamVars,
         Native!Restoring!Emit, Native!Restoring!PublishAll, Native!Restoring!GiveUp
  <2> HIDE DEF res
  <2>2. NativeInv
    BY <1>4 DEF AllInv
  <2>3. CASE UNCHANGED <<stream, nOutput, nPc>>
    BY <2>3, <1>1, <1>2
  <2>4. CASE Encode \/ ReadInPython \/ UNCHANGED allVars
    <3>1. UNCHANGED <<stream, nOutput, nPc>>
      BY <2>4, StreamKept DEF Encode, ReadInPython, allVars, nativeVars
    <3>2. QED
      BY <2>3, <3>1
  <2>5. CASE HandToPython \/ HandToNative
    <3>1. UNCHANGED <<nOutput, nPc>> /\ turn = "encode" /\ pc = "ok" /\ stream' = AsStream(dest)
      BY <2>5 DEF HandToPython, HandToNative, nativeVars
    <3>2. stream'.count = stream.count
      BY <1>4, <3>1, HandOver
    <3>3. QED
      BY <3>1, <3>2, <1>1, <1>2
  <2>6. CASE ReadNatively
    <3>1. Native!Next /\ UNCHANGED stream
      BY <2>6, StreamKept DEF ReadNatively
    <3>2. CASE Native!WriteNext
      <4>1. /\ nPc = "write" /\ UNCHANGED nPc /\ Len(nOutput) + 1 \in nPending
            /\ nOutput' = Append(nOutput, Len(nOutput) + 1)
        BY <2>2, <3>2, NativeTypes DEF Native!WriteNext
      <4>2. Len(nOutput) + 1 \in Tasks /\ Len(nOutput) + 1 <= BatchEnd
        BY <2>2, <4>1, NativeTypes DEF NativeInv, Held
      <4>3. Len(nOutput) < stream.count
        BY <2>2, <4>2, NativeTypes
      <4>4. QED
        BY <3>1, <4>1, <4>3, <1>1, <1>2
    <3>3. CASE Native!CheckDigest
      <4>1. nPc = "digest" /\ nPc' \in {"ok", "error"} /\ UNCHANGED nOutput
        BY <3>3 DEF Native!CheckDigest
      <4>2. Len(nOutput) = stream.count
        BY <2>2, <4>1 DEF NativeInv, Prefix
      <4>3. QED
        BY <3>1, <4>1, <4>2, <1>1, <1>2
    <3>4. CASE Native!CheckTable \/ Native!LeaveScope
      <4>1. /\ nPc \in {"table", "scope", "scope error"}
            /\ nPc' \in {"spawn", "error", "panicked"} /\ UNCHANGED nOutput
        BY <3>4 DEF Native!CheckTable, Native!LeaveScope
      <4>2. QED
        BY <3>1, <4>1, <1>1, <1>2
    <3>5. CASE \/ Native!Spawn \/ Native!AllBatches \/ Native!Receive \/ Native!ReceiveError
               \/ Native!ReceiveDisconnected \/ Native!NothingToWrite \/ Native!WriteFails
      <4>1. /\ nPc \in {"spawn", "receive", "write"} /\ UNCHANGED nOutput
            /\ nPc' \in {"receive", "digest", "write", "scope", "scope error"}
        BY <3>5 DEF Native!Spawn, Native!AllBatches, Native!Receive, Native!ReceiveError,
             Native!ReceiveDisconnected, Native!NothingToWrite, Native!WriteFails
      <4>2. QED
        BY <3>1, <4>1, <1>1, <1>2
    <3>6. CASE Native!Threads \/ Native!Ended
      <4>1. UNCHANGED <<nPc, nOutput>>
        BY <3>6 DEF Native!Threads, Native!Send, Native!Ended, Native!vars
      <4>2. QED
        BY <3>1, <4>1, <2>3
    <3>7. CASE Native!Panics
      <4>1. PICK i \in Tasks : Native!Panic(i)
        BY <3>7 DEF Native!Panics, Native!Segments, Tasks
      <4>2. thread[i] = "running" /\ UNCHANGED nOutput /\ (nPc' = nPc \/ nPc' = "aborted")
        BY <4>1 DEF Native!Panic
      <4>3. nPc \notin {"ok", "error", "panicked"}
        BY <2>2, <4>2 DEF NativeInv, Accounted
      <4>4. QED
        BY <3>1, <4>2, <4>3, <1>1, <1>2
    <3>8. QED
      BY <3>1, <3>2, <3>3, <3>4, <3>5, <3>6, <3>7 DEF Native!Next, Native!Main
  <2>7. QED
    BY <1>4, <2>4, <2>5, <2>6 DEF RoundTripNext
<1>5. QED
  BY RoundTripInvariant, <1>3, <1>4, PTL DEF RoundTripSpec,
     Native!ImplementsOrderedStream, Native!Restoring!StreamSpec

(* The same of the Python decoder: its totals are checked after the deque  *)
(* is empty, so that what it publishes has as many segments as the header. *)
THEOREM PythonRefinement == RoundTripSpec => Python!ImplementsOrderedStream
<1> DEFINE res == CASE pPc = "ok" -> "published"
                    [] pPc = "error" -> "failed"
                    [] OTHER -> "running"
<1>1. res = IF pPc = "ok" THEN "published" ELSE IF pPc = "error" THEN "failed" ELSE "running"
  OBVIOUS
<1>2. res' = IF pPc' = "ok" THEN "published"
             ELSE IF pPc' = "error" THEN "failed" ELSE "running"
  OBVIOUS
<1>3. RoundTripInit => Python!Restoring!StreamInit
  <2> SUFFICES ASSUME RoundTripInit PROVE Python!Restoring!StreamInit
    OBVIOUS
  <2>1. AllInv
    BY InitAllInv
  <2>2. pPc = "header" /\ pOutput = <<>>
    BY DEF RoundTripInit, PythonIdle, Python!Init
  <2>3. stream.count \in Nat
    BY <2>1, <2>2, PythonFacts DEF AllInv
  <2>4. QED
    BY <1>1, <2>2, <2>3 DEF Python!Restoring!StreamInit
<1>4. ASSUME AllInv, [RoundTripNext]_allVars
      PROVE  [Python!Restoring!StreamNext]_(Python!Restoring!streamVars)
  <2>1. SUFFICES \/ UNCHANGED <<stream.count, pOutput>> /\ res' = res
                 \/ /\ res = "running" /\ res' = "running" /\ Len(pOutput) < stream.count
                    /\ pOutput' = Append(pOutput, Len(pOutput) + 1) /\ stream.count' = stream.count
                 \/ /\ res = "running" /\ res' = "published" /\ Len(pOutput) = stream.count
                    /\ UNCHANGED <<stream.count, pOutput>>
                 \/ /\ res = "running" /\ res' = "failed"
                    /\ UNCHANGED <<stream.count, pOutput>>
    BY <1>4 DEF Python!Restoring!StreamNext, Python!Restoring!streamVars,
         Python!Restoring!Emit, Python!Restoring!PublishAll, Python!Restoring!GiveUp
  <2> HIDE DEF res
  <2>2. PythonInv
    BY <1>4 DEF AllInv
  <2>3. CASE UNCHANGED <<stream, pOutput, pPc>>
    BY <2>3, <1>1, <1>2
  <2>4. CASE Encode \/ ReadNatively \/ UNCHANGED allVars
    <3>1. UNCHANGED <<stream, pOutput, pPc>>
      BY <2>4, StreamKept DEF Encode, ReadNatively, allVars, pythonVars
    <3>2. QED
      BY <2>3, <3>1
  <2>5. CASE HandToPython \/ HandToNative
    <3>1. UNCHANGED <<pOutput, pPc>> /\ turn = "encode" /\ pc = "ok" /\ stream' = AsStream(dest)
      BY <2>5 DEF HandToPython, HandToNative, pythonVars
    <3>2. stream'.count = stream.count
      BY <1>4, <3>1, HandOver
    <3>3. QED
      BY <3>1, <3>2, <1>1, <1>2
  <2>6. CASE ReadInPython
    <3>1. Python!Next /\ UNCHANGED stream
      BY <2>6, StreamKept DEF ReadInPython
    <3>2. CASE Python!RestoreHere
      <4>1. /\ pPc = "restore" /\ pPc' = "read" /\ pOutput' = Append(pOutput, pNext)
        BY <3>2 DEF Python!RestoreHere
      <4>2. pNext = Len(pOutput) + 1 /\ pNext \in 1..stream.count /\ pNext \in Tasks
        BY <2>2, <4>1, SegmentHere
      <4>3. pOutput' = Append(pOutput, Len(pOutput) + 1) /\ Len(pOutput) < stream.count
        BY <2>2, <4>1, <4>2, PythonFacts
      <4>4. QED
        BY <3>1, <4>1, <4>3, <1>1, <1>2
    <3>3. CASE Python!WriteNext
      <4>1. /\ pPc \in {"flush", "drain"} /\ pPc' \in {"read", "drain"} /\ pPending # <<>>
            /\ pOutput' = Append(pOutput, Head(pPending))
        BY <3>3 DEF Python!WriteNext
      <4>2. PICK t : t = Head(pPending)
        OBVIOUS
      <4>3. t = Len(pOutput) + 1 /\ t \in 1..stream.count /\ t \in Tasks
        BY <2>2, <4>1, <4>2, OldestResult
      <4>4. pOutput' = Append(pOutput, Len(pOutput) + 1) /\ Len(pOutput) < stream.count
        BY <2>2, <4>1, <4>2, <4>3, PythonFacts
      <4>5. QED
        BY <3>1, <4>1, <4>4, <1>1, <1>2
    <3>4. CASE Python!Publish
      <4>1. pPc = "publish" /\ pPc' = "ok" /\ UNCHANGED pOutput
        BY <3>4 DEF Python!Publish
      <4>2. ~pRaised /\ pNext = stream.count /\ pPending = <<>>
        BY <2>2, <4>1 DEF PythonInv, Placed
      <4>3. Len(pOutput) + Len(pPending) + 0 = pNext
        BY <2>2, <4>1, <4>2 DEF PythonInv, Restored
      <4>4. Len(pOutput) = stream.count
        BY <2>2, <4>2, <4>3, PythonFacts
      <4>5. QED
        BY <3>1, <4>1, <4>4, <1>1, <1>2
    <3>5. CASE Python!Cleanup
      <4>1. pPc = "cleanup" /\ pPc' = "error" /\ UNCHANGED pOutput
        BY <3>5 DEF Python!Cleanup
      <4>2. QED
        BY <3>1, <4>1, <1>1, <1>2
    <3>6. CASE \/ Python!CheckHeader \/ Python!ReadNextSegment \/ Python!ReadRejects
               \/ Python!AllRead \/ Python!RestoreHereRejects \/ Python!WriteNextRejects
               \/ Python!Drained \/ Python!Join \/ Python!CheckTrailing
               \/ Python!CheckTotals \/ Python!Fails
      <4>1. /\ pPc \notin {"ok", "error"} /\ pPc' \notin {"ok", "error"} /\ UNCHANGED pOutput
        BY <3>6 DEF Python!CheckHeader, Python!ReadNextSegment, Python!ReadRejects,
             Python!AllRead, Python!RestoreHereRejects, Python!WriteNextRejects,
             Python!Drained, Python!Join, Python!CheckTrailing, Python!CheckTotals,
             Python!Fails, Python!Raise, Python!Keeps
      <4>2. QED
        BY <3>1, <4>1, <1>1, <1>2
    <3>7. CASE Python!TaskStarts \/ Python!TaskEnds \/ Python!TaskFails \/ Python!Ended
      <4>1. UNCHANGED <<pPc, pOutput>>
        BY <3>7 DEF Python!TaskStarts, Python!TaskEnds, Python!TaskFails, Python!Ended,
             Python!mainVars, Python!vars
      <4>2. QED
        BY <3>1, <4>1, <2>3
    <3>8. QED
      BY <3>1, <3>2, <3>3, <3>4, <3>5, <3>6, <3>7 DEF Python!Next, Python!Main
  <2>7. QED
    BY <1>4, <2>4, <2>5, <2>6 DEF RoundTripNext
<1>5. QED
  BY RoundTripInvariant, <1>3, <1>4, PTL DEF RoundTripSpec,
     Python!ImplementsOrderedStream, Python!Restoring!StreamSpec

(* Every behaviour of encoder and decoders is, seen from either decoder's  *)
(* output, one of OrderedStream: on every stream, sound or not, and in     *)
(* whatever order threads finish and results arrive, each segment written  *)
(* is the next one of the stream, and success is reported only with as     *)
(* many as its header counts.                                              *)
THEOREM ReadersRefinement == RoundTripSpec => ReadersImplementOrderedStream
  BY PythonRefinement, NativeRefinement DEF ReadersImplementOrderedStream

===============================================================================
