--------------------------- MODULE Jls2CompressFile ---------------------------
(***************************************************************************)
(* json_log_codec.compress_file: one thread reads the source segment by    *)
(* segment and writes frames, a pool compresses segments meanwhile.        *)
(*                                                                         *)
(* A segment is its number in the source and the frame compress_frame      *)
(* makes of it carries the same number; a digest is the sequence it was    *)
(* fed.  Publication is FileWriters' subject: here it succeeds or raises   *)
(* as one step.                                                            *)
(***************************************************************************)
EXTENDS Executor

CONSTANT MaxWorkers   \* MAX_COMPRESSION_SEGMENT_WORKERS

ASSUME CompressAssumption ==
  /\ MaxSegments \in Nat
  /\ MaxWorkers \in Nat \ {0}

VARIABLES
  total,         \* segments the source will turn out to have
  pc,            \* where compress_file is
  raised,        \* an exception is on its way out of the with-block
  digest,        \* segments fed to the digest of the source, in order
  pending,       \* the deque: segments submitted and not yet written
  frames,        \* segment headers and frames in the temporary file
  encodedDigest, \* frames fed to the digest of the encoded payload
  header,        \* the stream header at offset 0 of the temporary file
  temp,          \* the temporary file exists
  dest           \* what was published

mainVars == <<total, pc, raised, digest, pending, frames, encodedDigest,
              header, temp, dest>>
vars == <<poolVars, mainVars>>

Placeholder == [count |-> 0, source |-> <<>>, encoded |-> <<>>]
Nothing == [header |-> Placeholder, frames |-> <<>>, present |-> FALSE]

Init ==
  /\ \E n \in 1..MaxWorkers : PoolInit(n)
  /\ total \in 0..MaxSegments
  /\ pc = "read"
  /\ raised = FALSE
  /\ digest = <<>> /\ pending = <<>> /\ frames = <<>> /\ encodedDigest = <<>>
  /\ header = Placeholder
  /\ temp = TRUE
  /\ dest = Nothing
------------------------------------------------------------------------------
(* Mutant: one segment more than the pool has threads stays in the deque. *)
ReadsAhead ==
  /\ pc = "read"
  /\ Len(digest) < total
  /\ LET segment == Len(digest) + 1
     IN  /\ digest' = Append(digest, segment)
         /\ pending' = Append(pending, segment)
         /\ Submit(segment)
  /\ pc' = IF Len(pending') > workers THEN "flush" ELSE "read"
  /\ UNCHANGED <<total, raised, frames, encodedDigest, header, temp, dest>>

(* for segment in _file_segments(...): hash it, submit it, and write the   *)
(* oldest result before reading on when the deque is full.                 *)
ReadSegment ==
  /\ pc = "read"
  /\ Len(digest) < total
  /\ LET segment == Len(digest) + 1
     IN  /\ digest' = Append(digest, segment)
         /\ pending' = Append(pending, segment)
         /\ Submit(segment)
  /\ pc' = IF Len(pending') >= workers THEN "flush" ELSE "read"
  /\ UNCHANGED <<total, raised, frames, encodedDigest, header, temp, dest>>

(* Mutant: the deque is not drained at the end of the source. *)
EndsWithoutDraining ==
  /\ pc = "read"
  /\ Len(digest) = total
  /\ pc' = "join"
  /\ UNCHANGED <<poolVars, total, raised, digest, pending, frames,
                 encodedDigest, header, temp, dest>>

EndOfSource ==
  /\ pc = "read"
  /\ Len(digest) = total
  /\ pc' = "drain"
  /\ UNCHANGED <<poolVars, total, raised, digest, pending, frames,
                 encodedDigest, header, temp, dest>>

(* Reading the source raises. *)
ReadRaises ==
  /\ pc = "read"
  /\ pc' = "join"
  /\ raised' = TRUE
  /\ UNCHANGED <<poolVars, total, digest, pending, frames, encodedDigest,
                 header, temp, dest>>

(* Mutant: frames are written as their tasks finish. *)
WritesFinished ==
  /\ pc \in {"flush", "drain"} /\ pending # <<>>
  /\ \E i \in 1..Len(pending) :
       /\ task[pending[i]] = "done"
       /\ frames' = Append(frames, pending[i])
       /\ encodedDigest' = Append(encodedDigest, pending[i])
       /\ pending' = [n \in 1..(Len(pending) - 1) |->
                        pending[IF n < i THEN n ELSE n + 1]]
  /\ pc' = IF pc = "flush" THEN "read" ELSE "drain"
  /\ UNCHANGED <<poolVars, total, raised, digest, header, temp, dest>>

(* write_next: wait for the oldest result and append its frame. *)
WriteNext ==
  /\ pc \in {"flush", "drain"} /\ pending # <<>>
  /\ LET segment == Head(pending)
     IN  /\ task[segment] = "done"
         /\ frames' = Append(frames, segment)
         /\ encodedDigest' = Append(encodedDigest, segment)
  /\ pending' = Tail(pending)
  /\ pc' = IF pc = "flush" THEN "read" ELSE "drain"
  /\ UNCHANGED <<poolVars, total, raised, digest, header, temp, dest>>

(* future.result() re-raises what the task raised, or the write itself     *)
(* fails; the result is gone from the deque either way.                    *)
WriteNextRaises ==
  /\ pc \in {"flush", "drain"} /\ pending # <<>>
  /\ task[Head(pending)] \in {"done", "failed"}
  /\ pending' = Tail(pending)
  /\ pc' = "join"
  /\ raised' = TRUE
  /\ UNCHANGED <<poolVars, total, digest, frames, encodedDigest, header,
                 temp, dest>>

Drained ==
  /\ pc = "drain" /\ pending = <<>>
  /\ pc' = "join"
  /\ UNCHANGED <<poolVars, total, raised, digest, pending, frames,
                 encodedDigest, header, temp, dest>>

(* Leaving the executor's with-block, normally or with an exception. *)
Join ==
  /\ pc = "join"
  /\ AllFinished
  /\ pc' = IF raised THEN "cleanup" ELSE "patch"
  /\ UNCHANGED <<poolVars, total, raised, digest, pending, frames,
                 encodedDigest, header, temp, dest>>

(* Mutant: the real header is written without seeking back. *)
HeaderNotPatched ==
  /\ pc = "patch"
  /\ pc' = "publish"
  /\ UNCHANGED <<poolVars, total, raised, digest, pending, frames,
                 encodedDigest, header, temp, dest>>

(* seek(0) and the real header. *)
PatchHeader ==
  /\ pc = "patch"
  /\ header' = [count |-> Len(frames), source |-> digest,
                encoded |-> encodedDigest]
  /\ pc' = "publish"
  /\ UNCHANGED <<poolVars, total, raised, digest, pending, frames,
                 encodedDigest, temp, dest>>

(* _publish_temporary *)
Publish ==
  /\ pc = "publish"
  /\ dest' = [header |-> header, frames |-> frames, present |-> TRUE]
  /\ temp' = FALSE
  /\ pc' = "ok"
  /\ UNCHANGED <<poolVars, total, raised, digest, pending, frames,
                 encodedDigest, header>>

(* Patching or flushing the file, or publishing it, raises. *)
FinishRaises ==
  /\ pc \in {"patch", "publish"}
  /\ pc' = "cleanup"
  /\ UNCHANGED <<poolVars, total, raised, digest, pending, frames,
                 encodedDigest, header, temp, dest>>

(* except BaseException: unlink, raise *)
Cleanup ==
  /\ pc = "cleanup"
  /\ temp' = FALSE
  /\ pc' = "error"
  /\ UNCHANGED <<poolVars, total, raised, digest, pending, frames,
                 encodedDigest, header, dest>>

Main ==
  \/ ReadSegment \/ EndOfSource \/ ReadRaises \/ WriteNext \/ WriteNextRaises
  \/ Drained \/ Join \/ PatchHeader \/ Publish \/ FinishRaises \/ Cleanup

(* The pool's threads. *)
TaskStarts == StartTask /\ UNCHANGED mainVars
TaskEnds == /\ \E t \in Tasks, outcome \in {"done", "failed"} :
                 FinishTask(t, outcome)
            /\ UNCHANGED mainVars

Ended == pc \in {"ok", "error"} /\ UNCHANGED vars

Next == Main \/ TaskStarts \/ TaskEnds \/ Ended

Spec == Init /\ [][Next]_vars

------------------------------------------------------------------------------
Phases == {"read", "flush", "drain", "join", "patch", "publish", "cleanup",
           "ok", "error"}

TypeOK ==
  /\ PoolTypeOK /\ workers <= MaxWorkers
  /\ total \in 0..MaxSegments
  /\ pc \in Phases
  /\ raised \in BOOLEAN /\ temp \in BOOLEAN
  /\ digest \in Seq(Tasks) /\ pending \in Seq(Tasks)
  /\ frames \in Seq(Tasks) /\ encodedDigest \in Seq(Tasks)

(* The segments 1..n in their order. *)
FirstSegments(n) == [i \in 1..n |-> i]

(* Whatever order the pool finishes in, the frames in the temporary file   *)
(* are those of the first segments, and what is in the file and in the     *)
(* deque together is exactly what was hashed: no segment is lost, written  *)
(* twice or written early.                                                 *)
NothingLost ==
  /\ frames = FirstSegments(Len(frames))
  /\ ~raised => frames \o pending = digest

(* A published stream decodes: its header counts and digests exactly the   *)
(* frames that follow it, and they are all the segments of the source; the *)
(* placeholder header is never published.                                  *)
PublishedDecodes ==
  dest.present =>
    /\ dest.frames = FirstSegments(total)
    /\ dest.header = [count |-> total, source |-> FirstSegments(total),
                      encoded |-> dest.frames]

(* Memory is bounded by the pool and not by the source: at most `workers`  *)
(* segments are queued, in work or waiting to be written.                  *)
BoundedPending ==
  /\ Len(pending) <= workers
  /\ ~raised =>
       Cardinality({t \in Tasks : task[t] \in {"queued", "running"}})
         <= Len(pending)

(* No pool thread is still at work on this call's segments once the        *)
(* temporary file is finished, removed or published.                       *)
NoTaskOutlivesTheCall ==
  pc \in {"patch", "publish", "cleanup", "ok", "error"} => AllFinished

(* A call that raises publishes nothing and leaves no temporary file. *)
FailureLeavesNothing == pc = "error" => ~temp /\ ~dest.present

(* The segmented-codec promise, of the frames in the temporary file: the   *)
(* next one to go in is always that of the next segment of the source,     *)
(* whatever order the pool finishes in.                                    *)
Stream == INSTANCE OrderedStream
  WITH emitted <- frames,
       result <- CASE pc = "ok" -> "published"
                   [] pc = "error" -> "failed"
                   [] OTHER -> "running"
ImplementsOrderedStream == Stream!StreamSpec
==============================================================================
