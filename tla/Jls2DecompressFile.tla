-------------------------- MODULE Jls2DecompressFile --------------------------
(***************************************************************************)
(* json_log_codec.decompress_file: one thread walks the encoded stream and *)
(* writes the restored segments, a pool restores them meanwhile; with one  *)
(* worker the walking thread restores each segment itself.                 *)
(*                                                                         *)
(* The stream is one of `Streams`, sound or not.  The digests are compared *)
(* only at the end, after everything has been written to the temporary     *)
(* file.                                                                   *)
(***************************************************************************)
EXTENDS Executor, Jls2Stream

CONSTANTS
  MaxWorkers,   \* MAX_DECOMPRESSION_SEGMENT_WORKERS
  Streams       \* the encoded streams the call may be given

VARIABLES
  stream,    \* the encoded stream
  pc,        \* where decompress_file is
  raised,    \* an exception is on its way out of the with-block
  fault,     \* some operation failed for a reason the stream does not give
  next,      \* segments read, their headers and frames digested
  declared,  \* declared_size
  pending,   \* the deque: segments submitted and not yet written
  output,    \* restored segments in the temporary file and in the digest
  restored,  \* restored_size
  temp,      \* the temporary file exists
  dest       \* what was published

mainVars == <<stream, pc, raised, fault, next, declared, pending, output,
              restored, temp, dest>>
vars == <<poolVars, mainVars>>

Nothing == [output |-> <<>>, present |-> FALSE]

Smaller(a, b) == IF a < b THEN a ELSE b
Larger(a, b) == IF a > b THEN a ELSE b

(* _decompression_worker_count: never more than there are segments. *)
Init ==
  /\ stream \in Streams
  /\ \E cpus \in 1..MaxWorkers : PoolInit(Smaller(Larger(1, stream.count), cpus))
  /\ pc = "header"
  /\ raised = FALSE /\ fault = FALSE
  /\ next = 0 /\ declared = 0 /\ restored = 0
  /\ pending = <<>> /\ output = <<>>
  /\ temp = TRUE
  /\ dest = Nothing

(* Nothing but the thread's own state changes. *)
Keeps == UNCHANGED <<poolVars, stream, fault, next, declared, pending, output,
                     restored, temp, dest>>

(* An exception in the with-block leaves through the pool's shutdown, one  *)
(* on the sequential path goes straight to the handler.                    *)
Raise == /\ pc' = IF workers = 1 THEN "cleanup" ELSE "join"
         /\ raised' = TRUE
------------------------------------------------------------------------------
CheckHeader ==
  /\ pc = "header"
  /\ pc' = IF HeaderAccepted(stream) /\ stream.withinLimit THEN "read" ELSE "cleanup"
  /\ UNCHANGED raised
  /\ Keeps

(* The checks of read_next_segment, in their order. *)
SegmentReadable ==
  /\ next < Len(stream.segments)
  /\ stream.segments[next + 1].size <= stream.original - declared

(* Mutant: the declared sizes are not summed up. *)
ReadsWithoutSum ==
  /\ pc = "read" /\ next < stream.count /\ SegmentReadable
  /\ next' = next + 1
  /\ \/ workers = 1 /\ pc' = "restore" /\ UNCHANGED <<pending, poolVars>>
     \/ /\ workers > 1
        /\ Submit(next + 1)
        /\ pending' = Append(pending, next + 1)
        /\ pc' = IF Len(pending') >= workers THEN "flush" ELSE "read"
  /\ UNCHANGED <<stream, raised, fault, declared, output, restored, temp, dest>>

(* read_next_segment, then submit the frame and write the oldest result if *)
(* the deque is full, or go on to restore it here.                         *)
ReadNextSegment ==
  /\ pc = "read" /\ next < stream.count /\ SegmentReadable
  /\ next' = next + 1
  /\ declared' = declared + stream.segments[next + 1].size
  /\ \/ workers = 1 /\ pc' = "restore" /\ UNCHANGED <<pending, poolVars>>
     \/ /\ workers > 1
        /\ Submit(next + 1)
        /\ pending' = Append(pending, next + 1)
        /\ pc' = IF Len(pending') >= workers THEN "flush" ELSE "read"
  /\ UNCHANGED <<stream, raised, fault, output, restored, temp, dest>>

ReadRejects ==
  /\ pc = "read" /\ next < stream.count /\ ~SegmentReadable
  /\ Raise
  /\ Keeps

(* The loop over range(segment_count) ends. *)
AllRead ==
  /\ pc = "read" /\ next = stream.count
  /\ pc' = IF workers = 1 THEN "trailing" ELSE "drain"
  /\ UNCHANGED raised
  /\ Keeps

(* Sequential path: decompress_frame and write_restored of the last        *)
(* segment read.                                                           *)
RestoreHere ==
  /\ pc = "restore"
  /\ FrameRestores(stream.segments[next])
  /\ stream.segments[next].original = stream.segments[next].size
  /\ output' = Append(output, next)
  /\ restored' = restored + stream.segments[next].original
  /\ pc' = "read"
  /\ UNCHANGED <<poolVars, stream, raised, fault, next, declared, pending, temp,
                 dest>>

RestoreHereRejects ==
  /\ pc = "restore"
  /\ \/ ~FrameRestores(stream.segments[next])
     \/ stream.segments[next].original # stream.segments[next].size
  /\ Raise
  /\ Keeps

(* write_next: wait for the oldest result; write_restored checks its size, *)
(* writes it and feeds the digest.                                         *)
WriteNext ==
  /\ pc \in {"flush", "drain"} /\ pending # <<>>
  /\ LET segment == Head(pending)
     IN  /\ task[segment] = "done"
         /\ stream.segments[segment].original = stream.segments[segment].size
         /\ output' = Append(output, segment)
         /\ restored' = restored + stream.segments[segment].original
  /\ pending' = Tail(pending)
  /\ pc' = IF pc = "flush" THEN "read" ELSE "drain"
  /\ UNCHANGED <<poolVars, stream, raised, fault, next, declared, temp, dest>>

(* future.result() re-raises, or the restored size is not the declared one. *)
WriteNextRejects ==
  /\ pc \in {"flush", "drain"} /\ pending # <<>>
  /\ LET segment == Head(pending)
     IN  \/ task[segment] = "failed"
         \/ /\ task[segment] = "done"
            /\ stream.segments[segment].original # stream.segments[segment].size
  /\ pending' = Tail(pending)
  /\ Raise
  /\ UNCHANGED <<poolVars, stream, fault, next, declared, output, restored,
                 temp, dest>>

Drained ==
  /\ pc = "drain" /\ pending = <<>>
  /\ pc' = "join"
  /\ UNCHANGED raised
  /\ Keeps

(* Leaving the executor's with-block, normally or with an exception. *)
Join ==
  /\ pc = "join" /\ AllFinished
  /\ pc' = IF raised THEN "cleanup" ELSE "trailing"
  /\ UNCHANGED raised
  /\ Keeps

(* if source.read(1): raise *)
CheckTrailing ==
  /\ pc = "trailing"
  /\ pc' = IF Trailing(stream) THEN "cleanup" ELSE "check"
  /\ UNCHANGED raised
  /\ Keeps

(* Mutant: only the sizes are compared, as if the digests of the frames    *)
(* were enough.                                                            *)
ChecksSizesOnly ==
  /\ pc = "check"
  /\ pc' = IF declared = stream.original /\ restored = stream.original
           THEN "publish" ELSE "cleanup"
  /\ UNCHANGED raised
  /\ Keeps

(* The sizes, the digest of the encoded bytes, the digest of the output. *)
CheckTotals ==
  /\ pc = "check"
  /\ pc' = IF /\ declared = stream.original
              /\ restored = stream.original
              /\ stream.encodedDigestOK
              /\ output = stream.source
           THEN "publish" ELSE "cleanup"
  /\ UNCHANGED raised
  /\ Keeps

Publish ==
  /\ pc = "publish"
  /\ dest' = [output |-> output, present |-> TRUE]
  /\ temp' = FALSE
  /\ pc' = "ok"
  /\ UNCHANGED <<poolVars, stream, raised, fault, next, declared, pending,
                 output, restored>>

(* Reading, writing or publishing fails, or memory runs out, at any point. *)
Fails ==
  /\ pc \in {"header", "read", "restore", "flush", "drain", "trailing",
             "publish"}
  /\ fault' = TRUE
  /\ raised' = TRUE
  /\ pc' = IF workers > 1 /\ pc \in {"read", "flush", "drain"}
           THEN "join" ELSE "cleanup"
  /\ UNCHANGED <<poolVars, stream, next, declared, pending, output, restored,
                 temp, dest>>

(* except BaseException: unlink, raise *)
Cleanup ==
  /\ pc = "cleanup"
  /\ temp' = FALSE
  /\ pc' = "error"
  /\ UNCHANGED <<poolVars, stream, raised, fault, next, declared, pending,
                 output, restored, dest>>

(* What the calling thread does if nothing fails. *)
Main ==
  \/ CheckHeader \/ ReadNextSegment \/ ReadRejects \/ AllRead
  \/ RestoreHere \/ RestoreHereRejects
  \/ WriteNext \/ WriteNextRejects \/ Drained \/ Join
  \/ CheckTrailing \/ CheckTotals \/ Publish \/ Cleanup

TaskStarts == StartTask /\ UNCHANGED mainVars

(* decompress_frame on a pool thread returns exactly if the frame restores. *)
TaskEnds ==
  /\ \E t \in Tasks :
       FinishTask(t, IF FrameRestores(stream.segments[t]) THEN "done" ELSE "failed")
  /\ UNCHANGED mainVars

(* A pool thread runs out of memory. *)
TaskFails ==
  /\ \E t \in Tasks : FinishTask(t, "failed")
  /\ fault' = TRUE
  /\ UNCHANGED <<stream, pc, raised, next, declared, pending, output, restored,
                 temp, dest>>

Ended == pc \in {"ok", "error"} /\ UNCHANGED vars

Next == Main \/ Fails \/ TaskStarts \/ TaskEnds \/ TaskFails \/ Ended

Spec == Init /\ [][Next]_vars

------------------------------------------------------------------------------
Phases == {"header", "read", "restore", "flush", "drain", "join", "trailing",
           "check", "publish", "cleanup", "ok", "error"}

TypeOK ==
  /\ PoolTypeOK /\ workers <= MaxWorkers
  /\ pc \in Phases
  /\ raised \in BOOLEAN /\ fault \in BOOLEAN /\ temp \in BOOLEAN
  /\ next \in 0..stream.count
  /\ declared \in Nat /\ restored \in Nat
  /\ pending \in Seq(Tasks) /\ output \in Seq(Tasks)

(* The reader in memory and the reader of files agree on every stream,     *)
(* however the pool is scheduled: the file call publishes exactly the      *)
(* streams decompress() returns for, and raises on the others, though it   *)
(* compares the digests last and decompress() compares one of them first.  *)
SameVerdictAsMemory ==
  /\ pc = "ok" => MemoryDecodes(stream)
  /\ pc = "error" /\ ~fault => ~MemoryDecodes(stream)

(* inspect() accepts every stream the file call publishes. *)
InspectAgrees == pc = "ok" => InspectAccepts(stream)

(* While segments are restored the declared sizes bound what can be        *)
(* written: the output never grows past the size in the stream header,     *)
(* which the caller's limit was compared with.                             *)
OutputWithinDeclared ==
  /\ restored <= declared
  /\ declared <= stream.original

(* The segmented-codec promise, on sound streams and on others: what is    *)
(* written next is always the next segment of the stream, and not left to  *)
(* the digest at the end to tell.                                          *)
Restoring == INSTANCE OrderedStream
  WITH total <- stream.count,
       emitted <- output,
       result <- CASE pc = "ok" -> "published"
                   [] pc = "error" -> "failed"
                   [] OTHER -> "running"
ImplementsOrderedStream == Restoring!StreamSpec
==============================================================================
