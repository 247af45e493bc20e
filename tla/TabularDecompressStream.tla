------------------------ MODULE TabularDecompressStream ------------------------
(***************************************************************************)
(* tabular_transform.decompress_stream: the header is inspected first, in  *)
(* an open of its own; then the file is opened again, one thread walks its *)
(* segments and writes restored ones, and a pool restores them meanwhile.  *)
(* Between the two opens another process may put another file in place.    *)
(***************************************************************************)
EXTENDS Executor, TabularStream

CONSTANTS
  MaxConcurrency,  \* MAX_STREAM_CONCURRENCY
  Streams          \* the encoded streams that may be found

VARIABLES
  info,      \* the stream whose header inspect_stream read
  file,      \* the stream that is opened afterwards
  pc,        \* where decompress_stream is
  raised,    \* an exception is on its way out of the with-block
  fault,     \* some operation failed for a reason the streams do not give
  next,      \* segments read; headers and frames are in the digests
  declared,  \* declared_segment_bytes
  pending,   \* the deque
  output,    \* restored segments in the temporary file
  restored,  \* restored_bytes
  temp,      \* the temporary file exists
  dest       \* what the destination holds

mainVars == <<info, file, pc, raised, fault, next, declared, pending, output,
              restored, temp, dest>>
vars == <<poolVars, mainVars>>

Old == [output |-> <<>>, new |-> FALSE]

Init ==
  /\ \E n \in 1..MaxConcurrency : PoolInit(n)
  /\ info \in Streams /\ file = info
  /\ pc = "inspect"
  /\ raised = FALSE /\ fault = FALSE
  /\ next = 0 /\ declared = 0 /\ restored = 0
  /\ pending = <<>> /\ output = <<>>
  /\ temp = FALSE
  /\ dest = Old

(* Nothing but the thread's own state changes. *)
Keeps == UNCHANGED <<poolVars, info, file, fault, next, declared, pending,
                     output, restored, temp, dest>>
------------------------------------------------------------------------------
(* inspect_stream and the caller's limit, before anything is created. *)
Inspect ==
  /\ pc = "inspect"
  /\ pc' = IF InspectAccepts(info) /\ info.withinLimit THEN "open" ELSE "error"
  /\ UNCHANGED raised
  /\ Keeps

(* Another process replaces the encoded file. *)
Replaced ==
  /\ pc = "open" /\ file = info
  /\ file' \in Streams \ {info}
  /\ UNCHANGED <<poolVars, info, pc, raised, fault, next, declared, pending,
                 output, restored, temp, dest>>

(* The temporary file, the second open and the header that is read again   *)
(* and not looked at.                                                      *)
Open ==
  /\ pc = "open"
  /\ temp' = TRUE
  /\ pc' = "read"
  /\ UNCHANGED <<poolVars, info, file, raised, fault, next, declared, pending,
                 output, restored, dest>>

(* Mutant: a segment prolonged by the whole slack is refused. *)
SlackExcluded ==
  /\ next < Len(info.segments) /\ next < Len(file.segments)
  /\ LET g == file.segments[next + 1]
     IN  /\ SizeAdmitted(g.size, next + 1, info.count, info.target, info.slack)
         /\ g.size < info.target + info.slack
         /\ declared + g.size <= info.original
         /\ g.bounded /\ g.known

(* The checks of one turn of the loop, in their order: the header is       *)
(* there, the size is admitted, the declared output is not exceeded, the   *)
(* frame is bounded, inside the declared payload and there, and names a    *)
(* backend.                                                                *)
SegmentReadable ==
  /\ next < Len(info.segments) /\ next < Len(file.segments)
  /\ LET g == file.segments[next + 1]
     IN  /\ SizeAdmitted(g.size, next + 1, info.count, info.target, info.slack)
         /\ declared + g.size <= info.original
         /\ g.bounded /\ g.known

(* Read and check the next segment, submit its frame, and go on to the     *)
(* oldest result when the deque is full.                                   *)
ReadSegment ==
  /\ pc = "read" /\ next < info.count /\ SegmentReadable
  /\ next' = next + 1
  /\ declared' = declared + file.segments[next + 1].size
  /\ Submit(next + 1)
  /\ pending' = Append(pending, next + 1)
  /\ pc' = IF Len(pending') >= workers THEN "flush" ELSE "read"
  /\ UNCHANGED <<info, file, raised, fault, output, restored, temp, dest>>

ReadRejects ==
  /\ pc = "read" /\ next < info.count /\ ~SegmentReadable
  /\ raised' = TRUE
  /\ pc' = "join"
  /\ Keeps

AllRead ==
  /\ pc = "read" /\ next = info.count
  /\ pc' = "drain"
  /\ UNCHANGED raised
  /\ Keeps

(* flush_restored_segment: wait for the oldest result, compare its size    *)
(* with the declared one and write it.                                     *)
FlushRestored ==
  /\ pc \in {"flush", "drain"} /\ pending # <<>>
  /\ LET segment == Head(pending)
     IN  /\ task[segment] = "done"
         /\ file.segments[segment].original = file.segments[segment].size
         /\ output' = Append(output, segment)
         /\ restored' = restored + file.segments[segment].size
  /\ pending' = Tail(pending)
  /\ pc' = IF pc = "flush" THEN "read" ELSE "drain"
  /\ UNCHANGED <<poolVars, info, file, raised, fault, next, declared, temp,
                 dest>>

(* Mutant: the caller waits for a result and never looks for an exception. *)
OnlySizeRejects ==
  /\ pc \in {"flush", "drain"} /\ pending # <<>>
  /\ task[Head(pending)] = "done"
  /\ file.segments[Head(pending)].original # file.segments[Head(pending)].size
  /\ pending' = Tail(pending)
  /\ raised' = TRUE
  /\ pc' = "join"
  /\ UNCHANGED <<poolVars, info, file, fault, next, declared, output, restored,
                 temp, dest>>

FlushRejects ==
  /\ pc \in {"flush", "drain"} /\ pending # <<>>
  /\ LET segment == Head(pending)
     IN  \/ task[segment] = "failed"
         \/ /\ task[segment] = "done"
            /\ file.segments[segment].original # file.segments[segment].size
  /\ pending' = Tail(pending)
  /\ raised' = TRUE
  /\ pc' = "join"
  /\ UNCHANGED <<poolVars, info, file, fault, next, declared, output, restored,
                 temp, dest>>

Drained ==
  /\ pc = "drain" /\ pending = <<>>
  /\ pc' = "join"
  /\ UNCHANGED raised
  /\ Keeps

Join ==
  /\ pc = "join" /\ AllFinished
  /\ pc' = IF raised THEN "cleanup" ELSE "check"
  /\ UNCHANGED raised
  /\ Keeps

(* Mutant: the digest of the payload is compared with the header of the    *)
(* file that was walked, as if it had been inspected.                      *)
ChecksOwnHeader ==
  /\ pc = "check"
  /\ pc' = IF /\ next = Len(info.segments) /\ ~info.partial
              /\ next = Len(file.segments) /\ ~file.partial
              /\ restored = info.original
              /\ SubSeq(file.segments, 1, next) = file.payload
              /\ file.manifestOK
           THEN "replace" ELSE "cleanup"
  /\ UNCHANGED raised
  /\ Keeps

(* The payload accounting, trailing bytes, the restored size and the two   *)
(* digests of the inspected header.                                        *)
CheckTotals ==
  /\ pc = "check"
  /\ pc' = IF /\ next = Len(info.segments) /\ ~info.partial
              /\ next = Len(file.segments) /\ ~file.partial
              /\ restored = info.original
              /\ SubSeq(file.segments, 1, next) = info.payload
              /\ info.manifestOK
           THEN "replace" ELSE "cleanup"
  /\ UNCHANGED raised
  /\ Keeps

Replace ==
  /\ pc = "replace"
  /\ dest' = [output |-> output, new |-> TRUE]
  /\ temp' = FALSE
  /\ pc' = "ok"
  /\ UNCHANGED <<poolVars, info, file, raised, fault, next, declared, pending,
                 output, restored>>

(* An operation fails: before there is a temporary file the call just      *)
(* raises, inside the with-block it waits for the pool.                    *)
Fails ==
  /\ pc \in {"inspect", "open", "read", "flush", "drain", "check", "replace"}
  /\ fault' = TRUE
  /\ raised' = TRUE
  /\ pc' = CASE pc \in {"inspect", "open"} -> "error"
             [] pc \in {"read", "flush", "drain"} -> "join"
             [] pc \in {"check", "replace"} -> "cleanup"
  /\ UNCHANGED <<poolVars, info, file, next, declared, pending, output,
                 restored, temp, dest>>

Cleanup ==
  /\ pc = "cleanup"
  /\ temp' = FALSE
  /\ pc' = "error"
  /\ UNCHANGED <<poolVars, info, file, raised, fault, next, declared, pending,
                 output, restored, dest>>

(* What the calling thread does if nothing fails. *)
Main ==
  \/ Inspect \/ Open \/ ReadSegment \/ ReadRejects \/ AllRead
  \/ FlushRestored \/ FlushRejects \/ Drained \/ Join
  \/ CheckTotals \/ Replace \/ Cleanup

TaskStarts == StartTask /\ UNCHANGED mainVars

(* decompress on a pool thread returns exactly if the frame restores; it   *)
(* refuses a frame larger than the declared size before restoring it.      *)
TaskEnds ==
  /\ \E t \in Tasks :
       LET g == file.segments[t]
       IN  FinishTask(t, IF g.original <= g.size /\ g.restores
                         THEN "done" ELSE "failed")
  /\ UNCHANGED mainVars

Ended == pc \in {"ok", "error"} /\ UNCHANGED vars

Next == Main \/ Fails \/ Replaced \/ TaskStarts \/ TaskEnds \/ Ended

Spec == Init /\ [][Next]_vars

------------------------------------------------------------------------------
TypeOK ==
  /\ PoolTypeOK /\ workers <= MaxConcurrency
  /\ pc \in {"inspect", "open", "read", "flush", "drain", "join", "check",
             "replace", "cleanup", "ok", "error"}
  /\ raised \in BOOLEAN /\ fault \in BOOLEAN /\ temp \in BOOLEAN
  /\ next \in 0..info.count
  /\ declared \in Nat /\ restored \in Nat
  /\ pending \in Seq(Tasks) /\ output \in Seq(Tasks)

(* What is published is what the inspected header, admitted by the         *)
(* caller's limit, promises: the segments its payload digest was fed, in   *)
(* order, even if the file was exchanged between the two opens or the      *)
(* segments of the inspected one were damaged.                             *)
PublishesInspected ==
  pc = "ok" =>
    /\ StreamDecodes([info EXCEPT !.segments = info.payload])
    /\ [i \in 1..Len(dest.output) |-> file.segments[dest.output[i]]] = info.payload

(* A stream that is left in place is refused only if it does not decode.   *)
RefusesOnlyBroken ==
  pc = "error" /\ ~fault /\ file = info => ~StreamDecodes(info)

(* The segmented-codec promise: the segments of whatever file is walked    *)
(* are written in their order there, as many as the inspected header has.  *)
Restoring == INSTANCE OrderedStream
  WITH total <- info.count,
       emitted <- output,
       result <- CASE pc = "ok" -> "published"
                   [] pc = "error" -> "failed"
                   [] OTHER -> "running"
ImplementsOrderedStream == Restoring!StreamSpec
================================================================================
