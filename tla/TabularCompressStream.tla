------------------------- MODULE TabularCompressStream -------------------------
(***************************************************************************)
(* tabular_transform.compress_stream: the caller's thread reads chunks and *)
(* writes frames, a pool of `concurrency` threads compresses chunks, and   *)
(* the source is a file somebody else may change meanwhile.                *)
(*                                                                         *)
(* A chunk is its number; its size is what the reads returned.  Where the  *)
(* records end is not modelled: a chunk of the full target is prolonged by *)
(* any number of bytes up to the slack.                                    *)
(***************************************************************************)
EXTENDS Executor, TabularStream

CONSTANTS
  MaxConcurrency,  \* MAX_STREAM_CONCURRENCY
  Target, Slack,   \* segment_size and record_slack of the call
  MaxSize,         \* bound: bytes of the source
  MaxChanges       \* bound: changes to the source while it is compressed

ASSUME CompressStreamAssumption ==
  /\ MaxConcurrency \in Nat \ {0}
  /\ Target \in Nat \ {0} /\ Slack \in Nat
  /\ MaxSize \in Nat /\ MaxChanges \in Nat
  /\ MaxSegments \in Nat /\ MaxSize <= MaxSegments

VARIABLES
  size,      \* bytes the source has now
  changes,   \* how often it changed since it was measured
  kinds,     \* and how: it "grew" or "shrank"
  measured,  \* declared_source_size
  position,  \* where the next read starts
  sizes,     \* sizes of the chunks read
  pc,        \* where compress_stream is
  raised,    \* an exception is on its way out
  pending,   \* the deque of the generator
  frames,    \* chunks whose frames are in the temporary file and the digests
  header,    \* the stream header at offset 0
  temp,      \* the temporary file exists
  dest       \* the destination

mainVars == <<size, changes, kinds, measured, position, sizes, pc, raised,
              pending, frames, header, temp, dest>>
vars == <<poolVars, mainVars>>

Placeholder == [original |-> 0, payload |-> <<>>, count |-> 0]
Old == [header |-> Placeholder, frames |-> <<>>, sizes |-> <<>>, new |-> FALSE]

Init ==
  /\ \E n \in 1..MaxConcurrency : PoolInit(n)
  /\ size \in 0..MaxSize
  /\ changes = 0 /\ kinds = {} /\ measured = 0 /\ position = 0
  /\ sizes = <<>> /\ pending = <<>> /\ frames = <<>>
  /\ pc = "stat"
  /\ raised = FALSE
  /\ header = Placeholder
  /\ temp = FALSE
  /\ dest = Old

Smaller(a, b) == IF a < b THEN a ELSE b
------------------------------------------------------------------------------
(* source_path.stat(), and the temporary file with a blank header. *)
Stat ==
  /\ pc = "stat"
  /\ measured' = size
  /\ temp' = TRUE
  /\ pc' = "read"
  /\ UNCHANGED <<poolVars, size, changes, kinds, position, sizes, raised,
                 pending, frames, header, dest>>

(* What one turn of _record_aligned_chunks can return: up to the target,   *)
(* and a tail only behind a full target.                                   *)
ChunkSizes ==
  LET head == Smaller(Target, size - position)
  IN  {head} \cup
      IF head = Target
      THEN {head + tail : tail \in 0..Smaller(Slack, size - position - head)}
      ELSE {}

(* Mutant: a chunk more than the pool has threads stays in flight. *)
ReadsAhead ==
  /\ pc = "read" /\ position < size
  /\ \E n \in ChunkSizes :
       /\ position' = position + n
       /\ sizes' = Append(sizes, n)
  /\ Submit(Len(sizes'))
  /\ pending' = Append(pending, Len(sizes'))
  /\ pc' = IF Len(pending') > workers THEN "flush" ELSE "read"
  /\ UNCHANGED <<size, changes, kinds, measured, raised, frames, header, temp,
                 dest>>

(* Read a chunk, submit it, and go on to the oldest frame when the deque   *)
(* is full.                                                                *)
ReadChunk ==
  /\ pc = "read" /\ position < size
  /\ \E n \in ChunkSizes :
       /\ position' = position + n
       /\ sizes' = Append(sizes, n)
  /\ Submit(Len(sizes'))
  /\ pending' = Append(pending, Len(sizes'))
  /\ pc' = IF Len(pending') >= workers THEN "flush" ELSE "read"
  /\ UNCHANGED <<size, changes, kinds, measured, raised, frames, header, temp,
                 dest>>

(* An empty read ends the source, wherever it ends now. *)
EndOfSource ==
  /\ pc = "read" /\ position >= size
  /\ pc' = "drain"
  /\ UNCHANGED <<poolVars, size, changes, kinds, measured, position, sizes,
                 raised, pending, frames, header, temp, dest>>

(* The generator yields the oldest frame and the loop writes it and feeds  *)
(* both digests.                                                           *)
WriteNext ==
  /\ pc \in {"flush", "drain"} /\ pending # <<>>
  /\ task[Head(pending)] = "done"
  /\ frames' = Append(frames, Head(pending))
  /\ pending' = Tail(pending)
  /\ pc' = IF pc = "flush" THEN "read" ELSE "drain"
  /\ UNCHANGED <<poolVars, size, changes, kinds, measured, position, sizes,
                 raised, header, temp, dest>>

(* The task raised, or the write fails. *)
WriteNextRaises ==
  /\ pc \in {"flush", "drain"} /\ pending # <<>>
  /\ task[Head(pending)] \in {"done", "failed"}
  /\ pending' = Tail(pending)
  /\ raised' = TRUE
  /\ pc' = "join"
  /\ UNCHANGED <<poolVars, size, changes, kinds, measured, position, sizes,
                 frames, header, temp, dest>>

ReadRaises ==
  /\ pc = "read"
  /\ raised' = TRUE
  /\ pc' = "join"
  /\ UNCHANGED <<poolVars, size, changes, kinds, measured, position, sizes,
                 pending, frames, header, temp, dest>>

Drained ==
  /\ pc = "drain" /\ pending = <<>>
  /\ pc' = "join"
  /\ UNCHANGED <<poolVars, size, changes, kinds, measured, position, sizes,
                 raised, pending, frames, header, temp, dest>>

(* The generator's with-block ends: exhausted, or closed when the loop is  *)
(* left by an exception, before the handler runs.                          *)
Join ==
  /\ pc = "join" /\ AllFinished
  /\ pc' = IF raised THEN "cleanup" ELSE "check"
  /\ UNCHANGED <<poolVars, size, changes, kinds, measured, position, sizes,
                 raised, pending, frames, header, temp, dest>>

(* Mutant: the check is left out. *)
SizeUnchecked ==
  /\ pc = "check"
  /\ pc' = "patch"
  /\ UNCHANGED <<poolVars, size, changes, kinds, measured, position, sizes,
                 raised, pending, frames, header, temp, dest>>

(* if source_bytes != declared_source_size *)
CheckSize ==
  /\ pc = "check"
  /\ pc' = IF TotalOf(sizes, Len(sizes)) = measured THEN "patch" ELSE "cleanup"
  /\ UNCHANGED <<poolVars, size, changes, kinds, measured, position, sizes,
                 raised, pending, frames, header, temp, dest>>

(* The real header. *)
PatchHeader ==
  /\ pc = "patch"
  /\ header' = [original |-> TotalOf(sizes, Len(sizes)), payload |-> frames,
                count |-> Len(frames)]
  /\ pc' = "replace"
  /\ UNCHANGED <<poolVars, size, changes, kinds, measured, position, sizes,
                 raised, pending, frames, temp, dest>>

Replace ==
  /\ pc = "replace"
  /\ dest' = [header |-> header, frames |-> frames, sizes |-> sizes, new |-> TRUE]
  /\ temp' = FALSE
  /\ pc' = "ok"
  /\ UNCHANGED <<poolVars, size, changes, kinds, measured, position, sizes,
                 raised, pending, frames, header>>

FinishRaises ==
  /\ pc \in {"patch", "replace"}
  /\ pc' = "cleanup"
  /\ UNCHANGED <<poolVars, size, changes, kinds, measured, position, sizes,
                 raised, pending, frames, header, temp, dest>>

Cleanup ==
  /\ pc = "cleanup"
  /\ temp' = FALSE
  /\ pc' = "error"
  /\ UNCHANGED <<poolVars, size, changes, kinds, measured, position, sizes,
                 raised, pending, frames, header, dest>>

Main ==
  \/ Stat \/ ReadChunk \/ EndOfSource \/ WriteNext \/ WriteNextRaises
  \/ ReadRaises \/ Drained \/ Join \/ CheckSize \/ PatchHeader \/ Replace
  \/ FinishRaises \/ Cleanup

TaskStarts == StartTask /\ UNCHANGED mainVars
TaskEnds == /\ \E t \in Tasks, outcome \in {"done", "failed"} :
                 FinishTask(t, outcome)
            /\ UNCHANGED mainVars

(* Another process truncates the source or appends to it. *)
SourceChanges ==
  /\ pc \notin {"stat", "ok", "error"}
  /\ changes < MaxChanges
  /\ changes' = changes + 1
  /\ size' \in 0..MaxSize \ {size}
  /\ kinds' = kinds \cup {IF size' > size THEN "grew" ELSE "shrank"}
  /\ UNCHANGED <<poolVars, measured, position, sizes, pc, raised, pending,
                 frames, header, temp, dest>>

Ended == pc \in {"ok", "error"} /\ UNCHANGED vars

Next == Main \/ TaskStarts \/ TaskEnds \/ SourceChanges \/ Ended

Spec == Init /\ [][Next]_vars

------------------------------------------------------------------------------
TypeOK ==
  /\ PoolTypeOK /\ workers <= MaxConcurrency
  /\ size \in 0..MaxSize /\ changes \in 0..MaxChanges
  /\ kinds \subseteq {"grew", "shrank"} /\ measured \in 0..MaxSize
  /\ position \in 0..MaxSize
  /\ sizes \in Seq(1..(Target + Slack))
  /\ pc \in {"stat", "read", "flush", "drain", "join", "check", "patch",
             "replace", "cleanup", "ok", "error"}
  /\ raised \in BOOLEAN /\ temp \in BOOLEAN
  /\ pending \in Seq(Tasks) /\ frames \in Seq(Tasks)

(* The stream the destination holds, as a reader finds it. *)
Published ==
  LET segments == [i \in 1..Len(dest.frames) |-> GoodSegment(dest.sizes[dest.frames[i]])]
  IN  [wellFormed |-> TRUE, withinLimit |-> TRUE, target |-> Target,
       slack |-> Slack, original |-> dest.header.original,
       count |-> dest.header.count, payloadSizeOK |-> TRUE,
       payload |-> [i \in 1..Len(dest.header.payload) |->
                      GoodSegment(dest.sizes[dest.header.payload[i]])],
       manifestOK |-> TRUE, segments |-> segments, partial |-> FALSE]

(* A source that changed while being compressed is refused if the change   *)
(* matters: every published stream decodes.                                *)
EveryPublishedDecodes == dest.new => StreamDecodes(Published)

(* At most `concurrency` chunks are in flight: read and not yet written.   *)
InFlight == Len(sizes) - Len(frames)
BoundedInFlight == ~raised => InFlight <= workers

==============================================================================
