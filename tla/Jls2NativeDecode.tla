--------------------------- MODULE Jls2NativeDecode ---------------------------
(***************************************************************************)
(* jls2::decode_to_writer, the Rust decoder of JLS2 streams, as the binary *)
(* clab-jls2 calls it: the whole stream is in memory, its segment table is *)
(* walked first, then the segments are restored batch by batch.  Inside a  *)
(* batch one scoped thread per segment sends its result over a channel;    *)
(* the calling thread puts results in a map and writes what is next.       *)
(*                                                                         *)
(* A panic of a thread is an external fault.  Built with unwinding (the    *)
(* dev profile) it drops the thread's sender and makes thread::scope panic *)
(* once every thread of the scope is joined; with panic = "abort" (the     *)
(* release profile) it ends the process on the spot.                       *)
(***************************************************************************)
EXTENDS Jls2Stream, FiniteSets

CONSTANTS
  MaxSegments,  \* bound: segments of a stream
  MaxWorkers,   \* MAX_SEGMENT_WORKERS
  Streams       \* the encoded streams the call may be given

VARIABLES
  stream,     \* the encoded stream
  unwinds,    \* built with unwinding
  workers,    \* segment_workers
  pc,         \* where decode_to_writer is
  fault,      \* the writer failed
  first,      \* segments of the batches before this one
  thread,     \* thread[i]: the scoped thread of segment i
  channel,    \* results sent and not yet received, as segment numbers
  pending,    \* the BTreeMap: segments received and not yet written
  output      \* segments written, the digest is fed the same

vars == <<stream, unwinds, workers, pc, fault, first, thread, channel, pending,
          output>>

Segments == 1..MaxSegments

Smaller(a, b) == IF a < b THEN a ELSE b

Larger(a, b) == IF a > b THEN a ELSE b

(* decode_frame returns the bytes: unlike decompress_frame it wants the    *)
(* frame's size to be the declared one and compares the nested digests.    *)
FrameDecodes(g) ==
  /\ g.intact /\ g.original = g.size /\ g.mode # "unknown" /\ g.decodes
  /\ g.nested

(* One chunk of segments.chunks(segment_workers). *)
Batch == (first + 1)..Smaller(first + workers, stream.count)

(* write_cursor, as the number of the segment it stands for. *)
Cursor == Len(output) + 1

Live == {i \in Segments : thread[i] = "running"}

Init ==
  /\ stream \in Streams
  /\ unwinds \in BOOLEAN
  /\ \E available \in 1..MaxWorkers :
       workers = Larger(1, Smaller(stream.count, available))
  /\ pc = "table"
  /\ fault = FALSE
  /\ first = 0
  /\ thread = [i \in Segments |-> "none"]
  /\ channel = <<>> /\ pending = {} /\ output = <<>>
------------------------------------------------------------------------------
(* The header, the encoded digest and the segment table.  Every segment is *)
(* compared with what the declared sizes before it leave of the output.    *)
CheckTable ==
  /\ pc = "table"
  /\ pc' = IF /\ HeaderAccepted(stream) /\ stream.withinLimit
              /\ stream.encodedDigestOK
              /\ WalkAccepted(stream)
           THEN "spawn" ELSE "error"
  /\ UNCHANGED <<stream, unwinds, workers, fault, first, thread, channel,
                 pending, output>>

(* Enter thread::scope and spawn a thread per segment of the batch, or     *)
(* leave the loop over the batches.                                        *)
Spawn ==
  /\ pc = "spawn"
  /\ first < stream.count
  /\ thread' = [i \in Segments |-> IF i \in Batch THEN "running" ELSE thread[i]]
  /\ pc' = "receive"
  /\ UNCHANGED <<stream, unwinds, workers, fault, first, channel, pending, output>>

AllBatches ==
  /\ pc = "spawn"
  /\ first >= stream.count
  /\ pc' = "digest"
  /\ UNCHANGED <<stream, unwinds, workers, fault, first, thread, channel,
                 pending, output>>

(* A thread decodes its frame, sends the result and ends.  The receiver    *)
(* may be gone: the send is then ignored.                                  *)
Send(i) ==
  /\ thread[i] = "running"
  /\ thread' = [thread EXCEPT ![i] = "sent"]
  /\ channel' = IF pc \in {"receive", "write"} THEN Append(channel, i) ELSE channel
  /\ UNCHANGED <<stream, unwinds, workers, pc, fault, first, pending, output>>

(* receiver.recv() and pending.insert(position, restored?) *)
Receive ==
  /\ pc = "receive" /\ channel # <<>>
  /\ FrameDecodes(stream.segments[Head(channel)])
  /\ channel' = Tail(channel)
  /\ pending' = pending \cup {Head(channel)}
  /\ pc' = "write"
  /\ UNCHANGED <<stream, unwinds, workers, fault, first, thread, output>>

(* restored? returns from the closure: the receiver and the map are        *)
(* dropped, the scope still joins its threads.                             *)
ReceiveError ==
  /\ pc = "receive" /\ channel # <<>>
  /\ ~FrameDecodes(stream.segments[Head(channel)])
  /\ channel' = <<>> /\ pending' = {}
  /\ pc' = "scope error"
  /\ UNCHANGED <<stream, unwinds, workers, fault, first, thread, output>>

(* Mutant: try_recv in a loop that takes a closed channel for an empty one. *)
PollsAgain ==
  /\ pc = "receive" /\ channel = <<>>
  /\ UNCHANGED vars

(* recv() fails: every sender is gone and the channel is empty. *)
ReceiveDisconnected ==
  /\ pc = "receive" /\ channel = <<>>
  /\ \A i \in Batch : thread[i] # "running"
  /\ pending' = {}
  /\ pc' = "scope error"
  /\ UNCHANGED <<stream, unwinds, workers, fault, first, thread, channel, output>>

(* Mutant: whatever has arrived is written. *)
WritesArrivals ==
  /\ pc = "write" /\ pending # {}
  /\ \E i \in pending :
       /\ pending' = pending \ {i}
       /\ output' = Append(output, i)
  /\ UNCHANGED <<stream, unwinds, workers, pc, fault, first, thread, channel>>

(* while let Some(bytes) = pending.remove(&write_cursor) *)
WriteNext ==
  /\ pc = "write" /\ Cursor \in pending
  /\ pending' = pending \ {Cursor}
  /\ output' = Append(output, Cursor)
  /\ UNCHANGED <<stream, unwinds, workers, pc, fault, first, thread, channel>>

(* write_all fails and returns from the closure. *)
WriteFails ==
  /\ pc = "write" /\ Cursor \in pending
  /\ fault' = TRUE
  /\ channel' = <<>> /\ pending' = {}
  /\ pc' = "scope error"
  /\ UNCHANGED <<stream, unwinds, workers, first, thread, output>>

(* The inner loop ends; while write_cursor < batch.len() *)
NothingToWrite ==
  /\ pc = "write" /\ Cursor \notin pending
  /\ pc' = IF Cursor \in Batch THEN "receive" ELSE "scope"
  /\ UNCHANGED <<stream, unwinds, workers, fault, first, thread, channel,
                 pending, output>>

(* Mutant: a panicked thread counts as one that ended. *)
PanicsForgotten ==
  /\ pc \in {"scope", "scope error"}
  /\ Live = {}
  /\ first' = IF pc = "scope" THEN first + workers ELSE first
  /\ pc' = IF pc = "scope error" THEN "error" ELSE "spawn"
  /\ UNCHANGED <<stream, unwinds, workers, fault, thread, channel, pending, output>>

(* The end of thread::scope joins every thread and panics if one of them   *)
(* panicked; otherwise `?` passes the closure's result on.                 *)
LeaveScope ==
  /\ pc \in {"scope", "scope error"}
  /\ Live = {}
  /\ first' = IF pc = "scope" THEN first + workers ELSE first
  /\ pc' = IF \E i \in Segments : thread[i] = "panicked" THEN "panicked"
           ELSE IF pc = "scope error" THEN "error" ELSE "spawn"
  /\ UNCHANGED <<stream, unwinds, workers, fault, thread, channel, pending, output>>

(* A panic in decode_frame. *)
Panic(i) ==
  /\ thread[i] = "running"
  /\ thread' = [thread EXCEPT ![i] = "panicked"]
  /\ pc' = IF unwinds THEN pc ELSE "aborted"
  /\ UNCHANGED <<stream, unwinds, workers, fault, first, channel, pending, output>>

(* The restored size and the digest of the output. *)
CheckDigest ==
  /\ pc = "digest"
  /\ pc' = IF output = stream.source THEN "ok" ELSE "error"
  /\ UNCHANGED <<stream, unwinds, workers, fault, first, thread, channel,
                 pending, output>>

(* The calling thread. *)
Main ==
  \/ CheckTable \/ Spawn \/ AllBatches \/ Receive \/ ReceiveError
  \/ ReceiveDisconnected \/ WriteNext \/ NothingToWrite \/ LeaveScope
  \/ CheckDigest

Stopped == pc \in {"ok", "error", "panicked", "aborted"}
Ended == Stopped /\ UNCHANGED vars

(* An aborted process takes no step. *)
Threads == pc # "aborted" /\ \E i \in Segments : Send(i)
Panics == pc # "aborted" /\ \E i \in Segments : Panic(i)

Next == Main \/ Threads \/ WriteFails \/ Panics \/ Ended

Spec == Init /\ [][Next]_vars

------------------------------------------------------------------------------
TypeOK ==
  /\ pc \in {"table", "spawn", "receive", "write", "scope", "scope error",
             "digest", "ok", "error", "panicked", "aborted"}
  /\ unwinds \in BOOLEAN /\ fault \in BOOLEAN
  /\ workers \in 1..MaxWorkers
  /\ first \in Nat
  /\ thread \in [Segments -> {"none", "running", "sent", "panicked"}]
  /\ channel \in Seq(Segments)
  /\ pending \subseteq Segments
  /\ output \in Seq(Segments)

(* The restored segments held at once - being decoded, in the channel, in  *)
(* the map - are bounded by the batch and not by the stream.               *)
BoundedResults ==
  Cardinality(Live) + Len(channel) + Cardinality(pending) <= workers

(* The verdict does not depend on the order the threads finish in, and it  *)
(* is decompress()'s but for the nested digests, which only the Rust       *)
(* decoder compares.                                                       *)
NativeVerdict ==
  LET accepted == /\ MemoryDecodes(stream)
                  /\ \A i \in 1..stream.count : stream.segments[i].nested
  IN  /\ pc = "ok" => accepted
      /\ pc = "error" /\ ~fault => ~accepted

(* A panic is never turned into a result: whoever sees Ok or Err knows no  *)
(* thread panicked.                                                        *)
PanicIsNoVerdict ==
  pc \in {"ok", "error"} => \A i \in Segments : thread[i] # "panicked"

(* The segmented-codec promise: threads finish in any order, the segment   *)
(* that is written next is always the next one of the stream.  Only a      *)
(* process that is killed stays without an answer.                         *)
Restoring == INSTANCE OrderedStream
  WITH total <- stream.count,
       emitted <- output,
       result <- CASE pc = "ok" -> "published"
                   [] pc \in {"error", "panicked"} -> "failed"
                   [] OTHER -> "running"
ImplementsOrderedStream == Restoring!StreamSpec
==============================================================================
