----------------------------- MODULE TabularStream -----------------------------
(***************************************************************************)
(* The segmented TBL1 stream of tabular_transform.py: what its outer       *)
(* header and its segment headers say, which of them inspect_stream and    *)
(* decompress_stream admit, and so which streams decode.                   *)
(*                                                                         *)
(* A segment is its 16-byte header and its TBL1 frame:                     *)
(*   size      the restored size the segment header declares               *)
(*   bounded   frame_size lies between the frame header and the largest    *)
(*             frame the encoder's fallback can produce                    *)
(*   known     frame_backend accepts the frame's magic and backend         *)
(*   original  the restored size the frame declares                        *)
(*   restores  the payload restores bytes of that size and digest          *)
(* A digest is what it was fed; sizes count in units of bytes.             *)
(***************************************************************************)
EXTENDS Naturals, Sequences

SegmentType ==
  [size : Nat, bounded : BOOLEAN, known : BOOLEAN, original : Nat,
   restores : BOOLEAN]

StreamType ==
  [wellFormed : BOOLEAN,    \* length, magic, version, flags, configuration
   withinLimit : BOOLEAN,   \* original <= max_output_size of the call
   target : Nat \ {0},      \* segment_size
   slack : Nat,             \* record_slack
   original : Nat,          \* restored size the stream header declares
   count : Nat,             \* segments the stream header declares
   payload : Seq(SegmentType),  \* what the payload SHA-256 was fed
   payloadSizeOK : BOOLEAN, \* payload_size is the rest of the file
   manifestOK : BOOLEAN,    \* the source manifest is that of the payload
   segments : Seq(SegmentType), \* the whole segments after the header
   partial : BOOLEAN]       \* bytes of an incomplete segment follow them

(* A segment as compress_stream writes it. *)
GoodSegment(n) ==
  [size |-> n, bounded |-> TRUE, known |-> TRUE, original |-> n,
   restores |-> TRUE]

(* The bytes of the first n of these sizes. *)
TotalOf(sizes, n) ==
  LET sum[i \in Nat] == IF i = 0 THEN 0 ELSE sum[i - 1] + sizes[i]
  IN  sum[n]

SegmentSizes(s) == [i \in 1..Len(s.segments) |-> s.segments[i].size]

(* inspect_stream returns. *)
InspectAccepts(s) ==
  /\ s.wellFormed
  /\ s.payloadSizeOK
  /\ (s.original = 0) <=> (s.count = 0)
  /\ s.count <= (s.original + s.target - 1) \div s.target

(* The bounds decompress_stream puts on the size of the i-th of `count`    *)
(* segments: a record finished within the slack, and nothing smaller than  *)
(* the target but at the end.                                              *)
SizeAdmitted(size, i, count, target, slack) ==
  /\ 1 <= size /\ size <= target + slack
  /\ i < count => size >= target

(* decompress(frame, size) returns `size` bytes. *)
FrameRestores(g) == g.original = g.size /\ g.restores

(* decompress_stream returns. *)
StreamDecodes(s) ==
  /\ InspectAccepts(s) /\ s.withinLimit
  /\ s.count = Len(s.segments) /\ ~s.partial
  /\ \A i \in 1..s.count :
       /\ SizeAdmitted(s.segments[i].size, i, s.count, s.target, s.slack)
       /\ s.segments[i].bounded /\ s.segments[i].known
       /\ FrameRestores(s.segments[i])
  /\ TotalOf(SegmentSizes(s), s.count) = s.original
  /\ s.payload = s.segments
  /\ s.manifestOK
================================================================================
