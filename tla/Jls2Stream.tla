------------------------------ MODULE Jls2Stream ------------------------------
(***************************************************************************)
(* The encoded JLS2 stream as its readers see it, and what the two readers *)
(* that need no thread make of it: json_log_codec.decompress (the whole    *)
(* stream in memory) and json_log_codec.inspect (nothing is restored).     *)
(*                                                                         *)
(* A segment is what its 16-byte header and its JLF2 frame say:            *)
(*   size      the restored size the segment header declares               *)
(*   intact    magic, version, reserved bits, payload size and payload     *)
(*             digest of the frame are as they must be                     *)
(*   mode      the compression mode the frame names                        *)
(*   original  the restored size the frame declares                        *)
(*   decodes   the payload restores exactly `original` bytes; otherwise    *)
(*             the mode's decoder raises or its output has another length  *)
(*   nested    the restored digests in the frame and in the columnar       *)
(*             payload are those of the restored bytes                     *)
(* A digest is the sequence that was fed to it, segments by their number.  *)
(***************************************************************************)
EXTENDS Naturals, Sequences

Modes == {"direct", "columnar", "unknown"}

SegmentType(sizes) ==
  [size : sizes, intact : BOOLEAN, mode : Modes, original : sizes,
   decodes : BOOLEAN, nested : BOOLEAN]

StreamType ==
  [wellFormed : BOOLEAN,      \* length, magic, version, flags, reserved bits
   withinLimit : BOOLEAN,     \* original <= max_output_size of the call
   original : Nat,            \* restored size the stream header declares
   count : Nat,               \* segments the stream header declares
   segments : Seq(SegmentType(Nat)),  \* the whole segments that follow
   partial : BOOLEAN,         \* bytes of an incomplete segment follow them
   encodedDigestOK : BOOLEAN, \* encoded SHA-256 is that of the bytes read
   source : Seq(Nat)]         \* what the original SHA-256 was fed

(* A segment as both encoders write it. *)
GoodSegment(n) ==
  [size |-> n, intact |-> TRUE, mode |-> "direct", original |-> n,
   decodes |-> TRUE, nested |-> TRUE]

(* The segments 1..n in their order. *)
FirstSegments(n) == [i \in 1..n |-> i]

(* Restored bytes the first n segment headers of s declare. *)
Declared(s, n) ==
  LET sum[i \in Nat] == IF i = 0 THEN 0 ELSE sum[i - 1] + s.segments[i].size
  IN  sum[n]

(* The checks every reader makes on the 84-byte header before it looks at  *)
(* a segment.                                                              *)
HeaderAccepted(s) ==
  /\ s.wellFormed
  /\ (s.original = 0) <=> (s.count = 0)

(* Bytes follow the last declared segment. *)
Trailing(s) == s.count < Len(s.segments) \/ s.partial

(* The walk over the segment headers, from offset 84 to the end. *)
WalkAccepted(s) ==
  /\ s.count <= Len(s.segments)
  /\ \A i \in 1..s.count : s.segments[i].size <= s.original - Declared(s, i - 1)
  /\ ~Trailing(s)
  /\ Declared(s, s.count) = s.original

(* decompress_frame(..., max_output_size=segment_size,                     *)
(*                  _verify_original_sha=False) returns.                   *)
FrameRestores(g) ==
  g.intact /\ g.original <= g.size /\ g.mode # "unknown" /\ g.decodes

(* json_log_codec.decompress returns, and what it returns is the source.   *)
MemoryDecodes(s) ==
  /\ HeaderAccepted(s) /\ s.withinLimit
  /\ s.encodedDigestOK
  /\ WalkAccepted(s)
  /\ \A i \in 1..s.count :
       FrameRestores(s.segments[i]) /\ s.segments[i].original = s.segments[i].size
  /\ s.source = FirstSegments(s.count)

(* json_log_codec.inspect returns. *)
InspectAccepts(s) ==
  /\ HeaderAccepted(s)
  /\ s.encodedDigestOK
  /\ WalkAccepted(s)
  /\ \A i \in 1..s.count :
       LET g == s.segments[i]
       IN  g.intact /\ g.original = g.size /\ g.mode # "unknown"
==============================================================================
