---------------------------- MODULE AdaptiveFrame ----------------------------
(***************************************************************************)
(* `.clab` frames of versions 1 to 3 (adaptive_v3.py, worker.py), what may *)
(* happen to them on the way, and what inspect_frame makes of them.        *)
(*                                                                         *)
(* A source is a sequence of different units; its SHA-256 and the CRC32 of *)
(* a part are the units themselves.  What follows the header of a frame is *)
(* a sequence of units too: one for a segment header, and as many as it    *)
(* takes for a payload, of which every unit knows its payload and place.   *)
(***************************************************************************)
EXTENDS Integers, Sequences

CONSTANTS Foreign   \* what payload units look like when read as a segment header

RecipesOfV3 == {"store", "zstd", "delta", "text", "channel"}

(* A payload holds the bytes of a part of the source, transformed (kind)   *)
(* and coded; a byte more or less than it and it is none.                  *)
Payload(coder, kind, bytes, size) ==
  [coder |-> coder, kind |-> kind, bytes |-> bytes, size |-> size]
Broken == Payload("broken", "data", <<>>, 0)

Units(payload) ==
  [i \in 1..payload.size |-> [head |-> FALSE, payload |-> payload, at |-> i]]

(* SEGMENT_HEADER: recipe, len(original), len(payload), zlib.crc32(original) *)
SegmentHeader(recipe, original, payload) ==
  [head |-> TRUE, recipe |-> recipe, size |-> Len(original),
   psize |-> payload.size, crc |-> original]

(* _pack_frame; segments are records of recipe, original and payload *)
PackFrame(data, segments) ==
  LET body[n \in 0..Len(segments)] ==
        IF n = 0 THEN <<>>
        ELSE LET s == segments[n] IN
             body[n - 1] \o <<SegmentHeader(s.recipe, s.original, s.payload)>>
                         \o Units(s.payload)
  IN  [magic |-> TRUE, version |-> 3, backend |-> "segmented",
       original |-> Len(data), hash |-> data, whole |-> "count",
       count |-> Len(segments), body |-> body[Len(segments)]]

(* ADAPTIVE_HEADER.pack(...) + payload *)
PackLegacy(version, backend, data, payload) ==
  [magic |-> TRUE, version |-> version, backend |-> backend,
   original |-> Len(data), hash |-> data, whole |-> "count",
   count |-> 0, body |-> Units(payload)]

(* Units of the frame after the common header and the segment count, which *)
(* are the same for every frame.                                           *)
FrameSize(frame) == Len(frame.body)
------------------------------------------------------------------------------
(* One thing is wrong with a frame: it was cut off or prolonged, or a      *)
(* field of its header, of a segment header, or a payload unit changed.    *)
CutOff(frame) ==
  {[frame EXCEPT !.whole = w, !.body = <<>>] : w \in {"nothing", "header"}}
    \cup {[frame EXCEPT !.body = SubSeq(@, 1, n)] : n \in 0..(Len(frame.body) - 1)}

Prolonged(frame) ==
  {[frame EXCEPT !.body = Append(@, Units([Broken EXCEPT !.size = 1])[1])]}

HeaderChanged(frame) ==
       {[frame EXCEPT !.magic = FALSE], [frame EXCEPT !.hash = <<0>>]}
  \cup {[frame EXCEPT !.version = v] : v \in 1..4 \ {frame.version}}
  \cup {[frame EXCEPT !.backend = b] :
          b \in {"segmented", "store", "gzip", "zstd", "delta zstd", "other"} \ {frame.backend}}
  \cup {[frame EXCEPT !.original = @ + d] : d \in {-1, 1}}
  \cup {[frame EXCEPT !.count = @ + d] : d \in {-1, 1}}

SegmentChanged(frame) ==
  UNION {LET h == frame.body[i]
             with(new) == [frame EXCEPT !.body[i] = new]
         IN  IF h.head
             THEN {with([h EXCEPT !.recipe = r]) :
                     r \in (RecipesOfV3 \cup {"other"}) \ {h.recipe}}
                  \cup {with([h EXCEPT !.size = @ + d]) : d \in {-1, 1}}
                  \cup {with([h EXCEPT !.psize = @ + d]) : d \in {-1, 1}}
                  \cup {with([h EXCEPT !.crc = <<0>>])}
             ELSE {with([h EXCEPT !.payload = Broken])}
         : i \in DOMAIN frame.body}

Damaged(frame) ==
  {f \in CutOff(frame) \cup Prolonged(frame) \cup HeaderChanged(frame)
           \cup SegmentChanged(frame) :
     /\ f.original >= 0 /\ f.count >= 0
     /\ \A i \in DOMAIN f.body : f.body[i].head =>
          f.body[i].size >= 0 /\ f.body[i].psize >= 0}
------------------------------------------------------------------------------
(* The segment header read at an offset, which may be amid a payload. *)
HeaderAt(frame, offset) ==
  IF frame.body[offset].head THEN frame.body[offset] ELSE Foreign

(* frame[offset:offset + size]: a payload if it is exactly its units. *)
Slice(frame, offset, size) ==
  LET units == SubSeq(frame.body, offset, offset + size - 1) IN
  IF units # <<>> /\ ~units[1].head /\ units = Units(units[1].payload)
  THEN units[1].payload ELSE Broken

Rejected == [ok |-> FALSE]

(* One turn of the loop of inspect_frame; w is where it has got to. *)
InspectSegment(frame, w) ==
  IF ~w.ok \/ w.offset > Len(frame.body) THEN Rejected
  ELSE LET h == HeaderAt(frame, w.offset) IN
       IF \/ h.recipe \notin RecipesOfV3
          \/ h.size = 0 \/ h.size > frame.original - w.total
          \/ h.psize > Len(frame.body) - w.offset
       THEN Rejected
       ELSE [ok |-> TRUE, offset |-> w.offset + 1 + h.psize,
             total |-> w.total + h.size, recipes |-> Append(w.recipes, h.recipe)]

InspectSegments(frame) ==
  LET walk[n \in 0..frame.count] ==
        IF n = 0 THEN [ok |-> TRUE, offset |-> 1, total |-> 0, recipes |-> <<>>]
        ELSE InspectSegment(frame, walk[n - 1])
      w == walk[frame.count]
  IN  IF w.ok /\ w.offset = Len(frame.body) + 1 /\ w.total = frame.original
      THEN [ok |-> TRUE, version |-> 3, size |-> frame.original, recipes |-> w.recipes]
      ELSE Rejected

(* inspect_frame.  Of a legacy frame it looks at the header only. *)
Inspect(frame) ==
  IF frame.whole = "nothing" \/ ~frame.magic \/ frame.version \notin {1, 2, 3}
  THEN Rejected
  ELSE IF frame.version # 3
  THEN [ok |-> TRUE, version |-> frame.version, size |-> frame.original,
        recipes |-> IF frame.original = 0 THEN <<>> ELSE <<frame.backend>>]
  ELSE IF \/ frame.backend # "segmented" \/ frame.whole = "header"
          \/ frame.original = 0 /\ frame.count # 0
          \/ frame.original > 0 /\ (frame.count = 0 \/ frame.count > frame.original)
       THEN Rejected
       ELSE InspectSegments(frame)
------------------------------------------------------------------------------
(* What a recipe, or a legacy backend, undoes. *)
Undoes == {<<"store", "none", "data">>, <<"zstd", "zstd", "data">>,
           <<"delta", "zstd", "delta">>, <<"text", "zstd", "text">>,
           <<"channel", "zstd", "channel">>, <<"gzip", "gzip", "data">>,
           <<"delta gzip", "gzip", "delta">>, <<"delta zstd", "zstd", "delta">>,
           <<"lz4", "lz4", "data">>}

(* Whether a payload is restored to size bytes; if not, the decoder, or    *)
(* the length test after it, complains.                                    *)
Restores(recipe, payload, size) ==
  /\ <<recipe, payload.coder, payload.kind>> \in Undoes
  /\ Len(payload.bytes) = size

(* Of engines: "zstd", "lz4" and the native library. *)
Needs(recipe) ==
  CASE recipe = "channel" -> {"native", "zstd"}
    [] recipe \in {"zstd", "delta", "text", "delta zstd"} -> {"zstd"}
    [] recipe = "lz4" -> {"lz4"}
    [] OTHER -> {}

Invalid == [ok |-> FALSE, why |-> "invalid"]
Unavailable == [ok |-> FALSE, why |-> "unavailable"]

(* One turn of the loop of adaptive_v3.decompress. *)
DecodeSegment(frame, engines, w) ==
  IF ~w.ok THEN w
  ELSE IF w.offset > Len(frame.body) THEN Invalid
  ELSE LET h == HeaderAt(frame, w.offset)
           payload == Slice(frame, w.offset + 1, h.psize)
       IN  IF \/ h.size = 0 \/ h.size > frame.original - Len(w.data)
              \/ h.psize > Len(frame.body) - w.offset
              \/ h.recipe \notin RecipesOfV3
           THEN Invalid
           ELSE IF ~(Needs(h.recipe) \subseteq engines) THEN Unavailable
           ELSE IF ~Restores(h.recipe, payload, h.size) \/ payload.bytes # h.crc
           THEN Invalid
           ELSE [ok |-> TRUE, offset |-> w.offset + 1 + h.psize,
                 data |-> w.data \o payload.bytes]

(* Mutant: what follows the last segment is not looked at. *)
IgnoresTrailingData(frame, engines) ==
  LET walk[n \in 0..frame.count] ==
        IF n = 0 THEN [ok |-> TRUE, offset |-> 1, data |-> <<>>]
        ELSE DecodeSegment(frame, engines, walk[n - 1])
      w == walk[frame.count]
  IN  IF ~w.ok THEN w
      ELSE IF w.data # frame.hash THEN Invalid ELSE w

(* The segments, and the tests after the loop. *)
DecodeSegments(frame, engines) ==
  LET walk[n \in 0..frame.count] ==
        IF n = 0 THEN [ok |-> TRUE, offset |-> 1, data |-> <<>>]
        ELSE DecodeSegment(frame, engines, walk[n - 1])
      w == walk[frame.count]
  IN  IF ~w.ok THEN w
      ELSE IF \/ w.offset # Len(frame.body) + 1
              \/ Len(w.data) # frame.original \/ w.data # frame.hash
      THEN Invalid ELSE w

(* The backends of versions 1 and 2. *)
LegacyBackends == [v \in {1, 2} |->
  {"store"} \cup IF v = 1 THEN {"gzip", "delta gzip"} ELSE {"zstd", "lz4", "delta zstd"}]

(* A stored payload is whatever follows the header. *)
DecodeLegacy(frame, engines) ==
  LET payload == IF frame.body = <<>> THEN Payload("none", "data", <<>>, 0)
                 ELSE Slice(frame, 1, Len(frame.body))
  IN  IF frame.backend \notin LegacyBackends[frame.version] THEN Invalid
      ELSE IF ~(Needs(frame.backend) \subseteq engines) THEN Unavailable
      ELSE IF \/ ~Restores(frame.backend, payload, frame.original)
              \/ payload.bytes # frame.hash
      THEN Invalid ELSE [ok |-> TRUE, data |-> payload.bytes]

(* _adaptive_decompress, without the limit. *)
Decode(frame, engines) ==
  IF frame.whole = "nothing" \/ ~frame.magic THEN Invalid
  ELSE IF frame.version \in {1, 2} THEN DecodeLegacy(frame, engines)
  ELSE IF \/ frame.version # 3 \/ frame.backend # "segmented"
          \/ frame.whole = "header"
          \/ frame.original = 0 /\ frame.count # 0
          \/ frame.original > 0 /\ (frame.count = 0 \/ frame.count > frame.original)
       THEN Invalid
       ELSE DecodeSegments(frame, engines)
==============================================================================
