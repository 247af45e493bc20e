---------------------------- MODULE AdaptiveCalls ----------------------------
(***************************************************************************)
(* Calls of compress() and decompress() of the public API, and of the      *)
(* benchmark codecs adaptive-v0 to -v3, by threads of one process: some    *)
(* write frames of one source, one of these is carried to another host or  *)
(* process and may be damaged, and some read it.                           *)
(*                                                                         *)
(* What a call sees of its host are the native library and libzstd, which  *)
(* the first call that asks for one loads (native.py): _load_library and   *)
(* _load_zstd set their flag first and the library last, and a call that   *)
(* asks in between is told that there is none.                             *)
(***************************************************************************)
EXTENDS AdaptiveFrame

CONSTANTS Threads,
          Sources,    \* what may be compressed, see below
          Hosts,      \* sets of {"native", "libzstd", "module", "zstd", "lz4"}
          Limits,     \* max_output_size
          None        \* no limit

(* A source is                                                             *)
(*   data   its units, none of which is 0                                  *)
(*   text   STX1 finds tokens in it, json: and it begins like JSON         *)
(*   delta  starts of the segments whose transformed sample wins           *)
(*   pick   what the samples of versions 1 and 2 select                    *)
(*   coded  sizes of its parts, transformed and coded, by kind, length and *)
(*          first unit                                                     *)
CallsAssumption ==
  /\ Threads \cap {"new", "ready", "absent"} = {}
  /\ Foreign.size \in Nat /\ Foreign.psize \in Nat
  /\ \A s \in Sources :
       /\ s.data \in Seq(Nat \ {0})
       /\ s.pick \in {"store", "plain", "delta"}
       /\ s.json => s.text
       /\ s.text => s.data # <<>>
       /\ s.coded \in [{"data", "delta", "text", "channel"} \X (1..Len(s.data))
                          \X {s.data[i] : i \in 1..Len(s.data)} -> Nat \ {0}]

Libraries == {"native", "libzstd"}
SegmentSize == 2

VARIABLES
  host,      \* what there is on the host
  loader,    \* of each library: "new", the thread that loads it, "ready", "absent"
  source,
  phase,     \* "write" or "read"
  call,      \* of each thread
  raced,     \* of each thread, whether it met a library being loaded
  frame,     \* the frame that is read
  damaged    \* whether it was

frameVars == <<host, loader, source, phase, call, raced, frame, damaged>>

Idle == [pc |-> "idle"]
NewProcess == [l \in Libraries |-> "new"]

FramesInit ==
  /\ host \in Hosts
  /\ loader = NewProcess
  /\ source \in Sources
  /\ phase = "write"
  /\ call = [t \in Threads |-> Idle] /\ raced = [t \in Threads |-> FALSE]
  /\ frame = None /\ damaged = FALSE
------------------------------------------------------------------------------
(* What a call asks for at each point, in this order: versions 0 and 1 use *)
(* only the native delta, and everything begins with an option that has    *)
(* the availability of both libraries.                                     *)
Asks(t) ==
  CASE call[t].pc = "compress" ->
         IF call[t].version < 2 THEN <<"native">> ELSE <<"native", "libzstd">>
    [] call[t].pc = "channels" -> <<"native">>
    [] call[t].pc = "decode" ->
         IF frame.version = 1 THEN <<"native">> ELSE <<"native", "libzstd">>
    [] OTHER -> <<>>

Unloaded(t) == {i \in DOMAIN Asks(t) : loader[Asks(t)[i]] \in {"new", t}}
Sees(t, library) == loader[library] = "ready"

(* Another thread is loading what the call asks for. *)
Races(t) == \E i \in DOMAIN Asks(t) : loader[Asks(t)[i]] \in Threads \ {t}

(* The flag is set ... *)
StartLoad(t) ==
  \E i \in Unloaded(t) :
    /\ \A j \in Unloaded(t) : i <= j
    /\ loader[Asks(t)[i]] = "new"
    /\ loader' = [loader EXCEPT ![Asks(t)[i]] = t]
    /\ UNCHANGED <<host, source, phase, call, raced, frame, damaged>>

(* ... and then the library. *)
EndLoad(t) ==
  \E library \in Libraries :
    /\ loader[library] = t
    /\ loader' = [loader EXCEPT ![library] = IF library \in host THEN "ready" ELSE "absent"]
    /\ UNCHANGED <<host, source, phase, call, raced, frame, damaged>>

(* zstd_available and _codec_filter: libzstd, python-zstandard or the      *)
(* command, each with the level 3 that all use.                            *)
Engines(t) ==
       (IF Sees(t, "libzstd") \/ host \cap {"module", "zstd"} # {} THEN {"zstd"} ELSE {})
  \cup (IF Sees(t, "native") THEN {"native"} ELSE {})
  \cup (host \cap {"lz4"})

Continue(t, new) ==
  /\ Unloaded(t) = {}
  /\ call' = [call EXCEPT ![t] = new]
  /\ raced' = [raced EXCEPT ![t] = @ \/ Races(t)]
  /\ UNCHANGED <<host, loader, source, phase, frame, damaged>>

Wrote(t, written) == [pc |-> "wrote", version |-> call[t].version, frame |-> written]
Fails == [pc |-> "failed"]
------------------------------------------------------------------------------
StartCompress(t) ==
  \E version \in 0..3 :
    /\ phase = "write" /\ call[t].pc = "idle"
    /\ call' = [call EXCEPT ![t] = [pc |-> "compress", version |-> version]]
    /\ UNCHANGED <<host, loader, source, phase, raced, frame, damaged>>

Data == source.data
Coded(coder, kind, bytes) == Payload(coder, kind, bytes, source.coded[kind, Len(bytes), bytes[1]])
Stored(bytes) == Payload("none", "data", bytes, Len(bytes))

(* Mutant: only the recipe of an expanded segment becomes "store". *)
KeepsPayload(recipe, bytes, payload) ==
  [recipe |-> IF payload.size >= Len(bytes) THEN "store" ELSE recipe,
   original |-> bytes, payload |-> payload]

(* A segment, stored if that is not longer. *)
Segment(recipe, bytes, payload) ==
  IF payload.size >= Len(bytes)
  THEN [recipe |-> "store", original |-> bytes, payload |-> Stored(bytes)]
  ELSE [recipe |-> recipe, original |-> bytes, payload |-> payload]

(* _encode_segment *)
EncodeSegment(bytes) ==
  IF bytes[1] \in source.delta
  THEN Segment("delta", bytes, Coded("zstd", "delta", bytes))
  ELSE Segment("zstd", bytes, Coded("zstd", "data", bytes))

Segments ==
  [n \in 1..((Len(Data) + SegmentSize - 1) \div SegmentSize) |->
     EncodeSegment(SubSeq(Data, (n - 1) * SegmentSize + 1,
                          IF n * SegmentSize < Len(Data) THEN n * SegmentSize
                          ELSE Len(Data)))]

WholeFrame == PackFrame(Data, <<Segment("zstd", Data, Coded("zstd", "data", Data))>>)

(* Mutant: the whole source is tried only where no segment was stored. *)
SegmentedUnlessStored ==
  LET segmented == PackFrame(Data, Segments) IN
  IF \/ Data = <<>> \/ \E n \in DOMAIN Segments : Segments[n].recipe = "store"
     \/ FrameSize(WholeFrame) > FrameSize(segmented)
  THEN segmented ELSE WholeFrame

(* The segments, or one for the whole source if that is not longer. *)
SegmentedFrame ==
  LET segmented == PackFrame(Data, Segments) IN
  IF Data = <<>> \/ FrameSize(WholeFrame) > FrameSize(segmented)
  THEN segmented ELSE WholeFrame

(* The structured candidate, if it is shorter than the whole source. *)
StructuredFrame(recipe) ==
  LET structured == PackFrame(Data, <<[recipe |-> recipe, original |-> Data,
                                       payload |-> Coded("zstd", recipe, Data)]>>)
  IN  IF FrameSize(structured) < FrameSize(WholeFrame) THEN structured ELSE WholeFrame

(* adaptive_v3.compress up to the interleaved candidate, and all of it     *)
(* where there is none.                                                    *)
Compress3(t) ==
  /\ call[t].pc = "compress" /\ call[t].version = 3
  /\ Continue(t, IF Data # <<>> /\ "zstd" \notin Engines(t) THEN Fails
                 ELSE IF source.text THEN [pc |-> "channels", version |-> 3]
                 ELSE Wrote(t, SegmentedFrame))

(* encode_best, from its second look for the native library, and the       *)
(* choice of the frame.                                                    *)
Channels(t) ==
  /\ call[t].pc = "channels"
  /\ Continue(t, Wrote(t, StructuredFrame(
       IF /\ source.json /\ Sees(t, "native")
          /\ Coded("zstd", "channel", Data).size < Coded("zstd", "text", Data).size
       THEN "channel" ELSE "text")))

(* _adaptive_compress and _adaptive_v2_compress *)
CompressLegacy(t) ==
  LET version == IF call[t].version < 2 THEN 1 ELSE 2
      pick == IF source.pick = "delta" /\ call[t].version = 0 THEN "plain" ELSE source.pick
      coder == IF version = 1 THEN "gzip" ELSE "zstd"
      coded == Coded(coder, IF pick = "delta" THEN "delta" ELSE "data", Data)
      backend == IF pick = "delta" THEN IF version = 1 THEN "delta gzip" ELSE "delta zstd"
                 ELSE coder
  IN  /\ call[t].pc = "compress" /\ call[t].version < 3
      /\ Continue(t,
           IF Data = <<>> \/ pick = "store"
           THEN Wrote(t, PackLegacy(version, "store", Data, Stored(Data)))
           ELSE IF version = 2 /\ "zstd" \notin Engines(t) THEN Fails
           ELSE IF coded.size >= Len(Data)
           THEN Wrote(t, PackLegacy(version, "store", Data, Stored(Data)))
           ELSE Wrote(t, PackLegacy(version, backend, Data, coded)))
------------------------------------------------------------------------------
(* One of the frames is read elsewhere, after all calls have ended. *)
Carry ==
  \E t \in Threads, elsewhere \in Hosts :
    /\ phase = "write" /\ call[t].pc = "wrote"
    /\ \A u \in Threads : call[u].pc \in {"idle", "wrote", "failed"}
    /\ \/ frame' = call[t].frame /\ damaged' = FALSE
       \/ frame' \in Damaged(call[t].frame) /\ damaged' = TRUE
    /\ phase' = "read" /\ host' = elsewhere
    /\ loader' = NewProcess
    /\ call' = [u \in Threads |-> Idle] /\ raced' = [u \in Threads |-> FALSE]
    /\ UNCHANGED source

Read(by, limit, result) == [pc |-> "read", by |-> by, limit |-> limit, result |-> result]

(* decompress looks at the frame before it decodes it, a codec does not.   *)
(* (Bound: a damaged frame is read once.)                                  *)
StartDecompress(t) ==
  \E limit \in Limits, by \in {"api", "codec"} :
    /\ phase = "read" /\ call[t].pc = "idle"
    /\ by = "codec" => limit = None
    /\ damaged => \A u \in Threads : call[u].pc = "idle"
    /\ call' = [call EXCEPT ![t] =
         IF by = "codec" THEN [pc |-> "decode", by |-> by, limit |-> limit]
         ELSE IF ~Inspect(frame).ok THEN Read(by, limit, Invalid)
         ELSE IF limit # None /\ Inspect(frame).size > limit
         THEN Read(by, limit, [ok |-> FALSE, why |-> "limit"])
         ELSE [pc |-> "decode", by |-> by, limit |-> limit]]
    /\ UNCHANGED <<host, loader, source, phase, raced, frame, damaged>>

DecodeFrame(t) ==
  /\ call[t].pc = "decode"
  /\ Continue(t, Read(call[t].by, call[t].limit, Decode(frame, Engines(t))))

FramesNext ==
  \/ \E t \in Threads :
       \/ StartLoad(t) \/ EndLoad(t)
       \/ StartCompress(t) \/ Compress3(t) \/ Channels(t) \/ CompressLegacy(t)
       \/ StartDecompress(t) \/ DecodeFrame(t)
  \/ Carry

FramesSpec == FramesInit /\ [][FramesNext]_frameVars
------------------------------------------------------------------------------
Done(t) == phase = "read" /\ call[t].pc = "read"

(* Whatever a call reads is the source the frame was written from.  A      *)
(* frame that no one damaged is read on any host, whichever candidate was  *)
(* chosen for it, unless the caller allows less output, or the host lacks  *)
(* what the recipe needs, or the call met a library that another one was   *)
(* loading.                                                                *)
FramesReadBack ==
  \A t \in Threads :
    Done(t) =>
      IF call[t].result.ok THEN call[t].result.data = Data
      ELSE \/ damaged
           \/ call[t].result.why = "limit" /\ Len(Data) > call[t].limit
           \/ /\ call[t].result.why = "unavailable"
              /\ \/ raced[t]
                 \/ host \cap {"libzstd", "module", "zstd"} = {}
                 \/ "native" \notin host /\ "channel" \in {Inspect(frame).recipes[i] :
                                                    i \in DOMAIN Inspect(frame).recipes}

(* What inspect_frame and adaptive_v3.decompress, two parsers of the same  *)
(* frames, make of a damaged one: a frame that decodes is not refused by   *)
(* inspect_frame, which reports the size that comes out.                   *)
InspectAcceptsDecodable ==
  \A t \in Threads :
    Done(t) /\ call[t].by = "codec" /\ call[t].result.ok =>
      Inspect(frame).ok /\ Inspect(frame).size = Len(call[t].result.data)

(* No choice of candidates makes a frame longer than the source and one    *)
(* segment header, of however many segments it was cut into; those of      *)
(* versions 1 and 2 have no such header.                                   *)
BoundedExpansion ==
  \A t \in Threads :
    phase = "write" /\ call[t].pc = "wrote" =>
      FrameSize(call[t].frame) <= Len(Data) + IF call[t].version = 3 THEN 1 ELSE 0

(* "The format is lossless and deterministic for a fixed package and       *)
(* dependency version" (docs/file-format.md): two calls of one version in  *)
(* one process write the same frame.                                       *)
Deterministic ==
  \A t, u \in Threads :
    call[t].pc = "wrote" /\ call[u].pc = "wrote" /\ call[t].version = call[u].version
      => call[t].frame = call[u].frame
==============================================================================
