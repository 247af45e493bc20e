----------------------------- MODULE Jls2RoundTrip -----------------------------
(***************************************************************************)
(* The three programs that meet in a JLS2 file: compress_file writes it,   *)
(* decompress_file (Python) or decode_to_writer (Rust) reads it.  Either   *)
(* the encoder is called and then a reader on what it published, or a      *)
(* reader is called on some other stream, sound or not.                    *)
(***************************************************************************)
EXTENDS Jls2CompressFile

CONSTANTS
  PythonStreams,  \* streams the Python reader may be given
  NativeStreams   \* streams the Rust reader may be given

VARIABLES
  turn,     \* who is called: "encode", "python" or "native"
  stream,   \* what the reader is given; until then what it will be given
  (* decompress_file *)
  pWorkers, pQueue, pTask, pPc, pRaised, pFault, pNext, pDeclared, pPending,
  pOutput, pRestored, pTemp, pDest,
  (* decode_to_writer *)
  unwinds, nWorkers, nPc, nFault, first, thread, channel, nPending, nOutput

pythonVars == <<pWorkers, pQueue, pTask, pPc, pRaised, pFault, pNext, pDeclared,
                pPending, pOutput, pRestored, pTemp, pDest>>
nativeVars == <<unwinds, nWorkers, nPc, nFault, first, thread, channel,
                nPending, nOutput>>
allVars == <<vars, turn, stream, pythonVars, nativeVars>>

Python == INSTANCE Jls2DecompressFile
  WITH Streams <- PythonStreams, workers <- pWorkers, queue <- pQueue,
       task <- pTask, pc <- pPc, raised <- pRaised, fault <- pFault,
       next <- pNext, declared <- pDeclared, pending <- pPending,
       output <- pOutput, restored <- pRestored, temp <- pTemp, dest <- pDest

Native == INSTANCE Jls2NativeDecode
  WITH Streams <- NativeStreams, workers <- nWorkers, pc <- nPc,
       fault <- nFault, pending <- nPending, output <- nOutput

ASSUME ReadersAssumption ==
  \A s \in PythonStreams \cup NativeStreams :
    s \in Python!StreamType /\ Len(s.segments) <= MaxSegments

(* A published file as its readers see it. *)
AsStream(d) ==
  [wellFormed |-> d.present, withinLimit |-> TRUE,
   original |-> d.header.count, count |-> d.header.count,
   segments |-> [i \in 1..Len(d.frames) |-> Python!GoodSegment(1)],
   partial |-> FALSE, encodedDigestOK |-> d.header.encoded = d.frames,
   source |-> d.header.source]

(* What a source of n segments becomes. *)
Written(n) ==
  AsStream([header |-> [count |-> n, source |-> FirstSegments(n),
                        encoded |-> FirstSegments(n)],
            frames |-> FirstSegments(n), present |-> TRUE])

PythonIdle ==
  /\ pWorkers = 1 /\ pQueue = <<>> /\ pTask = [t \in Tasks |-> "new"]
  /\ pPc = "header" /\ pRaised = FALSE /\ pFault = FALSE
  /\ pNext = 0 /\ pDeclared = 0 /\ pRestored = 0
  /\ pPending = <<>> /\ pOutput = <<>> /\ pTemp = TRUE /\ pDest = Python!Nothing

NativeIdle ==
  /\ unwinds = TRUE /\ nWorkers = 1 /\ nPc = "table" /\ nFault = FALSE
  /\ first = 0 /\ thread = [i \in Tasks |-> "none"]
  /\ channel = <<>> /\ nPending = {} /\ nOutput = <<>>

EncoderIdle ==
  /\ PoolInit(1) /\ total = 0 /\ pc = "read" /\ raised = FALSE
  /\ digest = <<>> /\ pending = <<>> /\ frames = <<>> /\ encodedDigest = <<>>
  /\ header = Placeholder /\ temp = TRUE /\ dest = Nothing

RoundTripInit ==
  \/ turn = "encode" /\ Init /\ stream = Written(total)
     /\ PythonIdle /\ NativeIdle
  \/ turn = "python" /\ Python!Init /\ EncoderIdle /\ NativeIdle
  \/ turn = "native" /\ Native!Init /\ EncoderIdle /\ PythonIdle

Encode == turn = "encode" /\ Next /\ UNCHANGED <<turn, stream, pythonVars, nativeVars>>
ReadInPython == turn = "python" /\ Python!Next /\ UNCHANGED <<turn, vars, nativeVars>>
ReadNatively == turn = "native" /\ Native!Next /\ UNCHANGED <<turn, vars, pythonVars>>

(* The encoder returned; a reader is called on its file. *)
HandToPython ==
  /\ turn = "encode" /\ pc = "ok"
  /\ turn' = "python" /\ stream' = AsStream(dest)
  /\ \E cpus \in 1..MaxWorkers :
       pWorkers' = Python!Smaller(Python!Larger(1, stream'.count), cpus)
  /\ UNCHANGED <<vars, nativeVars, pQueue, pTask, pPc, pRaised, pFault, pNext,
                 pDeclared, pPending, pOutput, pRestored, pTemp, pDest>>

HandToNative ==
  /\ turn = "encode" /\ pc = "ok"
  /\ turn' = "native" /\ stream' = AsStream(dest)
  /\ unwinds' \in BOOLEAN
  /\ \E cpus \in 1..MaxWorkers :
       nWorkers' = Python!Larger(1, Python!Smaller(stream'.count, cpus))
  /\ UNCHANGED <<vars, pythonVars, nPc, nFault, first, thread, channel, nPending,
                 nOutput>>

RoundTripNext ==
  Encode \/ ReadInPython \/ ReadNatively \/ HandToPython \/ HandToNative

RoundTripSpec == RoundTripInit /\ [][RoundTripNext]_allVars

(* Each calling thread is scheduled, and so is every thread it started: a  *)
(* task that runs comes to an end (compress_frame and decompress_frame do  *)
(* not block). No failure is relied on. Somebody calls a reader.           *)
FairRoundTrip ==
  /\ RoundTripSpec
  /\ WF_allVars(turn = "encode" /\ Main /\ UNCHANGED <<turn, stream, pythonVars, nativeVars>>)
  /\ WF_allVars(turn = "encode" /\ TaskStarts /\ UNCHANGED <<turn, stream, pythonVars, nativeVars>>)
  /\ WF_allVars(turn = "encode" /\ TaskEnds /\ UNCHANGED <<turn, stream, pythonVars, nativeVars>>)
  /\ WF_allVars(turn = "python" /\ Python!Main /\ UNCHANGED <<turn, vars, nativeVars>>)
  /\ WF_allVars(turn = "python" /\ Python!TaskStarts /\ UNCHANGED <<turn, vars, nativeVars>>)
  /\ WF_allVars(turn = "python" /\ Python!TaskEnds /\ UNCHANGED <<turn, vars, nativeVars>>)
  /\ WF_allVars(turn = "native" /\ Native!Main /\ UNCHANGED <<turn, vars, pythonVars>>)
  /\ \A i \in Tasks :
       WF_allVars(turn = "native" /\ nPc # "aborted" /\ Native!Send(i)
                  /\ UNCHANGED <<turn, vars, pythonVars>>)
  /\ WF_allVars(HandToPython \/ HandToNative)
--------------------------------------------------------------------------------
(* The reader in memory and the reader of files agree on every stream,     *)
(* however the pool is scheduled: the file call publishes exactly the      *)
(* streams decompress() returns for, and raises on the others, though it   *)
(* compares the digests last and decompress() compares one of them first.  *)
(* inspect(), which admits a stream by the size it declares, accepts what  *)
(* is published, and before the verdict no more than that size is written. *)
SameVerdictAsMemory ==
  /\ Python!SameVerdictAsMemory /\ Python!InspectAgrees
  /\ Python!OutputWithinDeclared

(* The Rust decoder's verdict does not depend on the order its threads     *)
(* finish in, and a panic of one of them is never turned into a verdict.   *)
NativeVerdict == Native!NativeVerdict /\ Native!PanicIsNoVerdict

(* Both decoders keep the segmented-codec promise too: on every stream,    *)
(* sound or not, each segment written is the next one of the stream, and   *)
(* success is reported only when all are there.                            *)
ReadersImplementOrderedStream ==
  Python!ImplementsOrderedStream /\ Native!ImplementsOrderedStream

(* What compress_file published reads back, in Python and in Rust: a       *)
(* reader that met no fault of its own has restored every segment of the   *)
(* source, in order.                                                       *)
ReadsBack ==
  pc = "ok" =>
    /\ turn = "python" /\ pPc \in {"ok", "error"} /\ ~pFault
         => pPc = "ok" /\ pDest.output = FirstSegments(total)
    /\ turn = "native" /\ nPc \in {"ok", "error"} /\ ~nFault
         /\ (\A i \in Tasks : thread[i] # "panicked")
         => nPc = "ok" /\ nOutput = FirstSegments(total)

(* Every call comes to an end: nobody waits for a result that cannot come. *)
EveryCallEnds ==
  <>(\/ turn = "encode" /\ pc = "error"
     \/ turn = "python" /\ pPc \in {"ok", "error"}
     \/ turn = "native" /\ Native!Stopped)
================================================================================
