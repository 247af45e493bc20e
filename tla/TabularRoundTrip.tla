---------------------------- MODULE TabularRoundTrip ----------------------------
(***************************************************************************)
(* compress_stream and decompress_stream on one file: either a source is   *)
(* compressed, with somebody changing it meanwhile, and what is published  *)
(* is then restored, or some other stream, sound or not, is restored.      *)
(***************************************************************************)
EXTENDS TabularCompressStream

CONSTANT Streams   \* other streams that may be found

VARIABLES
  turn,   \* "compress" or "decompress"
  dWorkers, dQueue, dTask, info, file, dPc, dRaised, fault, next, declared,
  dPending, output, restored, dTemp, dDest

poolOfReader == <<dWorkers, dQueue, dTask>>
readerVars == <<poolOfReader, info, file, dPc, dRaised, fault, next, declared,
                dPending, output, restored, dTemp, dDest>>
allVars == <<vars, turn, readerVars>>

Reader == INSTANCE TabularDecompressStream
  WITH workers <- dWorkers, queue <- dQueue, task <- dTask, pc <- dPc,
       raised <- dRaised, pending <- dPending, temp <- dTemp, dest <- dDest

ASSUME ReaderAssumption ==
  \A s \in Streams : s \in StreamType /\ Len(s.segments) <= MaxSegments

ReaderIdle ==
  /\ dWorkers = 1 /\ dQueue = <<>> /\ dTask = [t \in Tasks |-> "new"]
  /\ info = Published /\ file = info
  /\ dPc = "inspect" /\ dRaised = FALSE /\ fault = FALSE
  /\ next = 0 /\ declared = 0 /\ restored = 0
  /\ dPending = <<>> /\ output = <<>> /\ dTemp = FALSE /\ dDest = Reader!Old

CompressorIdle ==
  /\ PoolInit(1) /\ size = 0 /\ changes = 0 /\ kinds = {} /\ measured = 0
  /\ position = 0 /\ sizes = <<>> /\ pending = <<>> /\ frames = <<>>
  /\ pc = "stat" /\ raised = FALSE /\ header = Placeholder /\ temp = FALSE
  /\ dest = Old

RoundTripInit ==
  \/ turn = "compress" /\ Init /\ ReaderIdle
  \/ turn = "decompress" /\ CompressorIdle /\ Reader!Init

Compress == turn = "compress" /\ Next /\ UNCHANGED <<turn, readerVars>>
Decompress == turn = "decompress" /\ Reader!Next /\ UNCHANGED <<turn, vars>>

(* compress_stream returned; its file is given to decompress_stream. *)
HandOver ==
  /\ turn = "compress" /\ pc = "ok"
  /\ turn' = "decompress"
  /\ info' = Published /\ file' = info'
  /\ dWorkers' \in 1..MaxConcurrency
  /\ UNCHANGED <<vars, dQueue, dTask, dPc, dRaised, fault, next, declared,
                 dPending, output, restored, dTemp, dDest>>

RoundTripNext == Compress \/ Decompress \/ HandOver

RoundTripSpec == RoundTripInit /\ [][RoundTripNext]_allVars

(* The calling threads are scheduled and so are those they started; no     *)
(* failure and no change of a file is relied on to end a call.             *)
FairRoundTrip ==
  /\ RoundTripSpec
  /\ WF_allVars(turn = "compress" /\ Main /\ UNCHANGED <<turn, readerVars>>)
  /\ WF_allVars(turn = "compress" /\ TaskStarts /\ UNCHANGED <<turn, readerVars>>)
  /\ WF_allVars(turn = "compress" /\ TaskEnds /\ UNCHANGED <<turn, readerVars>>)
  /\ WF_allVars(turn = "decompress" /\ Reader!Main /\ UNCHANGED <<turn, vars>>)
  /\ WF_allVars(turn = "decompress" /\ Reader!TaskStarts /\ UNCHANGED <<turn, vars>>)
  /\ WF_allVars(turn = "decompress" /\ Reader!TaskEnds /\ UNCHANGED <<turn, vars>>)
  /\ WF_allVars(HandOver)
--------------------------------------------------------------------------------
(* What is published is what the inspected header promises and the         *)
(* caller's limit admits, even if the file was exchanged between the two   *)
(* opens: the exchanged file passes only with the same payload; and a      *)
(* stream that is left in place is refused only if it does not decode.     *)
ReaderVerdict == Reader!PublishesInspected /\ Reader!RefusesOnlyBroken

(* What was compressed is restored: every chunk that was read, in order,   *)
(* unless the source both grew and shrank meanwhile, the file was          *)
(* exchanged, or the reader met a fault of its own.                        *)
ReadsBack ==
  (/\ turn = "decompress" /\ dest.new /\ kinds # {"grew", "shrank"}
   /\ dPc \in {"ok", "error"} /\ file = info /\ ~fault)
  => /\ dPc = "ok"
     /\ [i \in 1..Len(dDest.output) |-> file.segments[dDest.output[i]].size] = sizes

(* Each call comes to an end, on every source and on every stream.         *)
EveryCallEnds ==
  <>((turn = "compress" /\ pc = "error") \/ dPc \in {"ok", "error"})
================================================================================
