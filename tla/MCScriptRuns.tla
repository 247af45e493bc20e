------------------------------ MODULE MCScriptRuns ------------------------------
(***************************************************************************)
(* Instances of TextSourcePublishers and of MoonRuns for TLC.  The scripts *)
(* share no files: one run checks both, each in behaviours of its own.     *)
(***************************************************************************)
EXTENDS TextSourcePublishers, Integers, TLC

CONSTANTS c1, c2, i1,
          Sweepers, Cap, Cells, Before, Snapshots, Initial, MaxFaults

VARIABLES
  which,
  kind, spot, consumed, item, records, executed, ledger, durable, overlap,
  rss, receipt, outcome, orphans,
  lock, ref, buildRoot, published, synced,
  kills, losses, start

Moon == INSTANCE MoonRuns
          WITH Runs <- Sweepers, pc <- spot, rows <- records, attempt <- ref

moonVars ==
  <<kind, spot, consumed, item, records, executed, ledger, durable, overlap,
    rss, receipt, outcome, orphans, lock, ref, buildRoot, published, synced,
    kills, losses, start>>

ASSUME MoonAssumption == Moon!RunsAssumption

NoSweeps ==
  /\ kind = [r \in Sweepers |-> "h1"] /\ spot = [r \in Sweepers |-> "idle"]
  /\ consumed = [r \in Sweepers |-> 0] /\ item = [r \in Sweepers |-> 1]
  /\ records = [r \in Sweepers |-> <<>>] /\ executed = [r \in Sweepers |-> 0]
  /\ ledger = 0 /\ durable = {0} /\ overlap = FALSE
  /\ Moon!SweepInit /\ Moon!DiagnosticInit
  /\ kills = 0 /\ losses = 0 /\ start = 0

NoTrials ==
  /\ script = "census" /\ gate = 0 /\ head = 1 /\ config = 1
  /\ pc = [r \in Runs |-> "idle"] /\ bound = [r \in Runs |-> None]
  /\ at = [r \in Runs |-> 1] /\ rows = [r \in Runs |-> NoRows]
  /\ draft = [r \in Runs |-> None]
  /\ attempt = None /\ receipts = NoRows /\ results = None
  /\ upsets = 0 /\ failed = {} /\ overlapped = FALSE
  /\ PublisherInit

EitherInit ==
  \/ which = "trials" /\ SourceInit /\ NoSweeps
  \/ which = "sweeps" /\ Moon!Init /\ NoTrials

EitherNext ==
  \/ which = "trials" /\ SourceNext /\ UNCHANGED <<which, moonVars>>
  \/ which = "sweeps" /\ Moon!Next /\ UNCHANGED <<which, vars>>

EitherSpec == EitherInit /\ [][EitherNext]_<<which, vars, moonVars>>

(* The ledger of the moon scripts, parts of which MoonRuns states: what    *)
(* was dispatched stays charged; the diagnostic has one attempt, and its   *)
(* manifest vouches for a whole one; the sweeps count every kernel and     *)
(* call measured what ran.  A cell measured has a receipt of its own.      *)
DispatchedStaysCharged == which = "sweeps" => Moon!DispatchedStaysCharged
OneWholeAttempt == which = "sweeps" => Moon!OneAttempt /\ Moon!ManifestIsWhole
SweepsAccount == which = "sweeps" => Moon!LedgerCounts /\ Moon!MeasuredMeansRan
MeasuredIsFresh == which = "sweeps" => Moon!MeasuredIsFresh
------------------------------------------------------------------------------
(* Schedules of one item.  Of a single codec: a warm-up and two            *)
(* repetitions, or the two repetitions for a script without warm-ups.  Of  *)
(* two codecs: a warm-up and one repetition.                               *)
MCRuns == 1..2
OneCodec == << <<c2, i1, 0>>, <<c2, i1, 1>>, <<c2, i1, 2>> >>
TwoCodecs == << <<c1, i1, 0>>, <<c2, i1, 0>>, <<c2, i1, 1>>, <<c1, i1, 1>> >>
OneCodecSchedules ==
  [s \in Scripts |-> IF s \in WithoutWarmups THEN Tail(OneCodec) ELSE OneCodec]
TwoCodecSchedules == [s \in Scripts |-> TwoCodecs]

InitialCounts == {-1, 2, 3}
SomeSweepers == Permutations(Sweepers)
===============================================================================
