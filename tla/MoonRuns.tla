-------------------------------- MODULE MoonRuns --------------------------------
(***************************************************************************)
(* moon-c1-residual-diagnostic-run.py: one attempt, for ever, to run the   *)
(* kernel over two snapshots, each charged to the ledger before it runs,   *)
(* and to publish two reports, a summary and, when both runs were          *)
(* measured, a manifest.  Then runs of all three Moon scripts on one       *)
(* ledger and one output directory each, some after, some beside each      *)
(* other, with kills and power losses.                                     *)
(***************************************************************************)
EXTENDS MoonSweep

CONSTANTS
  Before,      \* expected_consumed_before
  Snapshots,   \* number of retained snapshots
  Initial,     \* contents of the ledger to start with
  MaxFaults    \* bound: kills, losses, overlaps, kernels left running

DiagnosticAssumption == Before \in 0..Cap /\ Snapshots \in Nat \ {0}

VARIABLES
  lock,       \* who made run-budget.json.c1-diagnostic.lock, or None
  attempt,    \* who made the durable attempt ref, or None
  buildRoot,  \* who made the fixed build root, or None
  published,  \* published[n]: who linked output n into place, or None
  synced      \* outputs whose directory entry is on disk

diagnosticVars == <<lock, attempt, buildRoot, published, synced>>

Reports == 1..Snapshots
Summary == Snapshots + 1
Manifest == Snapshots + 2
Outputs == 1..Manifest

DiagnosticInit ==
  /\ lock = None /\ attempt = None /\ buildRoot = None
  /\ published = [n \in Outputs |-> None] /\ synced = {}

IsC1(r) == kind[r] = "c1"
At(r, place) == IsC1(r) /\ pc[r] = place
--------------------------------------------------------------------------------
(* validate_bindings does not find the authorized, clean commit. *)
BindingsRefuse(r) ==
  /\ At(r, "idle")
  /\ Goto(r, "ended")
  /\ UNCHANGED <<kind, consumed, item, rows, executed, overlap, ledgerVars,
                 diagnosticVars>>

(* The ledger is not where the configuration says, or an output aliases it. *)
BudgetPathRefuses(r) ==
  /\ At(r, "attempt")
  /\ Goto(r, "ended")
  /\ UNCHANGED <<kind, consumed, item, rows, executed, overlap, ledgerVars,
                 diagnosticVars>>

(* prepare_output_roster: no output may exist. *)
PrepareRoster(r) ==
  /\ At(r, "idle")
  /\ Goto(r, IF \A n \in Outputs : published[n] = None THEN "attempt"
             ELSE "ended")
  /\ UNCHANGED <<kind, consumed, item, rows, executed, overlap, ledgerVars,
                 diagnosticVars>>

CheckAttempt(r) ==
  /\ At(r, "attempt")
  /\ Goto(r, IF attempt = None THEN "lock" ELSE "ended")
  /\ UNCHANGED <<kind, consumed, item, rows, executed, overlap, ledgerVars,
                 diagnosticVars>>

(* O_EXCL, then the count, which must be the frozen one with room for every *)
(* snapshot. A lock that is there is never looked into.                    *)
TakeLock(r) ==
  /\ At(r, "lock")
  /\ IF lock = None
     THEN lock' = r /\ Goto(r, "budget")
          /\ overlap' = (overlap \/ \E q \in Runs : IsSweep(q) /\ Holds(q))
     ELSE Goto(r, "ended") /\ UNCHANGED <<lock, overlap>>
  /\ UNCHANGED <<kind, consumed, item, rows, executed, ledgerVars, attempt,
                 buildRoot, published, synced>>

CheckBudget(r) ==
  /\ At(r, "budget")
  /\ IF ledger = Before /\ Before + Snapshots <= Cap
     THEN consumed' = [consumed EXCEPT ![r] = ledger] /\ Goto(r, "build")
     ELSE Goto(r, "unlock") /\ UNCHANGED consumed
  /\ UNCHANGED <<kind, item, rows, executed, overlap, ledgerVars,
                 diagnosticVars>>

(* materialize_and_build: the build root is made exclusively, and removed  *)
(* whether or not the kernel could be built.                               *)
MakeBuildRoot(r) ==
  /\ At(r, "build")
  /\ IF buildRoot = None THEN buildRoot' = r /\ Goto(r, "built")
     ELSE Goto(r, "unlock") /\ UNCHANGED buildRoot
  /\ UNCHANGED <<kind, consumed, item, rows, executed, overlap, ledgerVars,
                 lock, attempt, published, synced>>

Build(r) ==
  /\ At(r, "built")
  /\ buildRoot' = None
  /\ \E place \in {"reserve", "unlock"} : Goto(r, place)
  /\ UNCHANGED <<kind, consumed, item, rows, executed, overlap, ledgerVars,
                 lock, attempt, published, synced>>

(* create_attempt_ref: update-ref from the zero id, which fails if the ref *)
(* is there.                                                               *)
CreateAttempt(r) ==
  /\ At(r, "reserve")
  /\ IF attempt = None THEN attempt' = r /\ Goto(r, "snapshots")
     ELSE Goto(r, "unlock") /\ UNCHANGED attempt
  /\ UNCHANGED <<kind, consumed, item, rows, executed, overlap, ledgerVars,
                 lock, buildRoot, published, synced>>

ValidateSnapshots(r) ==
  /\ At(r, "snapshots")
  /\ \E place \in {"charge", "unlock"} : Goto(r, place)
  /\ UNCHANGED <<kind, consumed, item, rows, executed, overlap, ledgerVars,
                 diagnosticVars>>
--------------------------------------------------------------------------------
(* Refused between two dispatches: the output directory or the private     *)
(* kernel is not the one that was held.                                    *)
HeldObjectDiffers(r) ==
  /\ At(r, "charge") /\ item[r] <= Snapshots
  /\ Goto(r, "unlock")
  /\ UNCHANGED <<kind, consumed, item, rows, executed, overlap, ledgerVars,
                 diagnosticVars>>

(* The ledger must still say what this run last wrote; then it is replaced *)
(* by one that counts the dispatch to come.                                *)
Charge(r) ==
  /\ At(r, "charge") /\ item[r] <= Snapshots
  /\ IF ledger = consumed[r]
     THEN /\ consumed' = [consumed EXCEPT ![r] = @ + 1]
          /\ ReplaceLedger(consumed[r] + 1)
          /\ Goto(r, "sync")
     ELSE Goto(r, "unlock") /\ UNCHANGED <<consumed, ledgerVars>>
  /\ UNCHANGED <<kind, item, rows, executed, overlap, diagnosticVars>>

(* Mutant: the directory is not synced before the kernel is dispatched. *)
DispatchUnsynced(r) ==
  /\ At(r, "sync")
  /\ Goto(r, "dispatch")
  /\ UNCHANGED <<kind, consumed, item, rows, executed, overlap, ledgerVars,
                 diagnosticVars>>

(* The sync of the directory may fail: the charge stays, nothing runs. *)
SyncCharge(r) ==
  /\ At(r, "sync")
  /\ \/ SyncLedger(consumed[r]) /\ Goto(r, "dispatch")
     \/ Goto(r, "unlock") /\ UNCHANGED ledgerVars
  /\ UNCHANGED <<kind, consumed, item, rows, executed, overlap, diagnosticVars>>

(* The charge is read back, and the kernel is started. *)
Dispatch(r) ==
  /\ At(r, "dispatch")
  /\ IF ledger = consumed[r]
     THEN executed' = [executed EXCEPT ![r] = @ + 1] /\ Goto(r, "kernel")
     ELSE Goto(r, "unlock") /\ UNCHANGED executed
  /\ UNCHANGED <<kind, consumed, item, rows, overlap, ledgerVars,
                 diagnosticVars>>

(* Mutant: a snapshot that was not measured is dispatched again. *)
RetriesSnapshot(r) ==
  /\ At(r, "kernel")
  /\ \E status \in {"dispatch_error", "failed", "invalid_report", "measured"} :
       /\ rows' = [rows EXCEPT ![r] =
                     Append(@, [status |-> status, by |-> r, ended |-> "none"])]
       /\ item' = [item EXCEPT ![r] = IF status = "measured" THEN @ + 1 ELSE @]
  /\ Goto(r, "charge")
  /\ UNCHANGED <<kind, consumed, executed, overlap, ledgerVars, diagnosticVars>>

(* What a kernel that ended well left: read_report_once and                *)
(* validate_report accept its report or not.                               *)
ReportVerdicts == {"invalid_report", "measured"}

(* It could not be started, it failed, its report is not valid, or it is   *)
(* retained; anything but the last ends the loop.                          *)
KernelReports(r) ==
  /\ At(r, "kernel")
  /\ \E status \in {"dispatch_error", "failed"} \cup ReportVerdicts :
       /\ rows' = [rows EXCEPT ![r] =
                     Append(@, [status |-> status, by |-> r, ended |-> "none"])]
       /\ item' = [item EXCEPT ![r] = IF status = "measured" THEN @ + 1
                                      ELSE Snapshots + 1]
  /\ Goto(r, "charge")
  /\ UNCHANGED <<kind, consumed, executed, overlap, ledgerVars, diagnosticVars>>
--------------------------------------------------------------------------------
MeasuredRows(r) == {i \in DOMAIN rows[r] : rows[r][i].status = "measured"}

(* Mutant: a manifest also of a run that did not measure every snapshot. *)
AlwaysAManifest(r) ==
  [i \in 1..(Cardinality(MeasuredRows(r)) + 2) |->
     IF i <= Cardinality(MeasuredRows(r)) THEN i
     ELSE IF i = Cardinality(MeasuredRows(r)) + 1 THEN Summary ELSE Manifest]

(* What the run publishes, in order: the retained reports, the summary,    *)
(* and the manifest of a complete run.                                     *)
ToPublish(r) ==
  LET n == Cardinality(MeasuredRows(r))
  IN  [i \in 1..n |-> i] \o <<Summary>>
      \o IF n = Snapshots THEN <<Manifest>> ELSE <<>>

StartPublishing(r) ==
  /\ At(r, "charge") /\ item[r] > Snapshots
  /\ item' = [item EXCEPT ![r] = 1]
  /\ Goto(r, "publish")
  /\ UNCHANGED <<kind, consumed, rows, executed, overlap, ledgerVars,
                 diagnosticVars>>

(* publish_validated_bytes: a synced staging file is linked under the name *)
(* unless the name is taken or something refuses.                          *)
Link(r) ==
  /\ At(r, "publish") /\ item[r] <= Len(ToPublish(r))
  /\ LET n == ToPublish(r)[item[r]]
     IN  \/ /\ published[n] = None
            /\ published' = [published EXCEPT ![n] = r]
            /\ Goto(r, "syncdir")
         \/ Goto(r, "unlock") /\ UNCHANGED published
  /\ UNCHANGED <<kind, consumed, item, rows, executed, overlap, ledgerVars,
                 lock, attempt, buildRoot, synced>>

(* Both syncs of the directory, around the removal of the staging name. *)
SyncDirectory(r) ==
  /\ At(r, "syncdir")
  /\ \/ /\ synced' = {n \in Outputs : published[n] # None}
        /\ item' = [item EXCEPT ![r] = @ + 1]
        /\ Goto(r, "publish")
     \/ Goto(r, "unlock") /\ UNCHANGED <<synced, item>>
  /\ UNCHANGED <<kind, consumed, rows, executed, overlap, ledgerVars, lock,
                 attempt, buildRoot, published>>

AllPublished(r) ==
  /\ At(r, "publish") /\ item[r] > Len(ToPublish(r))
  /\ Goto(r, "unlock")
  /\ UNCHANGED <<kind, consumed, item, rows, executed, overlap, ledgerVars,
                 diagnosticVars>>

(* The lock is removed on every way out, if the name is there. *)
Unlock(r) ==
  /\ At(r, "unlock")
  /\ lock' = None
  /\ Goto(r, "ended")
  /\ UNCHANGED <<kind, consumed, item, rows, executed, overlap, ledgerVars,
                 attempt, buildRoot, published, synced>>

DiagnosticStep(r) ==
  \/ BindingsRefuse(r) \/ PrepareRoster(r) \/ BudgetPathRefuses(r)
  \/ CheckAttempt(r) \/ TakeLock(r)
  \/ CheckBudget(r) \/ MakeBuildRoot(r) \/ Build(r) \/ CreateAttempt(r)
  \/ ValidateSnapshots(r) \/ HeldObjectDiffers(r) \/ Charge(r) \/ SyncCharge(r)
  \/ Dispatch(r) \/ KernelReports(r) \/ StartPublishing(r) \/ Link(r)
  \/ SyncDirectory(r) \/ AllPublished(r) \/ Unlock(r)
--------------------------------------------------------------------------------
(* The runs together. *)

RunsAssumption ==
  /\ LedgerAssumption /\ SweepAssumption /\ DiagnosticAssumption
  /\ Initial \subseteq {Absent} \cup 0..Cap /\ MaxFaults \in Nat

VARIABLES
  kills, losses,   \* how many there were
  start            \* history: the count the ledger started with

vars == <<ledgerVars, runVars, sweepVars, diagnosticVars, kills, losses, start>>

Init ==
  /\ LedgerInit(Initial) /\ SweepInit /\ DiagnosticInit
  /\ kills = 0 /\ losses = 0 /\ start = Count

Faults == kills + losses + Cardinality(orphans) + IF overlap THEN 1 ELSE 0

Sweeping ==
  /\ orphans' \subseteq orphans \/ Faults < MaxFaults
  /\ UNCHANGED <<diagnosticVars, kills, losses, start>>
Diagnosing == UNCHANGED <<sweepVars, kills, losses, start>>

(* A run ends without its finally clauses: what it left stays. *)
Kill(r) ==
  /\ Faults < MaxFaults /\ pc[r] # "idle" /\ ~Ended(r)
  /\ kills' = kills + 1
  /\ Goto(r, "killed")
  /\ orphans' = IF pc[r] = "kernel" /\ kind[r] = "prescreen"
                THEN orphans \cup {<<r, item[r]>>} ELSE orphans
  /\ UNCHANGED <<kind, consumed, item, rows, executed, overlap, ledgerVars,
                 rss, receipt, outcome, diagnosticVars, losses, start>>

(* Everything stops; what was not synced is there or not. The attempt ref  *)
(* stays (git syncs it), the lock and the temporary build root may not.    *)
PowerLoss ==
  /\ Faults < MaxFaults
  /\ losses' = losses + 1
  /\ pc' = [r \in Runs |-> IF pc[r] = "idle" \/ Ended(r) THEN pc[r]
                           ELSE "killed"]
  /\ ledger' \in durable /\ durable' = {ledger'}
  /\ orphans' = {}
  /\ lock' \in {lock, None} /\ buildRoot' \in {buildRoot, None}
  /\ \E kept \in SUBSET {n \in Outputs : published[n] # None /\ n \notin synced} :
       /\ published' = [n \in Outputs |-> IF n \in synced \cup kept
                                          THEN published[n] ELSE None]
       /\ synced' = synced \cup kept
  /\ UNCHANGED <<kind, consumed, item, rows, executed, overlap, rss, receipt,
                 outcome, attempt, kills, start>>

Within == overlap' = overlap \/ Faults < MaxFaults

Next ==
  \/ \E r \in Runs : \/ SweepStep(r) /\ Sweeping /\ Within
                     \/ DiagnosticStep(r) /\ Diagnosing /\ Within
                     \/ Kill(r)
  \/ OrphanEnds /\ Sweeping
  \/ PowerLoss

Spec == Init /\ [][Next]_vars
--------------------------------------------------------------------------------
TypeOK ==
  /\ LedgerTypeOK
  /\ lock \in Runs \cup {None} /\ attempt \in Runs \cup {None}
  /\ buildRoot \in Runs \cup {None}
  /\ published \in [Outputs -> Runs \cup {None}] /\ synced \subseteq Outputs
  /\ receipt \in [1..Cells -> Runs \cup {None}]
  /\ kills \in Nat /\ losses \in Nat

Dispatched == {r \in Runs : IsC1(r) /\ executed[r] > 0}
Counts(contents) == contents \ {Absent, Torn}

(* What the diagnostic dispatched stays charged: as long as no sweep ran   *)
(* beside it, no count the file holds, or could hold after a power loss,   *)
(* is below what the attempt reached, kills and losses included.           *)
DispatchedStaysCharged ==
  ~overlap => \A r \in Dispatched : \A c \in Counts(durable \cup {ledger}) :
                c >= Before + executed[r]

(* There is one attempt: over all runs, kills and power losses, at most    *)
(* one run dispatches a kernel, it holds the attempt ref, and each         *)
(* snapshot is dispatched at most once.                                    *)
OneAttempt ==
  \A r \in Dispatched : attempt = r /\ executed[r] <= Snapshots

(* A manifest vouches for a whole attempt: where it is, and wherever a     *)
(* power loss leaves it, every report and the summary are the same run's   *)
(* and on disk.                                                            *)
ManifestIsWhole ==
  published[Manifest] # None =>
    /\ \A n \in Outputs : published[n] = published[Manifest]
    /\ Outputs \ {Manifest} \subseteq synced
    /\ Cardinality(MeasuredRows(published[Manifest])) = Snapshots

Sweeps == {r \in Runs : IsSweep(r)}

(* The kernels that were run: each as the run and how many it had started. *)
Dispatches == UNION {{r} \X (1..executed[r]) : r \in Runs}

(* The ledger counts every kernel: without a kill, a loss or an overlap,   *)
(* no kernel was run that is not counted, but for those of runs which      *)
(* still hold the ledger, and never more than the cap allows.              *)
LedgerCounts ==
  kills = 0 /\ losses = 0 /\ ~overlap =>
    /\ start + Cardinality(Dispatches) <= Cap
    /\ (\A r \in Runs : ~Holds(r)) =>
         (ledger = Absent \/ ledger >= start + Cardinality(Dispatches))

(* Nothing was killed, nothing ran beside anything else, and no kernel     *)
(* was left running by a timeout.                                          *)
Quiet ==
  /\ kills = 0 /\ losses = 0 /\ ~overlap
  /\ \A r \in Sweeps : \A i \in DOMAIN rows[r] : rows[r][i].ended # "timeout"

(* Files of sweeps before it do not make a failed or an oversized kernel   *)
(* a measured one: in quiet, a sweep calls a cell measured only if its     *)
(* kernel ended within the limits, or never started.                       *)
MeasuredMeansRan ==
  Quiet => \A r \in Sweeps : \A i \in DOMAIN rows[r] :
             rows[r][i].status = "measured"
               => rows[r][i].ended \in {"clean", "unstarted"}

(* moon-prescreen-runner.py:338 says of execute_encode that it returns     *)
(* "the kernel receipt (None if it was not written)": even in quiet, a     *)
(* measured cell has the receipt of its own kernel.                        *)
MeasuredIsFresh ==
  Quiet => \A r \in Sweeps : \A i \in DOMAIN rows[r] :
             rows[r][i].status = "measured" => rows[r][i].by = r
================================================================================
