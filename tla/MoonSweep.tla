-------------------------------- MODULE MoonSweep --------------------------------
(***************************************************************************)
(* run-budget.json, the ledger of kernel runs that three scripts share     *)
(* (moon-prescreen-runner.py, moon-h1-decomposition-run.py and             *)
(* moon-c1-residual-diagnostic-run.py), and what every run of one of them  *)
(* keeps.                                                                  *)
(*                                                                         *)
(* `durable` is the set of contents a power loss may leave in the file:    *)
(* writes that were not fsynced add to it, an fsync makes it one content.  *)
(*                                                                         *)
(* The sweeps of moon-prescreen-runner.py and moon-h1-decomposition-run.py: *)
(* the ledger is read once, then for every cell (snapshot and arm) a       *)
(* kernel runs, is recorded, and is counted in the ledger afterwards.      *)
(*                                                                         *)
(* A prescreen finds out what its kernel did from two files in the output  *)
(* directory, which a sweep before it with the same directory filled too.  *)
(* A file is named by the run whose kernel wrote it.                       *)
(***************************************************************************)
EXTENDS Integers, FiniteSets, Sequences

CONSTANTS
  Runs,   \* invocations of the scripts
  None,
  Cap     \* RUN_BUDGET_CAP, BUDGET_CAP

Absent == -1   \* no file
Torn == -2     \* what write_text leaves between truncating and writing

LedgerAssumption == IsFiniteSet(Runs) /\ None \notin Runs /\ Cap \in Nat

VARIABLES
  kind,      \* kind[r]: the script r is a run of
  pc,        \* where r is
  consumed,  \* its own count, read once
  item,      \* the cell, snapshot or publication it is at
  rows,      \* what it recorded of each kernel run
  executed,  \* kernels it dispatched
  ledger,    \* content of run-budget.json
  durable,   \* contents a power loss may leave
  overlap    \* two runs that do not exclude each other held the ledger at once

ledgerVars == <<ledger, durable>>
runVars == <<kind, pc, consumed, item, rows, executed, overlap>>

Kinds == {"prescreen", "h1", "c1"}
IsSweep(r) == kind[r] \in {"prescreen", "h1"}
Ended(r) == pc[r] \in {"ended", "killed"}

(* r has read the ledger and may still write it. *)
Holds(r) == ~Ended(r) /\ pc[r] \notin {"idle", "attempt", "lock"}

Goto(r, place) == pc' = [pc EXCEPT ![r] = place]

LedgerInit(initial) ==
  /\ kind \in [Runs -> Kinds]
  /\ pc = [r \in Runs |-> "idle"]
  /\ consumed = [r \in Runs |-> 0] /\ item = [r \in Runs |-> 1]
  /\ rows = [r \in Runs |-> <<>>] /\ executed = [r \in Runs |-> 0]
  /\ ledger \in initial /\ durable = {ledger}
  /\ overlap = FALSE

(* read_budget of the sweeps: a missing file counts as nothing consumed,   *)
(* one that is not JSON is an error.                                       *)
Readable == ledger # Torn
Count == IF ledger = Absent THEN 0 ELSE ledger

(* write_budget is write_text: the file is truncated, then written. *)
TruncateLedger == ledger' = Torn /\ durable' = durable \cup {Torn}
WriteLedger(c) == ledger' = c /\ durable' = durable \cup {c}

(* durable_replace: a synced staging file takes the name, and the sync of  *)
(* the directory makes that final.                                         *)
ReplaceLedger(c) == ledger' = c /\ durable' = durable \cup {c}
SyncLedger(c) ==
  /\ durable' = IF ledger = c THEN {c} ELSE durable
  /\ UNCHANGED ledger

LedgerTypeOK ==
  /\ kind \in [Runs -> Kinds]
  /\ consumed \in [Runs -> 0..Cap] /\ item \in [Runs -> Nat \ {0}]
  /\ executed \in [Runs -> Nat]
  /\ ledger \in Torn..Cap /\ durable \subseteq Torn..Cap /\ ledger \in durable
  /\ overlap \in BOOLEAN
--------------------------------------------------------------------------------
CONSTANT Cells   \* number of cells of a sweep

SweepAssumption == Cells \in Nat

VARIABLES
  rss,       \* rss[c]: the clean-RSS report of cell c: who wrote it, and what
  receipt,   \* receipt[c]: whose kernel wrote the kernel receipt of c
  outcome,   \* outcome[r]: how the kernel r waits for ended
  orphans    \* <<r, c>>: kernels still running after their run gave up on them

sweepVars == <<rss, receipt, outcome, orphans>>

(* How a kernel run under the instrument can end: within the limits, over  *)
(* one of them, with an error, after the timeout (the instrument is killed,*)
(* shim and kernel are not), or without having started, in which case the  *)
(* shim writes no report.                                                  *)
Outcomes == {"clean", "over", "failed", "timeout", "unstarted"}

SweepInit ==
  /\ rss = [c \in 1..Cells |-> [by |-> None, says |-> "failed"]]
  /\ receipt = [c \in 1..Cells |-> None]
  /\ outcome = [r \in Runs |-> "clean"]
  /\ orphans = {}
--------------------------------------------------------------------------------
(* The ledger is read, and an exhausted one refuses.                       *)
StartSweep(r) ==
  /\ IsSweep(r) /\ pc[r] = "idle"
  /\ IF Readable /\ Count < Cap
     THEN /\ consumed' = [consumed EXCEPT ![r] = Count]
          /\ overlap' = (overlap \/ \E q \in Runs : Holds(q))
          /\ Goto(r, "cell")
     ELSE Goto(r, "ended") /\ UNCHANGED <<consumed, overlap>>
  /\ UNCHANGED <<kind, item, rows, executed, ledgerVars, sweepVars>>

(* Configuration, references or snapshots of a prescreen are refused. *)
PrescreenRefused(r) ==
  /\ kind[r] = "prescreen" /\ pc[r] = "idle"
  /\ Goto(r, "ended")
  /\ UNCHANGED <<kind, consumed, item, rows, executed, overlap, ledgerVars,
                 sweepVars>>

(* The same of a decomposition, whose references may be left out. *)
DecompositionRefused(r) ==
  /\ kind[r] = "h1" /\ pc[r] = "idle"
  /\ Goto(r, "ended")
  /\ UNCHANGED <<kind, consumed, item, rows, executed, overlap, ledgerVars,
                 sweepVars>>

Row(status, by, ended) == [status |-> status, by |-> by, ended |-> ended]

(* A cell for which nothing is left in the budget is skipped. *)
SkipCell(r) ==
  /\ IsSweep(r) /\ pc[r] = "cell" /\ item[r] <= Cells
  /\ consumed[r] >= Cap
  /\ rows' = [rows EXCEPT ![r] = Append(@, Row("skipped", None, "none"))]
  /\ item' = [item EXCEPT ![r] = @ + 1]
  /\ UNCHANGED <<kind, pc, consumed, executed, overlap, ledgerVars, sweepVars>>

(* Mutant: the budget is looked at only when the sweep starts. *)
RunPastCap(r) ==
  /\ IsSweep(r) /\ pc[r] = "cell" /\ item[r] <= Cells
  /\ executed' = [executed EXCEPT ![r] = @ + 1]
  /\ Goto(r, "kernel")
  /\ UNCHANGED <<kind, consumed, item, rows, overlap, ledgerVars, sweepVars>>

RunKernel(r) ==
  /\ IsSweep(r) /\ pc[r] = "cell" /\ item[r] <= Cells
  /\ consumed[r] < Cap
  /\ executed' = [executed EXCEPT ![r] = @ + 1]
  /\ Goto(r, "kernel")
  /\ UNCHANGED <<kind, consumed, item, rows, overlap, ledgerVars, sweepVars>>

(* The kernel and its instrument end; what they write replaces what was    *)
(* there, and what they do not write stays.                                *)
KernelEnds(r) ==
  /\ IsSweep(r) /\ pc[r] = "kernel"
  /\ \E how \in Outcomes :
       /\ kind[r] = "h1" => how \in {"clean", "failed"}
       /\ outcome' = [outcome EXCEPT ![r] = how]
       /\ rss' = IF kind[r] = "h1" \/ how \in {"timeout", "unstarted"} THEN rss
                 ELSE [rss EXCEPT ![item[r]] = [by |-> r, says |-> how]]
       /\ receipt' = IF kind[r] = "prescreen" /\ how \in {"clean", "over"}
                     THEN [receipt EXCEPT ![item[r]] = r] ELSE receipt
       /\ orphans' = IF how = "timeout" THEN orphans \cup {<<r, item[r]>>}
                     ELSE orphans
  /\ Goto(r, "record")
  /\ UNCHANGED <<kind, consumed, item, rows, executed, overlap, ledgerVars>>

(* A kernel nobody waits for any more ends, and its shim reports. *)
OrphanEnds ==
  /\ \E o \in orphans :
       /\ orphans' = orphans \ {o}
       /\ rss' = [rss EXCEPT ![o[2]] = [by |-> o[1], says |-> "over"]]
       /\ receipt' = [receipt EXCEPT ![o[2]] = o[1]]
  /\ UNCHANGED <<outcome, runVars, ledgerVars>>

(* The report execute_encode returns: the file if there is one and the     *)
(* instrument was not timed out, else an exit code of its own.             *)
Report(r, c) ==
  IF rss[c].by # None /\ outcome[r] # "timeout" THEN rss[c].says
  ELSE IF outcome[r] = "timeout" THEN "timeout" ELSE "failed"

(* Mutant: classify_run looks at the receipt only. *)
ReceiptDecides(r, c) ==
  IF receipt[c] = None THEN "encode_failed" ELSE "measured"

(* classify_run, after execute_encode read the kernel receipt, whoever     *)
(* wrote it.                                                               *)
Classify(r, c) ==
  IF Report(r, c) = "timeout" THEN "killed_by_budget"
  ELSE IF receipt[c] = None \/ Report(r, c) = "failed" THEN "encode_failed"
  ELSE IF Report(r, c) = "over" THEN "killed_by_budget"
  ELSE "measured"

(* The status a cell gets: validate_kernel_receipt may find a receipt that *)
(* is not bound to arm and snapshot; a diagnostic has its exit code alone. *)
Statuses(r, c) ==
  IF kind[r] = "h1" THEN {IF outcome[r] = "clean" THEN "measured" ELSE "failed"}
  ELSE {Classify(r, c)} \cup (IF receipt[c] = None THEN {} ELSE {"invalid"})

(* The count goes up, the receipt of the run is written, and then the      *)
(* ledger, in two steps.                                                   *)
Record(r) ==
  /\ IsSweep(r) /\ pc[r] = "record"
  /\ consumed' = [consumed EXCEPT ![r] = @ + 1]
  /\ LET c == item[r]
         by == IF kind[r] = "h1" THEN r ELSE receipt[c]
     IN  \E status \in Statuses(r, c) :
           rows' = [rows EXCEPT ![r] = Append(@, Row(status, by, outcome[r]))]
  /\ Goto(r, "truncate")
  /\ UNCHANGED <<kind, item, executed, overlap, ledgerVars, sweepVars>>

CountTruncates(r) ==
  /\ IsSweep(r) /\ pc[r] = "truncate"
  /\ TruncateLedger
  /\ Goto(r, "write")
  /\ UNCHANGED <<kind, consumed, item, rows, executed, overlap, sweepVars>>

CountWritten(r) ==
  /\ IsSweep(r) /\ pc[r] = "write"
  /\ WriteLedger(consumed[r])
  /\ item' = [item EXCEPT ![r] = @ + 1]
  /\ Goto(r, "cell")
  /\ UNCHANGED <<kind, consumed, rows, executed, overlap, sweepVars>>

(* The summary, and the end. *)
FinishSweep(r) ==
  /\ IsSweep(r) /\ pc[r] = "cell" /\ item[r] > Cells
  /\ Goto(r, "ended")
  /\ UNCHANGED <<kind, consumed, item, rows, executed, overlap, ledgerVars,
                 sweepVars>>

SweepStep(r) ==
  \/ StartSweep(r) \/ PrescreenRefused(r) \/ DecompositionRefused(r)
  \/ SkipCell(r) \/ RunKernel(r) \/ KernelEnds(r) \/ Record(r) \/ CountTruncates(r) \/ CountWritten(r)
  \/ FinishSweep(r)
================================================================================
