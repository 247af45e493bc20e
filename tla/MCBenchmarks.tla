------------------------------ MODULE MCBenchmarks ------------------------------
(***************************************************************************)
(* Instances of WorkerPool, PublicValidation and EvidenceImport for TLC:   *)
(* how benchmarks run, what a validation makes of their results, and how   *)
(* evidence is taken over.  They share no state: one run checks all three, *)
(* each in behaviours of its own.                                          *)
(***************************************************************************)
EXTENDS WorkerPool, FiniteSets

CONSTANTS Nothing, Torn,
          MaxRuns, Items, Outcomes, PbcSizes, Baseline, ValidationFaults,
          Importers, MaxSeals, ImportFaults

VARIABLES
  which,
  suite, content, listing, root, at, dir, loaded, hashed, todo, sound, sizes,
  made, scores, receipt, result, pbc, reading, decision, publication, faults,
  crossed, replaced,
  files, sums, place, verified, staging, output, temp, taken, text, open,
  mishaps, disturbed

Validation == INSTANCE PublicValidation
                WITH None <- Nothing, MaxFaults <- ValidationFaults

Importing == INSTANCE EvidenceImport
               WITH None <- Nothing, MaxFaults <- ImportFaults, pc <- place,
                    receipt <- taken, faults <- mishaps

benchmarkVars ==
  <<suite, content, listing, root, at, dir, loaded, hashed, todo, sound, sizes,
    made, scores, receipt, result, pbc, reading, decision, publication, faults,
    crossed, replaced>>
importVars ==
  <<files, sums, place, verified, staging, output, temp, taken, text, open,
    mishaps, disturbed>>
allVars == <<which, vars, benchmarkVars, importVars>>

ASSUME MCValidationAssumption == Validation!ValidationAssumption
ASSUME MCImportAssumption == Importing!ImportAssumption

NoValidation ==
  /\ suite = "clue" /\ faults = 0 /\ crossed = FALSE /\ replaced = {}
  /\ Validation!CorpusInit /\ Validation!RunsInit /\ Validation!FilesInit

(* A runner that had nothing to do. *)
NoPool ==
  /\ pc = "closed" /\ request = 0 /\ codec = CHOOSE c \in Codecs : TRUE
  /\ worker = None /\ then = "run" /\ closed = {} /\ spawned = 0 /\ escaped = FALSE
  /\ workers = [c \in Codecs |-> None]
  /\ outcome = [r \in Requests |-> "none"]
  /\ proc = [w \in Procs |-> "none"] /\ job = [w \in Procs |-> None]
  /\ child = [w \in Procs |-> None]
  /\ inbox = [w \in Procs |-> <<>>] /\ responses = [w \in Procs |-> <<>>]
  /\ unflushed = {} /\ immortal = {}

BenchmarksInit ==
  \/ which = "pool" /\ Init /\ NoValidation /\ Importing!ImportInit
  \/ which = "validation" /\ Validation!ValidationInit /\ NoPool /\ Importing!ImportInit
  \/ which = "import" /\ Importing!ImportInit /\ NoPool /\ NoValidation

BenchmarksNext ==
  \/ which = "pool" /\ Next /\ UNCHANGED <<which, benchmarkVars, importVars>>
  \/ which = "validation" /\ Validation!ValidationNext /\ UNCHANGED <<which, vars, importVars>>
  \/ which = "import" /\ Importing!ImportNext /\ UNCHANGED <<which, vars, benchmarkVars>>

PoolRuns == which = "pool" /\ Runner /\ UNCHANGED <<which, benchmarkVars, importVars>>

BenchmarksSpec ==
  BenchmarksInit /\ [][BenchmarksNext]_allVars /\ WF_allVars(PoolRuns)

(* Validations and imports: see PublicValidation and EvidenceImport. *)
PassIsEarned == which = "validation" => Validation!PassIsEarned
EvidenceIsOneAttempt == which = "validation" => Validation!EvidenceIsOneAttempt
ImportIsWhole == which = "import" => Importing!ImportIsWhole
------------------------------------------------------------------------------
(* Two families; the candidate's sizes pass both ratios, miss one family,  *)
(* or pass in a run that fails otherwise.                                  *)
MCOutcomes ==
  {[bytes |-> <<18, 18>>, good |-> TRUE], [bytes |-> <<18, 20>>, good |-> TRUE],
   [bytes |-> <<18, 18>>, good |-> FALSE]}

MCFaults == [clue |-> 1, tbl1 |-> 2, dms2 |-> 2, jls2 |-> 2]
===============================================================================
