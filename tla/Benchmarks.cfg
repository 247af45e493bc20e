\* The pool: two codecs, three operations, two worker processes: one codec restarted
\* or both served.  Validations: two runs of each suite over two families, one fault
\* in clue, two in the others.  Imports: two importers, two faults, one resealing.
CONSTANTS
  Codecs = {c1, c2}
  MaxRequests = 3
  MaxSpawns = 2
  Nothing = Nothing
  Torn = Torn
  MaxRuns = 2
  Items = {1, 2}
  Outcomes <- MCOutcomes
  PbcSizes = {18, 20}
  Baseline = 20
  ValidationFaults <- MCFaults
  Importers = {i1, i2}
  MaxSeals = 1
  ImportFaults = 2
SPECIFICATION BenchmarksSpec
INVARIANTS OwnAnswers NoStrayWorkers MeasuredApart
INVARIANTS PassIsEarned EvidenceIsOneAttempt ImportIsWhole
PROPERTY RunnerEnds
CHECK_DEADLOCK FALSE
