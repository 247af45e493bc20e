\* Two sweeps, one after the other, without any fault.
CONSTANTS
  c1 = c1
  c2 = c2
  i1 = i1
  None = None
  Scripts = {"census"}
  Codecs = {c2}
  Items = {i1}
  Redirected = {}
  Runs <- MCRuns
  Schedules <- OneCodecSchedules
  Gates = {0}
  Repetitions = 2
  MaxEdits = 0
  MaxUpsets = 0
  Sweepers = {r1, r2}
  Cap = 4
  Cells = 1
  Before = 2
  Snapshots = 2
  Initial <- InitialCounts
  MaxFaults = 0
SPECIFICATION EitherSpec
INVARIANTS MeasuredIsFresh
CHECK_DEADLOCK FALSE
