\* A compression that fails after writing to its artifact leaves no receipt
CONSTANTS
  c1 = c1
  c2 = c2
  i1 = i1
  None = None
  Scripts = {"census"}
  Codecs = {c1, c2}
  Items = {i1}
  Redirected = {c1}
  Runs <- MCRuns
  Schedules <- TwoCodecSchedules
  Gates = {0}
  Repetitions = 1
  MaxEdits = 1
  MaxUpsets = 1
  Sweepers = {r1}
  Cap = 4
  Cells = 1
  Before = 2
  Snapshots = 2
  Initial <- InitialCounts
  MaxFaults = 0
SPECIFICATION EitherSpec
INVARIANTS FailuresStayVisible
CHECK_DEADLOCK FALSE
