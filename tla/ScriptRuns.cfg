\* Six scripts: two runs that overlap, are killed and resume, one failure, one edit,
\* and the publisher; or two runs of any moon script over two cells, one fault, a
\* cap of four.
CONSTANTS
    c1 = c1
    c2 = c2
    i1 = i1
    None = None
    Scripts = {"census", "structural", "record", "longrange", "bwt", "wikitext"}
    Codecs = {c2}
    Items = {i1}
    Redirected = {}
    Runs <- MCRuns
    Schedules <- OneCodecSchedules
    Gates = {0, 1}
    Repetitions = 2
    MaxEdits = 1
    MaxUpsets = 1
    Sweepers = {r1, r2}
    Cap = 4
    Cells = 2
    Before = 2
    Snapshots = 2
    Initial <- InitialCounts
    MaxFaults = 1
SPECIFICATION EitherSpec
SYMMETRY SomeSweepers
INVARIANTS ResultsOfOneBinding EvidenceReproduces FailureReceiptsAreFinal
INVARIANTS DispatchedStaysCharged OneWholeAttempt SweepsAccount
CHECK_DEADLOCK FALSE
