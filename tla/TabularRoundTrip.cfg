\* Sources of up to five bytes in chunks of two with a slack of one, up to two
\* threads, two changes of the source and one exchange of the file.
CONSTANTS
  MaxSegments = 5
  MaxConcurrency = 2
  Target = 2
  Slack = 1
  MaxSize = 5
  MaxChanges = 2
  Streams <- MCStreams
SPECIFICATION FairRoundTrip
INVARIANTS BoundedInFlight ReaderVerdict ReadsBack
PROPERTIES EveryCallEnds
