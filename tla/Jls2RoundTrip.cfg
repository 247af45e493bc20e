\* Five segments through up to three threads, and readers on up to four segments.
CONSTANTS
  MaxSegments = 5
  MaxWorkers = 3
  PythonStreams <- MCPythonStreams
  NativeStreams <- MCNativeStreams
SPECIFICATION FairRoundTrip
INVARIANTS PublishedDecodes BoundedPending SameVerdictAsMemory NativeVerdict ReadsBack
PROPERTIES EveryCallEnds ImplementsOrderedStream ReadersImplementOrderedStream
