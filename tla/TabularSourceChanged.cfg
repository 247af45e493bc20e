\* The check of the source size against a source that shrinks and grows again.
CONSTANTS
  MaxSegments = 5
  MaxConcurrency = 2
  Target = 2
  Slack = 1
  MaxSize = 5
  MaxChanges = 2
  Streams <- MCStreams
SPECIFICATION RoundTripSpec
INVARIANT EveryPublishedDecodes
