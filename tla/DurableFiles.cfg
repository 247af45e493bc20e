\* Two calls of any of the five protocols, one deletion, two failing unlinks.
\* The store: three imports by two processes, one crash, one edit, two reads.
\* The run: three manifests, two files, two repetitions, two edits of each kind.
CONSTANTS
  Writers = {w1, w2}
  None = None
  Old = Old
  MaxRemovals = 1
  MaxFaults = 2
  Versions = {"full", "part", "other"}
  Items = {1, 2}
  Digests = {"a", "b"}
  Listing <- MCListing
  Garbage = "x"
  MaxRepetitions = 2
  MaxManifestEdits = 2
  MaxFileEdits = 2
  Importers = {p, q}
  Relatives = {"a/x", "A/x", "b/x"}
  Slug <- MCSlug
  Name <- MCName
  Rank <- MCRank
  StoreDigests = {"d1", "d2"}
  Size <- MCSize
  StoreContents <- MCStoreContents
  Requests <- MCRequests
  Absent = Absent
  Torn = Torn
  MaxImports = 3
  MaxCrashes = 1
  MaxEdits = 1
  MaxReads = 2
SPECIFICATION AnySpec
SYMMETRY Perms
INVARIANTS DestinationComplete OneWinner NoResidue FailureIsClean
INVARIANTS StoreRecovers ScoreIsOfRecordedManifest ValidRowsMeasureTheCorpus
PROPERTIES ImplementsPublishOnce
CHECK_DEADLOCK FALSE
