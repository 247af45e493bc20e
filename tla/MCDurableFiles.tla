----------------------------- MODULE MCDurableFiles -----------------------------
(***************************************************************************)
(* Instances of FileWriters, ManifestRun and CorpusStore for TLC: what     *)
(* ends in a file that others read.  One run checks them all, each in      *)
(* behaviours of its own: the edits of manifest and files that ManifestRun *)
(* allows at any time include those of an importer, and the writers have   *)
(* a destination that is nobody else's.                                    *)
(***************************************************************************)
EXTENDS FileWriters, ManifestRun, TLC

CONSTANTS Importers, Relatives, Slug, Name, Rank, StoreContents, Size,
          Requests, StoreDigests, Absent, Torn, MaxImports, MaxCrashes, MaxEdits, MaxReads

VARIABLES which, source, document, stored, lock, importer, reader, used, history

Store == INSTANCE CorpusStore
           WITH manifest <- document, Digests <- StoreDigests, Contents <- StoreContents

storeVars ==
  <<source, document, stored, lock, importer, reader, used, history>>

ASSUME MCRunAssumption == RunAssumption
ASSUME MCStoreAssumption == Store!StoreAssumption

NoWriters ==
  /\ proto = [w \in Writers |-> "api"] /\ overwrite = [w \in Writers |-> FALSE]
  /\ pc = [w \in Writers |-> "check"] /\ temp = [w \in Writers |-> FALSE]
  /\ content = [w \in Writers |-> "absent"] /\ synced = [w \in Writers |-> FALSE]
  /\ dest = None /\ published = {} /\ removals = 0 /\ faults = 0
  /\ powerLost = FALSE

NoRun ==
  /\ manifest = "full" /\ turns = 0 /\ edited = {} /\ putBack = {}
  /\ file = <<"a", "a">> /\ edits = 0
  /\ step = "hash" /\ sha = "full" /\ expected = NoListing
  /\ staged = NoListing /\ corpus = NoListing /\ repetition = 0
  /\ left = {} /\ rows = {} /\ results = NoResults

NoStore ==
  /\ source = [f \in Relatives |-> "d1"] /\ document = Absent /\ lock = Absent
  /\ stored = [path \in Store!Paths |-> Absent]
  /\ importer = [p \in Importers |-> Store!Idle] /\ reader = Store!Idle
  /\ used = [imports |-> 0, crashes |-> 0, edits |-> 0, reads |-> 0]
  /\ history = [overlapped |-> FALSE, edited |-> FALSE,
                crossed |-> FALSE, interrupted |-> {}, imported |-> {}]

AnyInit ==
  \/ which = "writers" /\ Init /\ NoRun /\ NoStore
  \/ which = "run" /\ RunInit /\ NoWriters /\ NoStore
  \/ which = "store" /\ Store!Init /\ NoWriters /\ NoRun

AnyNext ==
  \/ which = "writers" /\ Next /\ UNCHANGED <<which, manifestVars, storeVars>>
  \/ which = "run" /\ RunNext /\ UNCHANGED <<which, vars, storeVars>>
  \/ which = "store" /\ Store!Next /\ UNCHANGED <<which, vars, manifestVars>>

AnySpec == AnyInit /\ [][AnyNext]_<<which, vars, manifestVars, storeVars>>

(* The store, as CorpusStore states it: an interrupted import is undone by *)
(* running it again, and a seal that verifies covers the whole holdout.    *)
StoreRecovers ==
  which = "store" => Store!RepairedByRepeating /\ Store!SealCoversHoldout
------------------------------------------------------------------------------
(* Three versions: one item dropped, and one with another digest. *)
MCListing ==
  [v \in Versions |->
     CASE v = "full"  -> [i \in {1, 2} |-> IF i = 1 THEN "a" ELSE "b"]
       [] v = "part"  -> [i \in {1} |-> "a"]
       [] v = "other" -> [i \in {1, 2} |-> "b"]]

Perms == Permutations(Importers)

(* Three source files: "A/x" and "a/x" have one slug; all have one name. *)
MCSlug == [f \in Relatives |-> IF f = "b/x" THEN "b-x" ELSE "a-x"]
MCName == [f \in Relatives |-> "x"]
MCRank == [f \in Relatives |-> CASE f = "A/x" -> 1 [] f = "a/x" -> 2 [] f = "b/x" -> 3]
MCSize == [d \in StoreDigests |-> IF d = "d1" THEN 1 ELSE 2]

(* Everywhere the same, or one file with another content. *)
MCStoreContents == {[f \in Relatives |-> "d1"],
               [f \in Relatives |-> IF f = "A/x" THEN "d2" ELSE "d1"]}

(* Imports are asked for two splits, and one of them for a file of both. *)
MCRequests == {[split |-> "train",   files |-> {"a/x"}],
               [split |-> "holdout", files |-> {"b/x"}],
               [split |-> "holdout", files |-> {"a/x", "A/x"}]}
==============================================================================
