---------------------------- MODULE ManifestRun ----------------------------
(***************************************************************************)
(* A manifest-bound benchmark run (benchmark_runner.run_benchmark) and the *)
(* version-4 runner below it (runner.run_benchmark), while the manifest    *)
(* and the corpus files may be edited by somebody else.                    *)
(*                                                                         *)
(* A manifest is a version; Listing gives the items of each version with   *)
(* the digests it records, in the selected splits.  A file is its digest.  *)
(* One codec is measured; codecs do not interact.                          *)
(***************************************************************************)
EXTENDS Naturals

CONSTANTS Versions, Items, Digests, Listing,
          Garbage,        \* what a codec restores that is not exact
          MaxRepetitions, MaxManifestEdits, MaxFileEdits

RunAssumption ==
  /\ \A v \in Versions : /\ DOMAIN Listing[v] \subseteq Items
                         /\ \A i \in DOMAIN Listing[v] : Listing[v][i] \in Digests
  /\ Garbage \notin Digests

NoListing == [i \in {} |-> Garbage]
NoResults == [schema |-> 0]

VARIABLES
  manifest,   \* the version in the selected file
  turns,      \* edits of the manifest so far
  edited,     \* history: the steps before which it was edited
  putBack,    \* history: those before which the hashed version was put back
  file,       \* digest of each corpus file
  edits,      \* edits of corpus files so far
  step,
  sha,        \* manifest_sha256, as the version that was hashed
  expected,   \* expected_items
  staged,     \* the staged manifest
  corpus,     \* items of the version-4 run
  repetition, \* 0 for the warmup
  left,       \* items of the repetition still to be tried
  rows,       \* trial_rows
  results     \* results.json in the output directory

runVars == <<sha, expected, staged, corpus, repetition, left, rows, results>>
manifestHistory == <<turns, edited, putBack>>
corpusFiles == <<manifest, manifestHistory, file, edits>>
manifestVars == <<corpusFiles, step, runVars>>

RunInit ==
  /\ manifest \in Versions /\ turns = 0 /\ edited = {} /\ putBack = {}
  /\ edits = 0
  /\ file \in [Items -> Digests]
  /\ step = "hash" /\ sha = manifest
  /\ expected = NoListing /\ staged = NoListing /\ corpus = NoListing
  /\ repetition = 0 /\ left = {} /\ rows = {} /\ results = NoResults
------------------------------------------------------------------------------
HashManifest ==
  /\ step = "hash"
  /\ sha' = manifest
  /\ step' = "load"
  /\ UNCHANGED <<corpusFiles, expected, staged, corpus, repetition, left, rows, results>>

(* load_corpus_manifest: some item is selected, and every listed file has  *)
(* the recorded digest.                                                    *)
Loads(listing) ==
  DOMAIN listing # {} /\ \A i \in DOMAIN listing : file[i] = listing[i]

LoadExpected ==
  /\ step = "load"
  /\ IF Loads(Listing[manifest])
     THEN expected' = Listing[manifest] /\ step' = "stage"
     ELSE step' = "error" /\ UNCHANGED expected
  /\ UNCHANGED <<corpusFiles, sha, staged, corpus, repetition, left, rows, results>>

Stage ==
  /\ step = "stage"
  /\ staged' = Listing[manifest]
  /\ step' = "recheck"
  /\ UNCHANGED <<corpusFiles, sha, expected, corpus, repetition, left, rows, results>>

(* Mutant: what was staged is not compared with what was hashed. *)
StagesUnchecked ==
  /\ step = "recheck"
  /\ step' = "load staged"
  /\ UNCHANGED <<corpusFiles, runVars>>

(* "Corpus manifest changed while staging" *)
Recheck ==
  /\ step = "recheck"
  /\ step' = IF manifest = sha THEN "load staged" ELSE "error"
  /\ UNCHANGED <<corpusFiles, runVars>>

LoadStaged ==
  /\ step = "load staged"
  /\ IF Loads(staged)
     THEN /\ corpus' = staged
          /\ left' = DOMAIN staged
          /\ step' = "trials"
     ELSE step' = "error" /\ UNCHANGED <<corpus, left>>
  /\ UNCHANGED <<corpusFiles, sha, expected, staged, repetition, rows, results>>

(* Mutant: the restored file is compared with the source as it is now.     *)
ComparesWithSource ==
  \E i \in left : \E restored \in {file[i], Garbage} :
    /\ step = "trials"
    /\ left' = left \ {i}
    /\ rows' = IF repetition = 0 THEN rows
               ELSE rows \cup {[item |-> i, repetition |-> repetition,
                                read |-> file[i], roundtrip_ok |-> restored = file[i]]}
    /\ UNCHANGED <<corpusFiles, step, sha, expected, staged, corpus, repetition, results>>

(* _trial, in any order within a repetition: the codec compresses what the *)
(* file holds then; it may fail, or not restore it.                        *)
Trial ==
  \E i \in left : \E restored \in {file[i], Garbage} :
    /\ step = "trials"
    /\ left' = left \ {i}
    /\ rows' = IF repetition = 0 THEN rows
               ELSE rows \cup {[item |-> i, repetition |-> repetition,
                                read |-> file[i], roundtrip_ok |-> restored = corpus[i]]}
    /\ UNCHANGED <<corpusFiles, step, sha, expected, staged, corpus, repetition, results>>

NextRepetition ==
  /\ step = "trials" /\ left = {} /\ repetition < MaxRepetitions
  /\ repetition' = repetition + 1
  /\ left' = DOMAIN corpus
  /\ UNCHANGED <<corpusFiles, step, sha, expected, staged, corpus, rows, results>>

(* The run ends by an exception: from a trial, from closing the pool, or   *)
(* because no row is valid, so that there is no summary to take the best   *)
(* fixed codec from.                                                       *)
TrialsFail ==
  /\ step = "trials"
  /\ step' = "error"
  /\ UNCHANGED <<corpusFiles, runVars>>

(* The version-4 runner writes its results before anything is verified. *)
WriteLegacy ==
  /\ step = "trials" /\ left = {} /\ repetition = MaxRepetitions
  /\ \E row \in rows : row.roundtrip_ok
  /\ results' = [schema |-> 4, corpus |-> corpus, trials |-> rows]
  /\ step' = "ids"
  /\ UNCHANGED <<corpusFiles, sha, expected, staged, corpus, repetition, left, rows>>

CheckIds ==
  /\ step = "ids"
  /\ step' = IF DOMAIN corpus = DOMAIN expected THEN "manifest" ELSE "error"
  /\ UNCHANGED <<corpusFiles, runVars>>

(* Mutant: the manifest is not looked at again after the trials. *)
EndsUnchecked ==
  /\ step = "manifest"
  /\ step' = "write"
  /\ UNCHANGED <<corpusFiles, runVars>>

(* "Corpus manifest changed during the run" *)
CheckManifest ==
  /\ step = "manifest"
  /\ step' = IF manifest = sha THEN "write" ELSE "error"
  /\ UNCHANGED <<corpusFiles, runVars>>

WriteBound ==
  /\ step = "write"
  /\ results' = [schema |-> 5, corpus |-> corpus, trials |-> rows,
                 sha |-> sha, ids |-> DOMAIN expected]
  /\ step' = "ok"
  /\ UNCHANGED <<corpusFiles, sha, expected, staged, corpus, repetition, left, rows>>
------------------------------------------------------------------------------
EditManifest ==
  /\ step \notin {"ok", "error"} /\ turns < MaxManifestEdits
  /\ \E v \in Versions \ {manifest} :
       /\ manifest' = v
       /\ putBack' = IF step # "hash" /\ v = sha
                      THEN putBack \cup {step} ELSE putBack
  /\ turns' = turns + 1
  /\ edited' = edited \cup {step}
  /\ UNCHANGED <<file, edits, step, runVars>>

EditFile ==
  /\ step \notin {"ok", "error"} /\ edits < MaxFileEdits
  /\ \E i \in Items, d \in Digests : file' = [file EXCEPT ![i] = d]
  /\ edits' = edits + 1
  /\ UNCHANGED <<manifest, manifestHistory, step, runVars>>

Ended == step \in {"ok", "error"} /\ UNCHANGED manifestVars

Run ==
  \/ HashManifest \/ LoadExpected \/ Stage \/ Recheck \/ LoadStaged \/ Trial
  \/ NextRepetition \/ TrialsFail \/ WriteLegacy \/ CheckIds \/ CheckManifest
  \/ WriteBound

RunNext == Run \/ EditManifest \/ EditFile \/ Ended

RunSpec == RunInit /\ [][RunNext]_manifestVars
------------------------------------------------------------------------------
(* Where the manifest may change without the run having to notice: before  *)
(* it is hashed and after it was compared for the last time.               *)
Unbound == {"hash", "write"}

(* The manifest is read three times and its files are measured long after. *)
(* However it is edited meanwhile, all results - the version-4 ones, which *)
(* are written before the last check and stay when that fails, as well -   *)
(* score the items and digests of the version that was hashed, unless that *)
(* was changed and changed back between the hash and the check after       *)
(* staging; and version-5 results, which record the SHA-256, are written   *)
(* only if the manifest stood still until the trials were over, unless it  *)
(* was changed and changed back before the last check.  Even then the ids  *)
(* that are recorded are those of the corpus.                              *)
ScoreIsOfRecordedManifest ==
  /\ results.schema # 0 /\ putBack \cap {"load", "stage", "recheck"} = {}
       => results.corpus = Listing[sha]
  /\ results.schema = 5 /\ putBack \cap {"load", "stage", "recheck"} = {}
       => results.sha = sha /\ results.ids = DOMAIN Listing[sha]
  /\ results.schema = 5 => results.ids = DOMAIN results.corpus
  /\ results.schema = 5 /\ putBack \subseteq Unbound => edited \subseteq Unbound

(* A row that counts as valid was measured on the bytes its corpus entry   *)
(* names, even when the file was edited after the corpus was verified.     *)
ValidRowsMeasureTheCorpus ==
  results.schema # 0 =>
    \A row \in results.trials :
      row.roundtrip_ok => row.read = results.corpus[row.item]
==============================================================================
