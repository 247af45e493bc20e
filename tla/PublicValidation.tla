---------------------------- MODULE PublicValidation ----------------------------
(***************************************************************************)
(* The one-time public validations: a runner measures a frozen candidate   *)
(* and its competitors on a frozen corpus and leaves results and a receipt *)
(* (benchmark-*-public-validation*.py), PBC is run beside it               *)
(* (benchmark-pbc-competitor.py), an evaluator decides                     *)
(* (evaluate-*-public-validation*.py), and the decision is published and   *)
(* may be imported.                                                        *)
(*                                                                         *)
(* Suites: "clue" (both versions), "tbl1" and "dms2", whose runners own a  *)
(* directory, and "jls2", whose runner rewrites one file.  Of the corpus a *)
(* version is kept: what the files hold, what the manifest lists, and what *)
(* the manifest of the corpus root lists, which may be another file and    *)
(* list more.  Sizes are kept for the candidate and PBC; the strongest of  *)
(* the other codecs has Baseline.  "good" stands for all that a            *)
(* measurement may miss: a failed or inexact trial, speed, memory,         *)
(* determinism, fallback.  A digest of a file is the file's content.       *)
(***************************************************************************)
EXTENDS Integers, Sequences, FiniteSets, FiniteSetsExt

CONSTANTS MaxRuns, Items, None, Outcomes, PbcSizes, Baseline, MaxFaults

Suites == {"clue", "tbl1", "dms2", "jls2"}

(* What the constants must be. *)
ValidationAssumption ==
  /\ MaxRuns \in Nat /\ IsFiniteSet(Items) /\ Baseline \in Nat /\ MaxFaults \in [Suites -> Nat]
  /\ Outcomes \subseteq [bytes : [Items -> Nat], good : BOOLEAN] /\ PbcSizes \subseteq Nat

(* Runs and directories are numbered as they are first used. *)
Runs == 1..MaxRuns
Dirs == 1..MaxRuns

Versions == {1, 2}

(* What a runner does between its attempt and its receipt. *)
Stages ==
  [clue |-> <<"performance", "proof", "accepted">>,
   tbl1 |-> <<"performance", "memory", "proof">>,
   dms2 |-> <<"baseline", "baseline_memory", "performance", "memory">>,
   jls2 |-> [i \in 1..Cardinality(Items) |-> "family"]]

ResultFiles == {"performance", "memory", "baseline", "baseline_memory", "accepted"}

VARIABLES
  suite,
  content,  \* version of the corpus files
  listing,  \* version the manifest lists
  root,     \* what the manifest of the corpus root lists
  at,       \* where each run is
  dir,      \* output directory of each run
  loaded,   \* version a run loaded its items from
  hashed,   \* version whose digest is in its attempt
  todo,     \* stages left
  sound,    \* the proof a run holds in memory
  sizes,    \* what a run of jls2 measures
  made,     \* directories that exist
  scores,   \* result files of each directory
  receipt,  \* receipt of each directory
  result,   \* the file of jls2
  pbc,      \* the result of PBC
  reading,  \* what an evaluator has read and not yet bound
  decision, publication,
  faults,   \* edits, failures and kills so far
  crossed,  \* a file was replaced while an evaluator worked
  replaced  \* when result files were replaced from outside

corpusVars == <<content, listing, root>>
runVars == <<at, dir, loaded, hashed, todo, sound, sizes>>
fileVars == <<made, scores, receipt, result>>
verdictVars == <<reading, decision, publication>>
validationVars == <<suite, corpusVars, runVars, fileVars, pbc, verdictVars,
                    faults, crossed, replaced>>

NoScores == [f \in ResultFiles |-> None]

CorpusInit == content = 1 /\ listing = 1 /\ root = [version |-> 1, more |-> FALSE]

RunsInit ==
  /\ at = [r \in Runs |-> "idle"] /\ dir = [r \in Runs |-> None]
  /\ loaded = [r \in Runs |-> 1] /\ hashed = [r \in Runs |-> 1]
  /\ todo = [r \in Runs |-> <<>>] /\ sound = [r \in Runs |-> FALSE]
  /\ sizes = [r \in Runs |-> None]

FilesInit ==
  /\ made = {} /\ scores = [d \in Dirs |-> NoScores]
  /\ receipt = [d \in Dirs |-> None] /\ result = None /\ pbc = None
  /\ reading = None /\ decision = None /\ publication = None

ValidationInit ==
  /\ suite \in Suites
  /\ CorpusInit /\ RunsInit /\ FilesInit
  /\ faults = 0 /\ crossed = FALSE /\ replaced = {}
------------------------------------------------------------------------------
(* The corpus is fetched anew, a file edited, or a further item listed in  *)
(* the root.                                                               *)
EditCorpus ==
  /\ faults < MaxFaults[suite] /\ faults' = faults + 1
  /\ \/ \E v \in Versions \ {listing} :
          content' = v /\ listing' = v /\ root' = [root EXCEPT !.version = v]
     \/ \E v \in Versions \ {content} : content' = v /\ UNCHANGED <<listing, root>>
     \/ ~root.more /\ root' = [root EXCEPT !.more = TRUE] /\ UNCHANGED <<content, listing>>
  /\ UNCHANGED <<suite, runVars, fileVars, pbc, verdictVars, crossed, replaced>>

(* A run is started; jls2 does not look whether its output exists.  Only   *)
(* clue is given files of several directories: the others get one.         *)
Start(r, d) ==
  /\ at[r] = "idle" /\ \A q \in Runs : q < r => at[q] # "idle"
  /\ IF suite = "clue" THEN d <= r ELSE d = 1
  /\ at' = [at EXCEPT ![r] = IF d \in made /\ suite # "jls2" THEN "refused" ELSE "preflight"]
  /\ dir' = [dir EXCEPT ![r] = d]
  /\ UNCHANGED <<suite, corpusVars, loaded, hashed, todo, sound, sizes,
                 fileVars, pbc, verdictVars, faults, crossed, replaced>>

(* verify_manifest compares every item with its file; jls2 only loads the  *)
(* items.                                                                  *)
Preflight(r) ==
  /\ at[r] = "preflight"
  /\ at' = [at EXCEPT ![r] = IF suite = "jls2" \/ content = listing
                             THEN "attempt" ELSE "refused"]
  /\ loaded' = [loaded EXCEPT ![r] = listing]
  /\ UNCHANGED <<suite, corpusVars, dir, hashed, todo, sound, sizes, fileVars,
                 pbc, verdictVars, faults, crossed, replaced>>

(* Its other checks: tracked files, frozen paths, lock, versions, load. *)
ChecksRefuse(r) ==
  /\ at[r] = "preflight"
  /\ at' = [at EXCEPT ![r] = "refused"]
  /\ UNCHANGED <<suite, corpusVars, dir, loaded, hashed, todo, sound, sizes,
                 fileVars, pbc, verdictVars, faults, crossed, replaced>>

(* mkdir without exist_ok, and the attempt with the manifest's digest. *)
Attempt(r) ==
  /\ at[r] = "attempt"
  /\ IF suite # "jls2" /\ dir[r] \in made
     THEN at' = [at EXCEPT ![r] = "refused"] /\ UNCHANGED <<hashed, todo, made>>
     ELSE /\ at' = [at EXCEPT ![r] = "scoring"]
          /\ hashed' = [hashed EXCEPT ![r] = listing]
          /\ todo' = [todo EXCEPT ![r] = Stages[suite]]
          /\ made' = made \cup {dir[r]}
  /\ UNCHANGED <<suite, corpusVars, dir, loaded, sound, sizes, scores, receipt,
                 result, pbc, verdictVars, faults, crossed, replaced>>

(* Mutant: mkdir(exist_ok=True). *)
AttemptAnyway(r) ==
  /\ at[r] = "attempt"
  /\ at' = [at EXCEPT ![r] = "scoring"]
  /\ hashed' = [hashed EXCEPT ![r] = listing]
  /\ todo' = [todo EXCEPT ![r] = Stages[suite]]
  /\ made' = made \cup {dir[r]}
  /\ UNCHANGED <<suite, corpusVars, dir, loaded, sound, sizes, scores, receipt,
                 result, pbc, verdictVars, faults, crossed, replaced>>

Does(r, stage) == at[r] = "scoring" /\ todo[r] # <<>> /\ Head(todo[r]) = stage

Done(r) == todo' = [todo EXCEPT ![r] = Tail(@)]

Result(r, corpus, more, bytes, good) ==
  [by |-> r, corpus |-> corpus, more |-> more, bytes |-> bytes, good |-> good]

(* What a stage may measure: the candidate's sizes, where it has any. *)
Measures(stage) ==
  IF stage = "performance" THEN Outcomes ELSE [bytes : {None}, good : BOOLEAN]

(* run_benchmark stages the listed items and raises when one differs from  *)
(* its file.  Only clue names the manifest; the others take the root's.    *)
Listed == IF suite = "clue" THEN [version |-> listing, more |-> FALSE] ELSE root

Benchmark(r) ==
  /\ \E stage \in {"performance", "memory", "baseline", "baseline_memory"} :
       /\ Does(r, stage)
       /\ suite = "dms2" => stage \in {"baseline", "baseline_memory"}
       /\ content = Listed.version
       /\ \E m \in Measures(stage) :
            scores' = [scores EXCEPT ![dir[r]][stage] =
              Result(r, Listed.version, Listed.more, m.bytes, m.good)]
  /\ Done(r)
  /\ UNCHANGED <<suite, corpusVars, at, dir, loaded, hashed, sound, sizes, made,
                 receipt, result, pbc, verdictVars, faults, crossed, replaced>>

(* run_candidate_performance of dms2 reads the files of the loaded items,  *)
(* records whether they came back, and keeps the proof.                    *)
CandidatePerformance(r) ==
  /\ suite = "dms2" /\ Does(r, "performance")
  /\ \E m \in Measures("performance") :
       /\ m.good => content = loaded[r]
       /\ scores' = [scores EXCEPT ![dir[r]].performance =
            Result(r, loaded[r], FALSE, m.bytes, m.good)]
       /\ sound' = [sound EXCEPT ![r] = m.good]
  /\ Done(r)
  /\ UNCHANGED <<suite, corpusVars, at, dir, loaded, hashed, sizes, made, receipt,
                 result, pbc, verdictVars, faults, crossed, replaced>>

CandidateMemory(r) ==
  /\ suite = "dms2" /\ Does(r, "memory")
  /\ \E m \in Measures("memory") :
       /\ m.good => content = loaded[r]
       /\ scores' = [scores EXCEPT ![dir[r]].memory =
            Result(r, loaded[r], FALSE, m.bytes, m.good)]
  /\ Done(r)
  /\ UNCHANGED <<suite, corpusVars, at, dir, loaded, hashed, sound, sizes, made,
                 receipt, result, pbc, verdictVars, faults, crossed, replaced>>

Proves(r, verdict) ==
  /\ Does(r, "proof")
  /\ verdict => content = loaded[r]
  /\ sound' = [sound EXCEPT ![r] = verdict]
  /\ Done(r)
  /\ UNCHANGED <<suite, corpusVars, at, dir, loaded, hashed, sizes, fileVars,
                 pbc, verdictVars, faults, crossed, replaced>>

(* candidate_proof of clue raises when an item fails it; the proof of tbl1 *)
(* records that.                                                           *)
CandidateProof(r) == suite = "clue" /\ Proves(r, TRUE)
DeterministicProof(r) == suite = "tbl1" /\ \E verdict \in BOOLEAN : Proves(r, verdict)

(* write_pbc_accepted, from the results on disk. *)
Accept(r) ==
  /\ Does(r, "accepted")
  /\ LET performance == scores[dir[r]].performance
     IN  /\ performance # None /\ performance.corpus = loaded[r]
         /\ scores' = [scores EXCEPT ![dir[r]].accepted =
              Result(r, loaded[r], FALSE, performance.bytes, TRUE)]
  /\ Done(r)
  /\ UNCHANGED <<suite, corpusVars, at, dir, loaded, hashed, sound, sizes, made,
                 receipt, result, pbc, verdictVars, faults, crossed, replaced>>

(* The receipt binds the result files as they are now. *)
WriteReceipt(r) ==
  /\ suite # "jls2" /\ at[r] = "scoring" /\ todo[r] = <<>>
  /\ receipt' = [receipt EXCEPT ![dir[r]] =
       [by |-> r, completed |-> TRUE, manifest |-> hashed[r],
        scores |-> scores[dir[r]], sound |-> sound[r]]]
  /\ at' = [at EXCEPT ![r] = "ended"]
  /\ UNCHANGED <<suite, corpusVars, dir, loaded, hashed, todo, sound, sizes, made,
                 scores, result, pbc, verdictVars, faults, crossed, replaced>>

(* An exception after the attempt: the receipt says so. *)
Fail(r) ==
  /\ suite # "jls2" /\ at[r] = "scoring"
  /\ receipt' = [receipt EXCEPT ![dir[r]] =
       [by |-> r, completed |-> FALSE, manifest |-> hashed[r],
        scores |-> NoScores, sound |-> FALSE]]
  /\ at' = [at EXCEPT ![r] = "ended"]
  /\ UNCHANGED <<suite, corpusVars, dir, loaded, hashed, todo, sound, sizes, made,
                 scores, result, pbc, verdictVars, faults, crossed, replaced>>

(* A run is killed, or one of jls2 raises: neither leaves a receipt. *)
Kill(r) ==
  /\ at[r] \in {"attempt", "scoring"} /\ faults < MaxFaults[suite]
  /\ at' = [at EXCEPT ![r] = "ended"] /\ faults' = faults + 1
  /\ UNCHANGED <<suite, corpusVars, dir, loaded, hashed, todo, sound, sizes,
                 fileVars, pbc, verdictVars, crossed, replaced>>

(* jls2: a family is compared with its listing and measured, and the file  *)
(* is replaced by all the rows so far.                                     *)
Checkpoint(r, left, completed, m) ==
  result' = [by |-> r, manifest |-> hashed[r], corpus |-> loaded[r], bytes |-> m.bytes,
             good |-> m.good, left |-> left, completed |-> completed]

Family(r) ==
  /\ Does(r, "family") /\ content = loaded[r]
  /\ \E m \in IF sizes[r] = None THEN Outcomes ELSE {sizes[r]} :
       /\ sizes' = [sizes EXCEPT ![r] = m]
       /\ Checkpoint(r, Len(todo[r]) - 1, FALSE, m)
  /\ Done(r)
  /\ crossed' = (crossed \/ reading # None)
  /\ UNCHANGED <<suite, corpusVars, at, dir, loaded, hashed, sound, made, scores,
                 receipt, pbc, verdictVars, faults, replaced>>

Complete(r) ==
  /\ suite = "jls2" /\ at[r] = "scoring" /\ todo[r] = <<>>
  /\ Checkpoint(r, 0, TRUE, sizes[r])
  /\ at' = [at EXCEPT ![r] = "ended"]
  /\ crossed' = (crossed \/ reading # None)
  /\ UNCHANGED <<suite, corpusVars, dir, loaded, hashed, todo, sound, sizes, made,
                 scores, receipt, pbc, verdictVars, faults, replaced>>

(* Somebody measures again into a directory of results. *)
Replace(d, f) ==
  /\ scores[d][f] # None /\ f # "accepted" /\ faults < MaxFaults[suite]
  /\ \E m \in Measures(f) :
       scores' = [scores EXCEPT ![d][f] = Result(None, content, FALSE, m.bytes, m.good)]
  /\ faults' = faults + 1
  /\ replaced' = replaced \cup {IF receipt[d] = None THEN "before_receipt" ELSE "after_receipt"}
  /\ crossed' = (crossed \/ reading # None)
  /\ UNCHANGED <<suite, corpusVars, runVars, made, receipt, result, pbc, verdictVars>>
------------------------------------------------------------------------------
(* PBC runs on the manifest's items, of which each must have an accepted   *)
(* row, and rewrites its output after every family.                        *)
Accepted(d) == IF suite = "jls2" THEN result ELSE scores[d].accepted

PbcBegins(d) ==
  /\ suite \in {"clue", "jls2"} /\ Accepted(d) # None
  /\ suite = "jls2" => Accepted(d).left = 0
  /\ content = listing
  /\ \E size \in PbcSizes :
       pbc' = [manifest |-> listing, accepted |-> Accepted(d), size |-> size, whole |-> FALSE]
  /\ crossed' = (crossed \/ reading # None)
  /\ UNCHANGED <<suite, corpusVars, runVars, fileVars, verdictVars, faults, replaced>>

PbcEnds ==
  /\ pbc # None /\ ~pbc.whole /\ content = pbc.manifest
  /\ pbc' = [pbc EXCEPT !.whole = TRUE]
  /\ crossed' = (crossed \/ reading # None)
  /\ UNCHANGED <<suite, corpusVars, runVars, fileVars, verdictVars, faults, replaced>>
------------------------------------------------------------------------------
(* At least five percent below the strongest competitor, in all families   *)
(* of clue and jls2, in as many as the gates want of the others.           *)
Gains(bytes, strongest, percent) == (strongest - bytes) * 100 >= percent * strongest

Total(bytes) == MapThenSumSet(LAMBDA i : bytes[i], Items)

MinFamilies == [clue |-> Cardinality(Items), jls2 |-> Cardinality(Items),
                tbl1 |-> Cardinality(Items) - 1, dms2 |-> Cardinality(Items) - 1]

Ratio(bytes, strongest, percent) ==
  /\ Cardinality({i \in Items : Gains(bytes[i], strongest, 5)}) >= MinFamilies[suite]
  /\ Gains(Total(bytes), strongest * Cardinality(Items), percent)

Strongest == IF reading.pbc.size < Baseline THEN reading.pbc.size ELSE Baseline

(* An evaluator reads its arguments.  The one of clue takes receipt and    *)
(* performance apart.  It refuses when a decision exists; what the others  *)
(* would replace it by is what they decide here when it is their first.    *)
Read(d, e) ==
  /\ suite # "jls2" /\ reading = None /\ decision = None /\ receipt[d] # None
  /\ IF suite = "clue"
     THEN receipt[d].completed /\ scores[e].performance # None /\ pbc # None
     ELSE d = e
  /\ reading' = [dir |-> d, other |-> e, receipt |-> receipt[d], scores |-> scores[e],
                 pbc |-> pbc, listing |-> listing, result |-> None]
  /\ UNCHANGED <<suite, corpusVars, runVars, fileVars, pbc, decision, publication,
                 faults, crossed, replaced>>

ReadResult ==
  /\ suite = "jls2" /\ reading = None /\ decision = None /\ result # None /\ pbc # None
  /\ reading' = [dir |-> None, other |-> None, receipt |-> None, scores |-> NoScores,
                 pbc |-> pbc, listing |-> listing, result |-> result]
  /\ UNCHANGED <<suite, corpusVars, runVars, fileVars, pbc, decision, publication,
                 faults, crossed, replaced>>

(* clue: evaluate raises on an incomplete or failed input, and checks that *)
(* PBC had the same source bytes.                                          *)
ClueInputs ==
  /\ reading.pbc.whole
  /\ reading.pbc.manifest = reading.scores.performance.corpus

ClueGates ==
  /\ reading.scores.performance.good /\ reading.receipt.sound
  /\ Ratio(reading.scores.performance.bytes, Strongest, 5)

(* Mutant: the digests of the result files are not compared. *)
NoDigests == TRUE

(* tbl1 and dms2: result_digests, manifest_digest, frozen_corpus,          *)
(* manifest_identity and shared_corpus, then the rest.                     *)
ResultDigests == reading.receipt.scores = scores[reading.dir]

OneCorpus(files) ==
  /\ reading.receipt.manifest = listing
  /\ \A f \in files : reading.scores[f].corpus = reading.listing /\ ~reading.scores[f].more

TableGates ==
  /\ ResultDigests /\ OneCorpus({"performance", "memory"})
  /\ \A f \in {"performance", "memory"} : reading.scores[f].good
  /\ reading.receipt.sound
  /\ Ratio(reading.scores.performance.bytes, Baseline, 5)

DenseGates ==
  /\ ResultDigests /\ OneCorpus({"performance", "baseline", "baseline_memory"})
  /\ \A f \in {"performance", "memory", "baseline", "baseline_memory"} :
       reading.scores[f].good
  /\ reading.receipt.sound
  /\ Ratio(reading.scores.performance.bytes, Baseline, 5)

(* jls2: the same manifest, and PBC ran for just this result. *)
LogGates ==
  /\ reading.result.completed /\ reading.result.good
  /\ reading.result.manifest = reading.pbc.manifest
  /\ reading.pbc.accepted = result
  /\ Ratio(reading.result.bytes, Baseline, 10)
  /\ \A i \in Items : reading.result.bytes[i] < reading.pbc.size

LogInputs ==
  /\ reading.pbc.whole /\ reading.result.left = 0
  /\ reading.pbc.manifest = reading.result.corpus
  /\ reading.pbc.accepted.bytes = reading.result.bytes

(* The decision binds the files as they are when it is written. *)
Decide ==
  /\ reading # None
  /\ LET d == reading.dir
         passed == CASE suite = "clue" -> ClueGates
                     [] suite = "tbl1" -> reading.receipt.completed /\ TableGates
                     [] suite = "dms2" -> reading.receipt.completed /\ DenseGates
                     [] suite = "jls2" -> LogGates
     IN  /\ suite = "clue" => ClueInputs
         /\ suite = "jls2" => LogInputs
         /\ decision' = [passed |-> passed, basis |-> reading,
                         sources |-> IF d = None THEN <<result, pbc>>
                                     ELSE <<receipt[d], scores[reading.other].performance, pbc>>]
  /\ reading' = None
  /\ UNCHANGED <<suite, corpusVars, runVars, fileVars, pbc, publication, faults,
                 crossed, replaced>>

(* It raises, or is stopped. *)
GivesUp ==
  /\ reading # None
  /\ \/ suite = "clue" /\ ~ClueInputs
     \/ suite = "jls2" /\ ~LogInputs
  /\ reading' = None
  /\ UNCHANGED <<suite, corpusVars, runVars, fileVars, pbc, decision, publication,
                 faults, crossed, replaced>>

(* publish of clue: four bindings, then the copies, the bundle last; one   *)
(* that stops in between is never repeated.                                *)
Bound(d, e) == decision.sources = <<receipt[d], scores[e].performance, pbc>>

PublishBegins(d, e) ==
  /\ suite = "clue" /\ publication = None /\ decision # None /\ Bound(d, e)
  /\ publication' = [bundle |-> FALSE, dir |-> d, other |-> e, copies |-> None]
  /\ UNCHANGED <<suite, corpusVars, runVars, fileVars, pbc, reading, decision,
                 faults, crossed, replaced>>

PublishEnds ==
  /\ publication # None /\ ~publication.bundle
  /\ publication' =
       [publication EXCEPT !.bundle = TRUE,
          !.copies = <<decision, receipt[publication.dir], scores[publication.other].performance, pbc>>]
  /\ UNCHANGED <<suite, corpusVars, runVars, fileVars, pbc, reading, decision,
                 faults, crossed, replaced>>

Run(r) ==
  \/ (\E d \in Dirs : Start(r, d)) \/ Preflight(r) \/ ChecksRefuse(r) \/ Attempt(r)
  \/ Benchmark(r) \/ CandidatePerformance(r) \/ CandidateMemory(r)
  \/ CandidateProof(r) \/ DeterministicProof(r) \/ Accept(r)
  \/ WriteReceipt(r) \/ Fail(r) \/ Kill(r) \/ Family(r) \/ Complete(r)

(* What the properties do not speak of, and what comes after it: a file    *)
(* replaced between being judged and being hashed, and results replaced    *)
(* before the receipt binds them, or in clue at any time: nobody compares  *)
(* them with the receipt.                                                  *)
Excluded ==
  crossed \/ "before_receipt" \in replaced \/ (suite = "clue" /\ replaced # {})

ValidationNext ==
  /\ ~Excluded
  /\ \/ EditCorpus
     \/ \E r \in Runs : Run(r)
     \/ \E d \in Dirs : PbcBegins(d) \/ \E f \in ResultFiles : Replace(d, f)
     \/ PbcEnds \/ ReadResult \/ Decide \/ GivesUp \/ PublishEnds
     \/ \E d, e \in Dirs : Read(d, e) \/ PublishBegins(d, e)

ValidationSpec == ValidationInit /\ [][ValidationNext]_validationVars
------------------------------------------------------------------------------
(* Mutant: the importer trusts the bundle's own digests. *)
ImportableBundle(d) ==
  /\ decision # None /\ publication # None /\ publication.bundle
  /\ receipt[d] # None

(* validate_evidence: the decision's sources and the publication's copies  *)
(* are the files of the one directory that is imported.                    *)
Importable(d) ==
  /\ decision # None /\ publication # None /\ publication.bundle
  /\ Bound(d, d)
  /\ publication.copies = <<decision, receipt[d], scores[d].performance, pbc>>

(* A passed decision of tbl1, dms2 or jls2 is about one attempt: all it    *)
(* judged was measured by one run on one corpus, which is the manifest's,  *)
(* and PBC measured the same bytes; whatever runs shared the output, were  *)
(* killed, or were followed by edits of corpus, manifest and results.      *)
PassIsEarned ==
  decision # None /\ suite # "clue" /\ decision.passed /\ ~Excluded =>
    LET b == decision.basis
        measured == {b.scores[f] : f \in ResultFiles} \ {None}
    IN IF suite = "jls2"
       THEN /\ b.result.completed /\ b.pbc.whole
            /\ b.pbc.accepted = b.result
            /\ b.pbc.manifest = b.result.corpus
       ELSE /\ \A m \in measured : m.by = b.receipt.by
            /\ \A m, n \in measured : m.corpus = n.corpus
            /\ b.receipt.sound

(* Evidence of clue that the importer takes and that says "passed" is of   *)
(* one attempt: receipt, results and PBC belong together and the ratio     *)
(* holds against PBC too, although evaluator and publisher accept files of *)
(* different directories.                                                  *)
EvidenceIsOneAttempt ==
  suite = "clue" /\ ~Excluded =>
    \A d \in Dirs : Importable(d) /\ decision.passed =>
      LET performance == scores[d].performance
      IN /\ receipt[d].completed /\ receipt[d].sound
         /\ performance.by = receipt[d].by
         /\ receipt[d].scores.performance = performance
         /\ pbc.whole /\ pbc.manifest = performance.corpus
         /\ \A i \in Items : Gains(performance.bytes[i], pbc.size, 5)
==============================================================================
