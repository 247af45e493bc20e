------------------------- MODULE TextSourcePublishers -------------------------
(***************************************************************************)
(* The text/source benchmarks together with their publishers               *)
(* (scripts/publish-text-source-*.py).  A publisher reads results.json and *)
(* the config, reads every trial receipt, four of the six of them twice,   *)
(* checks what it has read, and promotes a staged directory.  A directory  *)
(* that is there already is only ever compared, or refused.  Nothing keeps *)
(* a run from replacing results or receipts, or anybody from editing the   *)
(* config, while a publisher is at work.                                   *)
(***************************************************************************)
EXTENDS TextSourceTrials

VARIABLES place,        \* where the publisher is
          loaded,       \* the results it has read
          settings,     \* the config it has read, or None
          next,         \* index of the receipt it reads next
          seen,         \* the receipts it has read this time
          noted,        \* failed receipts counted at the first reading
          publication   \* what has been published, or None
publisher == <<place, loaded, settings, next, seen, noted, publication>>
vars == <<trialVars, publisher>>

PublisherInit ==
    /\ place = "idle" /\ loaded = None /\ settings = None /\ next = 1
    /\ seen = NoRows /\ noted = 0 /\ publication = None

(* The publisher is over.                                                  *)
Leave == /\ place' = "idle" /\ loaded' = None /\ settings' = None
         /\ next' = 1 /\ seen' = NoRows /\ noted' = 0
Refuse == Leave /\ UNCHANGED publication

Load(step, read) ==
    /\ place = "idle" /\ results # None
    /\ place' = step /\ loaded' = results /\ settings' = read
    /\ UNCHANGED <<next, seen, noted, publication>>

(* The publishers of the screens want complete results of the config that  *)
(* is in the tree.  They read the two files one after the other; here this *)
(* is one step.                                                            *)
LoadBound(step) ==
    /\ Load(step, config)
    /\ results.complete /\ results.binding.config = config

(* The receipts are read one file at a time.                               *)
ReadReceipt ==
    /\ place \in {"raw", "evidence"} /\ next <= Len(Schedule)
    /\ next' = next + 1
    /\ seen' = [seen EXCEPT ![Schedule[next]] = receipts[Schedule[next]]]
    /\ UNCHANGED <<place, loaded, settings, noted, publication>>

(* The receipts of a first reading are checked and dropped; a publisher    *)
(* that reads a config reads results and config again.                     *)
FirstReading(accepted, failures) ==
    /\ place = "raw" /\ next > Len(Schedule)
    /\ IF accepted
       THEN /\ place' = "evidence" /\ next' = 1 /\ seen' = NoRows
            /\ noted' = failures
            /\ loaded' = IF settings = None THEN loaded ELSE results
            /\ settings' = IF settings = None THEN None ELSE config
            /\ UNCHANGED publication
       ELSE Refuse

(* Those of the last reading become the evidence.                          *)
LastReading(accepted) ==
    /\ place = "evidence" /\ next > Len(Schedule)
    /\ IF accepted
       THEN place' = "publish"
            /\ UNCHANGED <<loaded, settings, next, seen, noted, publication>>
       ELSE Refuse

(* Every receipt is there and names the bindings of the results, and the   *)
(* measured ones give their summary.                                       *)
Consistent(read, results_) ==
    /\ \A t \in Trials : read[t] # None /\ read[t].binding = results_.binding
    /\ Summary(read) = results_.summary
Failures(read) == Cardinality({t \in Trials : ~read[t].passed})

(* Every receipt passed as well, the warm-ups too.                         *)
Reproduce(read, results_) == Consistent(read, results_) /\ Failures(read) = 0
-----------------------------------------------------------------------------
(* The census: only a complete one is published.                           *)
LoadCensus == script = "census" /\ Load("raw", None) /\ results.complete
ValidateReceipts ==
    script = "census" /\ FirstReading(Reproduce(seen, loaded), 0)

(* Mutant: what was validated at the first reading is not validated again. *)
ValidatedBefore == script = "census" /\ LastReading(TRUE)
(* validate_public_evidence.                                               *)
ValidateEvidence ==
    script = "census" /\ LastReading(Reproduce(seen, loaded))

(* derive: the comparison names, for each item, the codec of the smallest  *)
(* artifact.                                                               *)
Leader(summary, item) ==
    CHOOSE c \in Codecs : \A d \in Codecs :
        summary[<<c, item>>].artifact <= summary[<<d, item>>].artifact
-----------------------------------------------------------------------------
(* The structural probe: failed trials are published, and counted.         *)
LoadProbe == script = "structural" /\ Load("raw", None)
ValidateStructural ==
    script = "structural" /\ FirstReading(Consistent(seen, loaded), Failures(seen))
ValidateStructuralEvidence ==
    script = "structural" /\ LastReading(Consistent(seen, loaded))
-----------------------------------------------------------------------------
(* Record neighbourhoods and long range: the run is verified, and then all *)
(* is read again and not compared with what was verified.  Only a          *)
(* rejection is published.                                                 *)
LoadRecord == script = "record" /\ LoadBound("raw")
VerifyRecord == script = "record" /\ FirstReading(Reproduce(seen, loaded), 0)
DeriveRecord ==
    script = "record" /\ LastReading(AllPassed(loaded.summary)
                                    /\ ~RecordAdmits(loaded.summary))

LoadLongRange == script = "longrange" /\ LoadBound("raw")
VerifyLongRange ==
    script = "longrange" /\ FirstReading(Reproduce(seen, loaded), 0)
DeriveLongRange ==
    script = "longrange" /\ LastReading(AllPassed(loaded.summary)
                                       /\ ~LongRangeAdmits(loaded.summary))
-----------------------------------------------------------------------------
(* BWT and WK-C1 read the receipts once.  Only a rejection of the former   *)
(* is published; the latter has to have the receipts its results name.     *)
LoadBwt == script = "bwt" /\ LoadBound("evidence")
ReconstructBwt ==
    script = "bwt"
    /\ LastReading(Reproduce(seen, loaded) /\ ~BwtAdmits(loaded.summary))

LoadWikitext == script = "wikitext" /\ LoadBound("evidence")
ValidateStrict ==
    script = "wikitext"
    /\ LastReading(Reproduce(seen, loaded) /\ loaded.more.manifest = seen)
-----------------------------------------------------------------------------
Comparison(results_, failures) ==
    [binding |-> results_.binding, failures |-> failures,
     leader |-> IF script # "census" THEN None
                ELSE [item \in Items |-> Leader(results_.summary, item)]]

(* A publication that exists has to be this one byte for byte.             *)
Publish ==
    /\ place = "publish" /\ Leave
    /\ publication' = IF publication # None THEN publication
                      ELSE [results |-> loaded, config |-> settings,
                            evidence |-> seen,
                            comparison |-> Comparison(loaded, noted)]

PublisherNext ==
    \/ LoadCensus \/ LoadProbe \/ LoadRecord \/ LoadLongRange \/ LoadBwt
    \/ LoadWikitext \/ ReadReceipt
    \/ ValidateReceipts \/ ValidateStructural \/ VerifyRecord \/ VerifyLongRange
    \/ ValidateEvidence \/ ValidateStructuralEvidence \/ DeriveRecord
    \/ DeriveLongRange \/ ReconstructBwt \/ ValidateStrict
    \/ Publish

RunNext ==
    \/ \E r \in Runs : \/ Census(r) \/ Probe(r) \/ RecordScreen(r)
                       \/ LongRangeScreen(r) \/ BwtScreen(r) \/ WikitextScreen(r)
                       \/ Kill(r)
    \/ Edit \/ Commit

SourceInit == Init /\ PublisherInit
SourceNext == \/ RunNext /\ UNCHANGED publisher
              \/ PublisherNext /\ UNCHANGED trialVars
SourceSpec == SourceInit /\ [][SourceNext]_vars

(***************************************************************************)
(* Properties.                                                             *)
(***************************************************************************)

(* The rows a run goes by, and so the results it writes, were all measured *)
(* under the bindings it names, whichever runs of whichever commits have   *)
(* used the directory before or do so at the same time.  The results of an *)
(* attempt that runs have shared one after the other are the attempt's.    *)
ResultsOfOneBinding ==
    /\ \A r \in Runs : \A t \in AllTrials :
          rows[r][t] # None => rows[r][t].binding = bound[r]
    /\ (script \in {"census", "structural"} /\ ~overlapped /\ results # None)
          => results.binding = attempt

(* What a published directory says for itself, without the directory of    *)
(* the runs (scripts/verify-text-source-*-publication.py): its receipts    *)
(* give its results, and these its comparison.                             *)
CensusVerified(p) ==
    /\ p.results.complete /\ Reproduce(p.evidence, p.results)
    /\ p.comparison = Comparison(p.results, 0)
StructuralVerified(p) ==
    /\ Consistent(p.evidence, p.results)
    /\ p.comparison = Comparison(p.results, Failures(p.evidence))
ScreenVerified(p) ==
    /\ p.results.complete /\ Reproduce(p.evidence, p.results)
    /\ p.results.binding.config = p.config
WikitextVerified(p) ==
    ScreenVerified(p) /\ p.results.more.manifest = p.evidence

(* Whatever runs do to the directory between the publisher's readings, a   *)
(* publication is one that can be verified without the directory.  Where a *)
(* publisher compares nothing with its first reading, no two runs may have *)
(* shared the directory, and nobody edited the config since the run.       *)
EvidenceReproduces ==
    publication # None =>
        CASE script = "census" -> CensusVerified(publication)
          [] script = "structural" ->
               ~overlapped => StructuralVerified(publication)
          [] script \in {"record", "longrange"} ->
               (~overlapped /\ config = publication.results.binding.config)
                   => ScreenVerified(publication)
          [] script = "bwt" -> ScreenVerified(publication)
          [] script = "wikitext" -> WikitextVerified(publication)

FailuresOf(binding) == {f \in failed : f[2] = binding}

(* A failure that left a receipt is final: resuming does not measure the   *)
(* trial again, so every publication under its bindings shows it, unless   *)
(* two runs have shared the directory at once.  All but the structural     *)
(* publisher publish no failed trial, so there is none.                    *)
FailureReceiptsAreFinal ==
    publication # None /\ ~overlapped =>
        \A f \in FailuresOf(publication.results.binding) :
            f[3] => /\ script = "structural"
                    /\ ~publication.evidence[f[1]].passed

(* What docs/benchmarks/2026-07-17-text-source-baseline-census-protocol.md *)
(* says of every failure: timeouts and nonzero exits remain visible and    *)
(* cannot be counted as wins.                                              *)
FailuresStayVisible ==
    publication # None /\ ~overlapped =>
        FailuresOf(publication.results.binding) = {}
=============================================================================
