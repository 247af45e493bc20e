--------------------------- MODULE TextSourceTrials ---------------------------
(***************************************************************************)
(* What the text/source benchmarks have in common: the baseline census,    *)
(* the structural probe and the record, long-range, BWT and WK-C1 screens  *)
(* (scripts/benchmark-text-source-*.py).  One invocation of a script, a    *)
(* run, binds itself to a commit and a configuration and goes through a    *)
(* frozen schedule: a trial that has a receipt is taken over from an       *)
(* earlier run, any other is measured and its receipt promoted atomically. *)
(* When the schedule is done the summary is written to results.json.  A    *)
(* run may be killed at any moment and another one started, in the same    *)
(* directory, before or after that.  How each script binds, resumes,       *)
(* measures and finishes comes after what they share.                      *)
(*                                                                         *)
(* A measured time or peak is stood for by the number of the run that      *)
(* measured it, and an artifact by a member of a small set, its size, so   *)
(* that a codec whose artifacts are not reproducible can be told from one  *)
(* whose are.  A version of the tracked tree is a number; its commit has   *)
(* the same number.                                                        *)
(***************************************************************************)
EXTENDS Naturals, Sequences, FiniteSets

CONSTANTS Runs,         \* the invocations of the script, numbered
          Scripts,      \* the scripts a directory may belong to
          Codecs, Items,
          Redirected,   \* the codecs whose standard output is the artifact
          Repetitions,  \* measured repetitions; repetition 0 is the warm-up
          Schedules,    \* of each script: its trials in the shuffled order
          Gates,        \* artifact sizes up to which a screen may admit
          MaxEdits,     \* bound: edits of the tracked tree
          MaxUpsets,    \* bound: failing processes and differing artifacts
          None

AllTrials == Codecs \X Items \X (0..Repetitions)
Codec(t) == t[1]
Warmup(t) == t[3] = 0

KnownScripts == {"census", "structural", "record", "longrange", "bwt", "wikitext"}
WithoutWarmups == {"record", "longrange", "bwt", "wikitext"}

Bindings == [commit : Nat, config : Nat \union {None}]

(* What a receipt says: the bindings and the run of its measurement.       *)
Receipts == [binding : Bindings, by : Runs, passed : BOOLEAN,
             artifact : Nat \union {None}]

(* A schedule is every trial of the script once, and has at least one.     *)
ScheduleAssumption ==
    /\ Runs \subseteq Nat \ {0} /\ Redirected \subseteq Codecs
    /\ Scripts \subseteq KnownScripts /\ Gates \subseteq Nat
    /\ None \notin Nat /\ None \notin Bindings /\ None \notin Receipts
    /\ \A s \in Scripts :
         LET trials == {t \in AllTrials : s \in WithoutWarmups => ~Warmup(t)} IN
         /\ Schedules[s] \in Seq(trials) /\ Schedules[s] # <<>>
         /\ Len(Schedules[s]) = Cardinality(trials)
         /\ \A t \in trials : \E i \in 1..Len(Schedules[s]) : Schedules[s][i] = t
ASSUME ScheduleAssumption

VARIABLES
    script, gate,       \* whose directory it is, and what its screen admits
    head, config,       \* the commit checked out; the config in the tree
    pc, bound, at, rows,\* of each run: place, bindings, next trial, rows so far
    draft,              \* and the results it is about to write
    attempt, receipts, results,  \* the output directory
    upsets,             \* how often a process misbehaved
    failed, overlapped  \* history: failures and whether two runs ever overlapped

screen == <<script, gate>>
tree == <<head, config>>
work == <<bound, at, rows, draft>>   \* what a run holds in memory
directory == <<attempt, receipts, results>>
trialVars == <<screen, tree, pc, work, directory, upsets, failed,
               overlapped>>

Schedule == Schedules[script]
Trials == {Schedule[i] : i \in DOMAIN Schedule}
NoRows == [t \in AllTrials |-> None]
Live == {"commit", "preflight", "bind", "record", "look", "measure", "finish",
         "write"}

Init ==
    /\ script \in Scripts /\ gate \in Gates
    /\ head = 1 /\ config = 1
    /\ pc = [r \in Runs |-> "idle"] /\ bound = [r \in Runs |-> None]
    /\ at = [r \in Runs |-> 1] /\ rows = [r \in Runs |-> NoRows]
    /\ draft = [r \in Runs |-> None]
    /\ attempt = None /\ receipts = NoRows /\ results = None
    /\ upsets = 0 /\ failed = {} /\ overlapped = FALSE

(***************************************************************************)
(* The summary of a run's rows: a pair of codec and item passed when every *)
(* measured repetition passed and all gave one artifact.  Medians, peaks   *)
(* and the resource limits on them are functions of the rows a pair has.   *)
(***************************************************************************)
Pairs == Codecs \X Items
Group(seen, pair) == {seen[t] : t \in {u \in Trials : <<u[1], u[2]>> = pair /\ ~Warmup(u)}}
Peak(group) == CHOOSE by \in {row.by : row \in group} :
                  \A row \in group : row.by <= by

Passed(group) ==
    /\ \A row \in group : row.passed
    /\ Cardinality({row.artifact : row \in group} \ {None}) = 1

Summary(seen) ==
    [pair \in Pairs |->
        LET group == Group(seen, pair) IN
        [passed |-> Passed(group), peak |-> Peak(group),
         artifact |-> IF Passed(group)
                      THEN CHOOSE a \in {row.artifact : row \in group} : a # None
                      ELSE None]]
AllPassed(summary) == \A pair \in Pairs : summary[pair].passed
Signals(summary, pair) == summary[pair].passed /\ summary[pair].artifact <= gate

(***************************************************************************)
(* The steps the scripts share.                                            *)
(***************************************************************************)
Go(r, place) == pc' = [pc EXCEPT ![r] = place]
(* The run is over, and what it held in memory is gone.                    *)
End(r, place) == /\ Go(r, place) /\ at' = [at EXCEPT ![r] = 1]
                 /\ bound' = [bound EXCEPT ![r] = None]
                 /\ rows' = [rows EXCEPT ![r] = NoRows]
                 /\ draft' = [draft EXCEPT ![r] = None]
Advance(r) ==
    IF at[r] = Len(Schedule) THEN Go(r, "finish") /\ UNCHANGED at
    ELSE Go(r, "look") /\ at' = [at EXCEPT ![r] = @ + 1]

Enter(r, place, binding) ==
    /\ pc[r] = "idle" /\ \A q \in Runs : q < r => pc[q] # "idle"
    /\ Go(r, place) /\ bound' = [bound EXCEPT ![r] = binding]
    /\ overlapped' = (overlapped \/ \E q \in Runs : pc[q] \in Live)
    /\ UNCHANGED <<screen, tree, at, rows, draft, directory, upsets, failed>>

(* Only a clean tracked tree is measured.                                  *)
CleanTree == head = config

(* The screens read their config first and the commit afterwards.          *)
ReadConfig(r) ==
    /\ script \in WithoutWarmups
    /\ Enter(r, "commit", [commit |-> None, config |-> config])

(* repository_commit; the other inputs may be refused too.                 *)
ReadCommit(r, place) ==
    /\ pc[r] = "commit"
    /\ \/ /\ CleanTree /\ Go(r, place)
          /\ bound' = [bound EXCEPT ![r].commit = head]
          /\ UNCHANGED <<at, rows, draft>>
       \/ End(r, "refused")
    /\ UNCHANGED <<screen, tree, directory, upsets, failed, overlapped>>

JoinAttempt(r) ==
    /\ pc[r] = "bind"
    /\ \/ /\ attempt \in {None, bound[r]}
          /\ Go(r, IF attempt = None THEN "record" ELSE "look")
          /\ UNCHANGED work
       \/ attempt \notin {None, bound[r]} /\ End(r, "refused")
    /\ UNCHANGED <<screen, tree, directory, upsets, failed, overlapped>>

RecordAttempt(r) ==
    /\ pc[r] = "record" /\ Go(r, "look") /\ attempt' = bound[r]
    /\ UNCHANGED <<screen, tree, bound, at, rows, draft, receipts, results,
                   upsets, failed, overlapped>>

(* Mutant: a receipt is taken over whatever bindings it names.             *)
OfAnyRun(r, receipt) == TRUE
(* The identity every script asks of a receipt it finds.                   *)
OfThisBinding(r, receipt) == receipt.binding = bound[r]

(* Mutant: a failed trial is measured again.                               *)
RetriesFailures(r) ==
    LET t == Schedule[at[r]] IN
    IF receipts[t] = None THEN TRUE ELSE ~receipts[t].passed
(* A trial is measured when it has no receipt.                             *)
ToMeasure(r) == receipts[Schedule[at[r]]] = None

Found(r) == receipts[Schedule[at[r]]]
Look(r, accepted) ==
    /\ pc[r] = "look"
    /\ IF ToMeasure(r) THEN Go(r, "measure") /\ UNCHANGED work
       ELSE IF accepted
       THEN /\ Advance(r) /\ rows' = [rows EXCEPT ![r][Schedule[at[r]]] = Found(r)]
            /\ UNCHANGED <<bound, draft>>
       ELSE End(r, "refused")
    /\ UNCHANGED <<screen, tree, directory, upsets, failed, overlapped>>

(* The receipt is promoted by a rename, over one another run has left in   *)
(* the meantime.                                                           *)
Record(r, passed, artifact) ==
    LET t == Schedule[at[r]]
        row == [binding |-> bound[r], by |-> r, passed |-> passed,
                artifact |-> artifact] IN
    /\ receipts' = [receipts EXCEPT ![t] = row]
    /\ rows' = [rows EXCEPT ![r][t] = row]
    /\ Advance(r)
Failure(r, receipt) == <<Schedule[at[r]], bound[r], receipt>>
Upset == upsets < MaxUpsets /\ upsets' = upsets + 1

(* Every process succeeds and the bytes come back.  The artifact may       *)
(* differ from the usual one.                                              *)
MeasureExact(r) ==
    /\ pc[r] = "measure"
    /\ \/ Record(r, TRUE, 1) /\ UNCHANGED upsets
       \/ Upset /\ Record(r, TRUE, 2)
    /\ UNCHANGED <<screen, tree, bound, draft, attempt, results, failed,
                   overlapped>>

(* Decompression fails, is stopped or does not give the item's bytes back. *)
MeasureInexact(r) ==
    /\ pc[r] = "measure" /\ Upset
    /\ Record(r, FALSE, 1)
    /\ failed' = failed \union {Failure(r, TRUE)}
    /\ UNCHANGED <<screen, tree, bound, draft, attempt, results, overlapped>>

(* Compression fails or is stopped, and the receipt says so.               *)
MeasureNotCompressed(r) ==
    /\ pc[r] = "measure" /\ Upset
    /\ Record(r, FALSE, None)
    /\ failed' = failed \union {Failure(r, TRUE)}
    /\ UNCHANGED <<screen, tree, bound, draft, attempt, results, overlapped>>

(* Compression fails, and what is made of it is an error of the script:    *)
(* the run ends without a receipt.                                         *)
MeasureCrashes(r) ==
    /\ pc[r] = "measure" /\ Upset
    /\ End(r, "crashed")
    /\ failed' = failed \union {Failure(r, FALSE)}
    /\ UNCHANGED <<screen, tree, directory, overlapped>>

Result(r, complete, more) ==
    [binding |-> bound[r], summary |-> Summary(rows[r]), complete |-> complete,
     more |-> more]

(* results.json is replaced.                                               *)
ReplaceResults(r, result) ==
    /\ pc[r] = "finish" /\ End(r, "done") /\ results' = result
    /\ UNCHANGED <<screen, tree, attempt, receipts, upsets, failed, overlapped>>

(* A results.json that exists must be equal to the one just computed.  The *)
(* test and the write are two steps, and two runs may both come to write.  *)
KeepResults(r, result) ==
    /\ pc[r] = "finish"
    /\ IF results = None
       THEN Go(r, "write") /\ draft' = [draft EXCEPT ![r] = result]
            /\ UNCHANGED <<bound, at, rows>>
       ELSE End(r, IF results = result THEN "done" ELSE "refused")
    /\ UNCHANGED <<screen, tree, directory, upsets, failed, overlapped>>
WriteResults(r) ==
    /\ pc[r] = "write" /\ End(r, "done") /\ results' = draft[r]
    /\ UNCHANGED <<screen, tree, attempt, receipts, upsets, failed, overlapped>>

Kill(r) ==
    /\ pc[r] \in Live /\ End(r, "killed")
    /\ UNCHANGED <<screen, tree, directory, upsets, failed, overlapped>>

(* Somebody edits the config, somebody commits it.                         *)
Edit ==
    /\ config <= MaxEdits /\ config' = config + 1
    /\ UNCHANGED <<screen, head, pc, work, directory, upsets, failed,
                   overlapped>>
Commit ==
    /\ head # config /\ head' = config
    /\ UNCHANGED <<screen, config, pc, work, directory, upsets, failed,
                   overlapped>>
-------------------------------------------------------------------------------
(* The baseline census (scripts/benchmark-text-source-baselines.py) and    *)
(* the structural probe.  The census reads the commit, tries every codec   *)
(* on a small fixture, and only then hashes the config; an attempt in the  *)
(* directory is joined or opened.                                          *)

Start(r) ==
    /\ CleanTree
    /\ Enter(r, "preflight", [commit |-> head, config |-> None])

(* Every codec has to bring the fixture back.                              *)
Preflight(r) ==
    /\ pc[r] = "preflight"
    /\ \/ /\ Go(r, "bind") /\ bound' = [bound EXCEPT ![r].config = config]
          /\ UNCHANGED <<at, rows, draft>>
       \/ End(r, "refused")
    /\ UNCHANGED <<screen, tree, directory, upsets, failed, overlapped>>

(* validate_existing_trial: a receipt of the same bindings is taken over,  *)
(* passed or not; the rest of its fields hold for any receipt of the       *)
(* script.                                                                 *)
Accepts(r, receipt) == OfThisBinding(r, receipt)

(* A codec that writes to standard output always leaves an artifact.  When *)
(* compression fails with one, the row reads a size that was never         *)
(* assigned, and main does not catch that error.                           *)
NotCompressed(r) ==
    \/ Codec(Schedule[at[r]]) \notin Redirected /\ MeasureNotCompressed(r)
    \/ MeasureCrashes(r)

Trial(r) ==
    \/ Look(r, Accepts(r, Found(r)))
    \/ MeasureExact(r) \/ MeasureInexact(r) \/ NotCompressed(r)

Finish(r) == ReplaceResults(r, Result(r, AllPassed(Summary(rows[r])), None))

Census(r) ==
    /\ script = "census"
    /\ \/ Start(r) \/ Preflight(r) \/ JoinAttempt(r) \/ RecordAttempt(r)
       \/ Trial(r) \/ Finish(r)
------------------------------------------------------------------------------
(* The structural probe                                                    *)
(* (scripts/benchmark-text-source-structural-transform.py): no config, a   *)
(* commit and a baseline, an attempt like the census.  A directory with a  *)
(* failed receipt cannot be resumed.                                       *)
StartProbe(r) ==
    /\ CleanTree
    /\ Enter(r, "bind", [commit |-> head, config |-> None])

(* validate_existing_trial wants a receipt that passed.                    *)
ProbeAccepts(r, receipt) == OfThisBinding(r, receipt) /\ receipt.passed

ProbeTrial(r) ==
    \/ Look(r, ProbeAccepts(r, Found(r)))
    \/ MeasureExact(r) \/ MeasureInexact(r) \/ MeasureNotCompressed(r)

FinishProbe(r) == ReplaceResults(r, Result(r, AllPassed(Summary(rows[r])), None))

Probe(r) ==
    /\ script = "structural"
    /\ \/ StartProbe(r) \/ JoinAttempt(r) \/ RecordAttempt(r)
       \/ ProbeTrial(r) \/ FinishProbe(r)
-------------------------------------------------------------------------------
(* The screens: record neighbourhoods, long range, BWT and WK-C1           *)
(* (scripts/benchmark-text-source-record-neighborhood-screen.py,           *)
(* ...-long-range-screen.py, ...-bwt-screen.py, ...-wk-c1-screen.py).      *)
(* They read the config, then the commit; they open no attempt, have no    *)
(* warm-ups, and keep the results that are there.                          *)

(* Record neighbourhoods: only receipts that passed are taken over.        *)
RecordAccepts(r, receipt) == OfThisBinding(r, receipt) /\ receipt.passed

RecordTrial(r) ==
    \/ Look(r, RecordAccepts(r, Found(r)))
    \/ MeasureExact(r) \/ MeasureInexact(r) \/ MeasureNotCompressed(r)

(* Admitted when every item of both tracks is within the gate.             *)
RecordAdmits(summary) == \A pair \in Pairs : Signals(summary, pair)

RecordScreen(r) ==
    /\ script = "record"
    /\ \/ ReadConfig(r) \/ ReadCommit(r, "look") \/ RecordTrial(r)
       \/ KeepResults(r, Result(r, AllPassed(Summary(rows[r])), None))
       \/ WriteResults(r)
-----------------------------------------------------------------------------
(* Long range and BWT: each variant has to bring a fixture back first.     *)
ScreenPreflight(r) ==
    /\ pc[r] = "preflight"
    /\ \/ Go(r, "look") /\ UNCHANGED work
       \/ End(r, "refused")
    /\ UNCHANGED <<screen, tree, directory, upsets, failed, overlapped>>

LongRangeAccepts(r, receipt) == OfThisBinding(r, receipt)

LongRangeTrial(r) ==
    \/ Look(r, LongRangeAccepts(r, Found(r)))
    \/ MeasureExact(r) \/ MeasureInexact(r) \/ MeasureNotCompressed(r)

(* Admitted when one variant is within the gate on every item.             *)
LongRangeAdmits(summary) ==
    \E c \in Codecs : \A item \in Items : Signals(summary, <<c, item>>)

LongRangeScreen(r) ==
    /\ script = "longrange"
    /\ \/ ReadConfig(r) \/ ReadCommit(r, "preflight") \/ ScreenPreflight(r)
       \/ LongRangeTrial(r)
       \/ KeepResults(r, Result(r, AllPassed(Summary(rows[r])), None))
       \/ WriteResults(r)

(* A track, here an item, is not rejected when one variant is within its   *)
(* gate.                                                                   *)
BwtAdmits(summary) == \E pair \in Pairs : Signals(summary, pair)

BwtScreen(r) ==
    /\ script = "bwt"
    /\ \/ ReadConfig(r) \/ ReadCommit(r, "preflight") \/ ScreenPreflight(r)
       \/ LongRangeTrial(r)
       \/ KeepResults(r, Result(r, AllPassed(Summary(rows[r])), None))
       \/ WriteResults(r)
-----------------------------------------------------------------------------
(* WK-C1: a preflight, and then a measured rehearsal whose rows go into    *)
(* the results.                                                            *)
ResourceSmoke(r) == ScreenPreflight(r)

WikitextAccepts(r, receipt) == OfThisBinding(r, receipt)

(* An encoder that fails may leave part of its output, and inspecting a    *)
(* part shorter than its header is an error of the script.                 *)
WikitextTrial(r) ==
    \/ Look(r, WikitextAccepts(r, Found(r)))
    \/ MeasureExact(r) \/ MeasureInexact(r) \/ MeasureNotCompressed(r)
    \/ MeasureCrashes(r)

(* The results name the receipts that are on disk at that moment, and what *)
(* the rehearsal of this run has measured.                                 *)
FinishWikitext(r) ==
    KeepResults(r, Result(r, \A t \in Trials : rows[r][t].passed,
                          [smoke |-> r, manifest |-> receipts]))

WikitextScreen(r) ==
    /\ script = "wikitext"
    /\ \/ ReadConfig(r) \/ ReadCommit(r, "preflight") \/ ResourceSmoke(r)
       \/ WikitextTrial(r) \/ FinishWikitext(r) \/ WriteResults(r)
=============================================================================
