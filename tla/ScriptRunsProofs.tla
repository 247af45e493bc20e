--------------------------- MODULE ScriptRunsProofs ----------------------------
(***************************************************************************)
(* The results of the text/source benchmarks are of one binding, what      *)
(* their publishers publish can be verified without the runs' directory,   *)
(* and failures that left a receipt are final: for any number of runs,     *)
(* trials, edits and commits.  The ledger of the moon scripts keeps every  *)
(* charge, the diagnostic has one attempt, which its manifest vouches for  *)
(* as a whole, and the sweeps account for every kernel: for any number of  *)
(* runs, cells, snapshots, kills and power losses.                         *)
(***************************************************************************)
EXTENDS MCScriptRuns, FiniteSetTheorems, SequenceTheorems, TLAPS

(* The scripts whose runs share an attempt.                                *)
Sharing == {"census", "structural"}

Shape ==
    /\ DOMAIN pc = Runs /\ DOMAIN bound = Runs /\ DOMAIN rows = Runs
    /\ \A r \in Runs : DOMAIN rows[r] = AllTrials
    /\ head \in Nat /\ config \in Nat

(* A run that may still change its binding has no rows.                    *)
NoRowsYet ==
    \A r \in Runs : pc[r] \in {"idle", "commit", "preflight"} => rows[r] = NoRows

RowsOfBinding ==
    \A r \in Runs : \A t \in AllTrials :
        rows[r][t] # None => rows[r][t].binding = bound[r]

AtMostOneLive ==
    ~overlapped => \A q, r \in Runs : pc[q] \in Live /\ pc[r] \in Live => q = r

SharersBound ==
    script \in Sharing =>
        \A r \in Runs : /\ pc[r] \in Live => bound[r] \in Bindings
                        /\ pc[r] \notin {"commit", "write"}

(* Without an overlap a run past JoinAttempt works for the attempt, one    *)
(* about to open it has found none, and results are the attempt's.         *)
OneAttemptAtATime ==
    (script \in Sharing /\ ~overlapped) =>
        /\ results # None => attempt # None /\ results.binding = attempt
        /\ \A r \in Runs :
              /\ pc[r] = "record" => attempt = None
              /\ pc[r] \in {"look", "measure", "finish"}
                    => attempt # None /\ bound[r] = attempt

IInv == /\ Shape /\ NoRowsYet /\ RowsOfBinding
        /\ AtMostOneLive /\ SharersBound /\ OneAttemptAtATime

LEMMA InitIInv == SourceInit => IInv
  BY DEF SourceInit, Init, IInv, Shape, NoRowsYet, RowsOfBinding, AtMostOneLive,
         SharersBound, OneAttemptAtATime, Live, Sharing, NoRows

(* A step between places of one run that keeps its rows and its binding.   *)
LEMMA Moves ==
  ASSUME IInv, NEW r \in Runs, NEW goal, Go(r, goal), pc[r] \in Live,
         goal \in {"bind", "preflight"} => pc[r] = "preflight",
         goal \in {"look", "measure", "finish"} =>
            \/ pc[r] \in {"look", "measure", "finish"}
            \/ script \notin Sharing
            \/ attempt # None /\ bound[r] = attempt,
         goal = "record" => attempt = None,
         goal = "write" => script \notin Sharing,
         goal \in Live \ {"commit"},
         UNCHANGED <<screen, tree, bound, rows, attempt, results, overlapped>>
  PROVE  IInv'
<1> USE DEF IInv, Go, screen, tree
<1>1. Shape' /\ RowsOfBinding'
  BY DEF Shape, RowsOfBinding
<1>2. NoRowsYet'
  BY DEF Shape, NoRowsYet, Live
<1>3. AtMostOneLive'
  BY DEF Shape, AtMostOneLive
<1>4. SharersBound'
  BY DEF Shape, SharersBound, Live
<1>5. OneAttemptAtATime'
  BY DEF Shape, OneAttemptAtATime
<1>6. QED
  BY <1>1, <1>2, <1>3, <1>4, <1>5

(* A run that is over has neither binding nor rows.                        *)
LEMMA Ends ==
  ASSUME IInv, NEW r \in Runs, NEW goal, End(r, goal), pc[r] \in Live,
         goal \in {"refused", "crashed", "killed", "done"},
         UNCHANGED <<screen, tree, attempt, results, overlapped>>
  PROVE  IInv'
<1> USE DEF IInv, End, Go, screen, tree
<1>1. Shape'
  BY DEF Shape, NoRows
<1>2. NoRowsYet' /\ RowsOfBinding'
  BY DEF Shape, NoRowsYet, RowsOfBinding, NoRows
<1>3. AtMostOneLive'
  BY DEF Shape, AtMostOneLive, Live
<1>4. SharersBound'
  BY DEF Shape, SharersBound, Live
<1>5. OneAttemptAtATime'
  BY DEF Shape, OneAttemptAtATime
<1>6. QED
  BY <1>1, <1>2, <1>3, <1>4, <1>5

LEMMA Enters ==
  ASSUME IInv, NEW r \in Runs, NEW goal, NEW binding, Enter(r, goal, binding),
         goal \in {"commit", "preflight", "bind"},
         script \in Sharing => binding \in Bindings /\ goal # "commit"
  PROVE  IInv'
<1> USE DEF IInv, Enter, Go, screen, tree, directory
<1>1. Shape'
  BY DEF Shape
<1>2. NoRowsYet' /\ RowsOfBinding'
  BY DEF Shape, NoRowsYet, RowsOfBinding, NoRows
<1>3. AtMostOneLive'
  BY DEF Shape, AtMostOneLive
<1>4. SharersBound'
  BY DEF Shape, SharersBound, Live
<1>5. OneAttemptAtATime'
  BY DEF Shape, OneAttemptAtATime
<1>6. QED
  BY <1>1, <1>2, <1>3, <1>4, <1>5

LEMMA CommitRead ==
  ASSUME IInv, NEW r \in Runs, NEW goal, ReadCommit(r, goal),
         goal \in {"look", "preflight"}, script \notin Sharing
  PROVE  IInv'
<1>1. CASE End(r, "refused")
  BY <1>1, Ends DEF ReadCommit, directory, Live
<1>2. CASE Go(r, goal) /\ bound' = [bound EXCEPT ![r].commit = head]
           /\ UNCHANGED rows
  <2> USE <1>2 DEF IInv, ReadCommit, Go, screen, tree, directory
  <2>1. Shape'
    BY DEF Shape
  <2>2. NoRowsYet' /\ RowsOfBinding'
    BY DEF Shape, NoRowsYet, RowsOfBinding, NoRows
  <2>3. AtMostOneLive'
    BY DEF Shape, AtMostOneLive, Live
  <2>4. SharersBound' /\ OneAttemptAtATime'
    BY DEF SharersBound, OneAttemptAtATime
  <2>5. QED
    BY <2>1, <2>2, <2>3, <2>4
<1>3. QED
  BY <1>1, <1>2 DEF ReadCommit

LEMMA PreflightKeeps ==
  ASSUME IInv, NEW r \in Runs, Preflight(r)
  PROVE  IInv'
<1>1. CASE End(r, "refused")
  BY <1>1, Ends DEF Preflight, directory, Live
<1>2. CASE Go(r, "bind") /\ bound' = [bound EXCEPT ![r].config = config]
           /\ UNCHANGED rows
  <2> USE <1>2 DEF IInv, Preflight, Go, screen, tree, directory
  <2>1. Shape'
    BY DEF Shape
  <2>2. NoRowsYet' /\ RowsOfBinding'
    BY DEF Shape, NoRowsYet, RowsOfBinding, NoRows
  <2>3. AtMostOneLive'
    BY DEF Shape, AtMostOneLive, Live
  <2>4. SharersBound'
    <3>1. script \in Sharing => bound'[r] \in Bindings
      BY DEF Shape, SharersBound, Live, Bindings
    <3>2. \A q \in Runs \ {r} : bound'[q] = bound[q] /\ pc'[q] = pc[q]
      BY DEF Shape
    <3>3. QED
      BY <3>1, <3>2 DEF SharersBound, Shape
  <2>5. OneAttemptAtATime'
    BY DEF Shape, OneAttemptAtATime
  <2>6. QED
    BY <2>1, <2>2, <2>3, <2>4, <2>5
<1>3. QED
  BY <1>1, <1>2 DEF Preflight

LEMMA Joins ==
  ASSUME IInv, NEW r \in Runs, JoinAttempt(r)
  PROVE  IInv'
<1>1. CASE End(r, "refused")
  BY <1>1, Ends DEF JoinAttempt, directory, Live
<1>2. CASE Go(r, IF attempt = None THEN "record" ELSE "look")
           /\ attempt \in {None, bound[r]} /\ UNCHANGED work
  BY <1>2, Moves DEF JoinAttempt, directory, work, Live
<1>3. QED
  BY <1>1, <1>2 DEF JoinAttempt

LEMMA OpensAttempt ==
  ASSUME ScheduleAssumption, IInv, NEW r \in Runs, RecordAttempt(r)
  PROVE  IInv'
<1> USE DEF IInv, RecordAttempt, Go, screen, tree
<1>1. Shape' /\ NoRowsYet' /\ RowsOfBinding'
  BY DEF Shape, NoRowsYet, RowsOfBinding
<1>2. AtMostOneLive'
  BY DEF Shape, AtMostOneLive, Live
<1>3. SharersBound'
  BY DEF Shape, SharersBound, Live
<1>4. OneAttemptAtATime'
  <2> SUFFICES ASSUME script \in Sharing, ~overlapped PROVE OneAttemptAtATime'
    BY DEF OneAttemptAtATime
  <2>1. bound[r] # None
    BY DEF ScheduleAssumption, SharersBound, Live
  <2>2. results = None
    BY DEF OneAttemptAtATime
  <2>3. \A q \in Runs : pc[q] \in Live => q = r
    BY DEF AtMostOneLive, Live
  <2>4. QED
    BY <2>1, <2>2, <2>3 DEF Shape, OneAttemptAtATime, Live
<1>5. QED
  BY <1>1, <1>2, <1>3, <1>4

(* A row that names the binding of its run.                                *)
LEMMA RowAdded ==
  ASSUME IInv, NEW r \in Runs, NEW row, row # None => row.binding = bound[r],
         NEW t, rows' = [rows EXCEPT ![r][t] = row], Advance(r),
         pc[r] \in {"look", "measure"},
         UNCHANGED <<screen, tree, bound, attempt, results, overlapped>>
  PROVE  IInv'
<1> USE DEF IInv, screen, tree
<1>1. PICK goal \in {"look", "finish"} : pc' = [pc EXCEPT ![r] = goal]
  BY DEF Advance, Go
<1>2. Shape' /\ RowsOfBinding'
  BY <1>1 DEF Shape, RowsOfBinding
<1>3. NoRowsYet'
  BY <1>1 DEF Shape, NoRowsYet
<1>4. AtMostOneLive'
  BY <1>1 DEF Shape, AtMostOneLive, Live
<1>5. SharersBound'
  BY <1>1 DEF Shape, SharersBound, Live
<1>6. OneAttemptAtATime'
  BY <1>1 DEF Shape, OneAttemptAtATime
<1>7. QED
  BY <1>2, <1>3, <1>4, <1>5, <1>6

LEMMA Looks ==
  ASSUME IInv, NEW r \in Runs, NEW accepted, Look(r, accepted),
         accepted => OfThisBinding(r, Found(r))
  PROVE  IInv'
<1>1. CASE ToMeasure(r)
  BY <1>1, Moves DEF Look, work, directory, Live
<1>2. CASE ~ToMeasure(r) /\ accepted
  BY <1>2, RowAdded DEF Look, OfThisBinding, directory
<1>3. CASE ~ToMeasure(r) /\ ~accepted
  BY <1>3, Ends DEF Look, directory, Live
<1>4. QED
  BY <1>1, <1>2, <1>3

LEMMA Measures ==
  ASSUME IInv, NEW r \in Runs,
         \/ MeasureExact(r) \/ MeasureInexact(r) \/ MeasureNotCompressed(r)
         \/ MeasureCrashes(r)
  PROVE  IInv'
<1>1. CASE MeasureCrashes(r)
  BY <1>1, Ends DEF MeasureCrashes, directory, Live
<1>2. CASE MeasureExact(r) \/ MeasureInexact(r) \/ MeasureNotCompressed(r)
  <2>1. PICK passed, artifact : Record(r, passed, artifact)
    BY <1>2 DEF MeasureExact, MeasureInexact, MeasureNotCompressed
  <2> DEFINE row == [binding |-> bound[r], by |-> r, passed |-> passed,
                     artifact |-> artifact]
  <2>2. row.binding = bound[r]
    OBVIOUS
  <2>3. rows' = [rows EXCEPT ![r][Schedule[at[r]]] = row] /\ Advance(r)
    BY <2>1 DEF Record
  <2>4. /\ pc[r] = "measure"
        /\ UNCHANGED <<screen, tree, bound, attempt, results, overlapped>>
    BY <1>2 DEF MeasureExact, MeasureInexact, MeasureNotCompressed
  <2> HIDE DEF row
  <2>5. QED
    BY <2>2, <2>3, <2>4, RowAdded
<1>3. QED
  BY <1>1, <1>2

LEMMA Replaces ==
  ASSUME IInv, NEW r \in Runs, NEW complete, NEW more,
         ReplaceResults(r, Result(r, complete, more))
  PROVE  IInv'
<1> USE DEF IInv, ReplaceResults, End, Go, screen, tree
<1>1. Shape' /\ NoRowsYet' /\ RowsOfBinding'
  BY DEF Shape, NoRowsYet, RowsOfBinding, NoRows
<1>2. AtMostOneLive'
  BY DEF Shape, AtMostOneLive, Live
<1>3. SharersBound'
  BY DEF Shape, SharersBound, Live
<1>4. OneAttemptAtATime'
  <2>1. results'.binding = bound[r]
    BY DEF Result
  <2>2. QED
    BY <2>1 DEF Shape, OneAttemptAtATime
<1>5. QED
  BY <1>1, <1>2, <1>3, <1>4

(* The screens open no attempt, so their results are free.                 *)
LEMMA Keeps ==
  ASSUME IInv, NEW r \in Runs, NEW result, script \notin Sharing,
         KeepResults(r, result) \/ WriteResults(r)
  PROVE  IInv'
<1>1. CASE KeepResults(r, result)
  <2>1. CASE results = None
    BY <1>1, <2>1, Moves DEF KeepResults, directory, Live
  <2>2. CASE results # None
    <3>1. End(r, "done") \/ End(r, "refused")
      BY <1>1, <2>2 DEF KeepResults
    <3>2. QED
      BY <1>1, <3>1, Ends DEF KeepResults, directory, Live
  <2>3. QED
    BY <2>1, <2>2
<1>2. CASE WriteResults(r)
  <2> USE <1>2 DEF IInv, WriteResults, End, Go, screen, tree
  <2>1. Shape' /\ NoRowsYet' /\ RowsOfBinding'
    BY DEF Shape, NoRowsYet, RowsOfBinding, NoRows
  <2>2. AtMostOneLive'
    BY DEF Shape, AtMostOneLive, Live
  <2>3. SharersBound' /\ OneAttemptAtATime'
    BY DEF SharersBound, OneAttemptAtATime
  <2>4. QED
    BY <2>1, <2>2, <2>3
<1>3. QED
  BY <1>1, <1>2

LEMMA ScreenPreflights ==
  ASSUME IInv, NEW r \in Runs, ScreenPreflight(r), script \notin Sharing
  PROVE  IInv'
<1>1. CASE End(r, "refused")
  BY <1>1, Ends DEF ScreenPreflight, directory, Live
<1>2. CASE Go(r, "look") /\ UNCHANGED work
  BY <1>2, Moves DEF ScreenPreflight, directory, work, Live
<1>3. QED
  BY <1>1, <1>2 DEF ScreenPreflight
-----------------------------------------------------------------------------
LEMMA RunIInv ==
  ASSUME ScheduleAssumption, IInv, NEW r \in Runs
  PROVE  /\ Census(r) => IInv'
         /\ Probe(r) => IInv'
         /\ RecordScreen(r) => IInv'
         /\ LongRangeScreen(r) \/ BwtScreen(r) => IInv'
         /\ WikitextScreen(r) => IInv'
         /\ Kill(r) => IInv'
<1>1. ASSUME Census(r) PROVE IInv'
  <2>1. CASE Start(r)
    <3>1. [commit |-> head, config |-> None] \in Bindings
      BY DEF IInv, Shape, Bindings
    <3>2. QED
      BY <2>1, <3>1, Enters DEF Start
  <2>2. CASE Trial(r)
    <3>1. CASE Look(r, Accepts(r, Found(r)))
      BY <3>1, Looks DEF Accepts
    <3>2. QED
      BY <2>2, <3>1, Measures DEF Trial, NotCompressed
  <2>3. CASE Finish(r)
    BY <2>3, Replaces DEF Finish
  <2>4. QED
    BY <1>1, <2>1, <2>2, <2>3, PreflightKeeps, Joins, OpensAttempt DEF Census
<1>2. ASSUME Probe(r) PROVE IInv'
  <2>1. CASE StartProbe(r)
    <3>1. [commit |-> head, config |-> None] \in Bindings
      BY DEF IInv, Shape, Bindings
    <3>2. QED
      BY <2>1, <3>1, Enters DEF StartProbe
  <2>2. CASE ProbeTrial(r)
    <3>1. CASE Look(r, ProbeAccepts(r, Found(r)))
      BY <3>1, Looks DEF ProbeAccepts
    <3>2. QED
      BY <2>2, <3>1, Measures DEF ProbeTrial
  <2>3. CASE FinishProbe(r)
    BY <2>3, Replaces DEF FinishProbe
  <2>4. QED
    BY <1>2, <2>1, <2>2, <2>3, Joins, OpensAttempt DEF Probe
<1>3. ASSUME ReadConfig(r), script \notin Sharing PROVE IInv'
  BY <1>3, Enters DEF ReadConfig
<1>4. ASSUME RecordScreen(r) PROVE IInv'
  <2>1. script \notin Sharing
    BY <1>4 DEF RecordScreen, Sharing
  <2>2. CASE RecordTrial(r)
    <3>1. CASE Look(r, RecordAccepts(r, Found(r)))
      BY <3>1, Looks DEF RecordAccepts
    <3>2. QED
      BY <2>2, <3>1, Measures DEF RecordTrial
  <2>3. QED
    BY <1>4, <2>1, <2>2, <1>3, CommitRead, Keeps DEF RecordScreen
<1>5. ASSUME LongRangeScreen(r) \/ BwtScreen(r) PROVE IInv'
  <2>1. script \notin Sharing
    BY <1>5 DEF LongRangeScreen, BwtScreen, Sharing
  <2>2. CASE LongRangeTrial(r)
    <3>1. CASE Look(r, LongRangeAccepts(r, Found(r)))
      BY <3>1, Looks DEF LongRangeAccepts
    <3>2. QED
      BY <2>2, <3>1, Measures DEF LongRangeTrial
  <2>3. QED
    BY <1>5, <2>1, <2>2, <1>3, CommitRead, ScreenPreflights, Keeps
       DEF LongRangeScreen, BwtScreen
<1>6. ASSUME WikitextScreen(r) PROVE IInv'
  <2>1. script \notin Sharing
    BY <1>6 DEF WikitextScreen, Sharing
  <2>2. CASE WikitextTrial(r)
    <3>1. CASE Look(r, WikitextAccepts(r, Found(r)))
      BY <3>1, Looks DEF WikitextAccepts
    <3>2. QED
      BY <2>2, <3>1, Measures DEF WikitextTrial
  <2>3. QED
    BY <1>6, <2>1, <2>2, <1>3, CommitRead, ScreenPreflights, Keeps
       DEF WikitextScreen, ResourceSmoke, FinishWikitext
<1>7. ASSUME Kill(r) PROVE IInv'
  BY <1>7, Ends DEF Kill, directory
<1>8. QED
  BY <1>1, <1>2, <1>4, <1>5, <1>6, <1>7

LEMMA NextIInv ==
  ASSUME ScheduleAssumption PROVE IInv /\ [SourceNext]_vars => IInv'
<1> SUFFICES ASSUME IInv, [SourceNext]_vars PROVE IInv'
  OBVIOUS
<1>1. CASE Edit \/ Commit
  BY <1>1 DEF Edit, Commit, IInv, Shape, NoRowsYet, RowsOfBinding,
              AtMostOneLive, SharersBound, OneAttemptAtATime,
              screen, work, directory
<1>2. CASE UNCHANGED trialVars
  BY <1>2 DEF trialVars, IInv, Shape, NoRowsYet, RowsOfBinding,
              AtMostOneLive, SharersBound, OneAttemptAtATime,
              screen, tree, work, directory
<1>3. QED
  BY <1>1, <1>2, RunIInv DEF SourceNext, RunNext, vars

(* Every reachable state is one of IInv.                                   *)
THEOREM Invariant == ASSUME ScheduleAssumption PROVE SourceSpec => []IInv
  BY InitIInv, NextIInv, PTL DEF SourceSpec

(* Results are of one binding, whatever runs, kills, edits and commits     *)
(* there were before or beside the run that writes them; without overlaps  *)
(* those of the census and of the probe are the attempt's.                 *)
THEOREM OneBinding ==
  ASSUME ScheduleAssumption PROVE SourceSpec => []ResultsOfOneBinding
<1>1. IInv => ResultsOfOneBinding
  BY DEF IInv, RowsOfBinding, OneAttemptAtATime, Sharing, ResultsOfOneBinding
<1>2. QED
  BY <1>1, Invariant, PTL
-----------------------------------------------------------------------------
(* What a run is bound to and which trial it is at.                        *)
Known ==
    /\ script \in Scripts
    /\ DOMAIN receipts = AllTrials
    /\ \A r \in Runs :
          /\ at[r] \in DOMAIN Schedule
          /\ pc[r] = "commit" => bound[r] \in [commit : {None}, config : Nat]
          /\ pc[r] \in Live \ {"commit"} => bound[r] \in Bindings
    /\ DOMAIN at = Runs

(* As long as no two runs have overlapped a receipt is measured only where *)
(* there is none, results are written only where there are none, and a     *)
(* failure that left a receipt is still to be seen in it.                  *)
Undisturbed ==
    ~overlapped =>
      /\ \A r \in Runs :
            /\ pc[r] = "measure" => receipts[Schedule[at[r]]] = None
            /\ pc[r] = "write" => results = None
      /\ \A f \in failed : f[3] =>
            f[1] \in Trials /\ receipts[f[1]] # None /\ ~receipts[f[1]].passed

(* What a step of the runs does to what the publisher reads.               *)
Settled ==
    /\ script' = script /\ config' \in Nat /\ config' >= config
    /\ ~overlapped' =>
         /\ ~overlapped
         /\ \A t \in Trials : receipts[t] # None => receipts'[t] = receipts[t]
         /\ script \notin Sharing /\ results # None => results' = results

Sound == Known' /\ Undisturbed' /\ Settled

LEMMA ScheduleType ==
  ASSUME ScheduleAssumption, script \in Scripts
  PROVE  /\ Schedule \in Seq(AllTrials) /\ Len(Schedule) \in Nat \ {0}
         /\ DOMAIN Schedule = 1..Len(Schedule)
<1> DEFINE trials == {t \in AllTrials : script \in WithoutWarmups => ~Warmup(t)}
<1>1. Schedule \in Seq(trials) /\ Schedule # <<>>
  BY DEF ScheduleAssumption, Schedule
<1>2. trials \subseteq AllTrials
  OBVIOUS
<1> HIDE DEF trials
<1>3. QED
  BY <1>1, <1>2

LEMMA TrialsType ==
  ASSUME ScheduleAssumption, script \in Scripts
  PROVE  Trials \subseteq AllTrials
<1>1. \A i \in DOMAIN Schedule : Schedule[i] \in AllTrials
  BY ScheduleType
<1>2. QED
  BY <1>1 DEF Trials

LEMMA InitKnown == ASSUME ScheduleAssumption, SourceInit PROVE Known /\ Undisturbed
<1> USE DEF SourceInit, Init
<1>1. Len(Schedule) \in Nat \ {0} /\ DOMAIN Schedule = 1..Len(Schedule)
  BY ScheduleType
<1>2. Known
  BY <1>1 DEF Known, NoRows, Live
<1>3. Undisturbed
  BY DEF Undisturbed
<1>4. QED
  BY <1>2, <1>3

(* A step of one run that promotes no receipt.                             *)
LEMMA Quiet ==
  ASSUME IInv, Known, Undisturbed, NEW r \in Runs, NEW goal, Go(r, goal),
         UNCHANGED <<script, receipts, config>>,
         DOMAIN at' = Runs, at'[r] \in DOMAIN Schedule,
         \A q \in Runs \ {r} : at'[q] = at[q] /\ bound'[q] = bound[q],
         goal = "commit" => bound'[r] \in [commit : {None}, config : Nat],
         goal \in Live \ {"commit"} => bound'[r] \in Bindings,
         goal = "measure" => receipts[Schedule[at'[r]]] = None,
         goal = "write" => results' = None,
         overlapped => overlapped',
         \/ results' = results
         \/ pc[r] \in Live /\ (script \in Sharing \/ pc[r] = "write"),
         failed' = failed \/ \E f : ~f[3] /\ failed' = failed \union {f}
  PROVE  Sound
<1> USE DEF Go
<1>1. Schedule' = Schedule /\ Trials' = Trials
  BY DEF Schedule, Trials
<1>2. \A q \in Runs \ {r} : pc'[q] = pc[q]
  BY DEF IInv, Shape
<1>3. pc'[r] = goal
  BY DEF IInv, Shape
<1>4. Known'
  BY <1>1, <1>2, <1>3 DEF Known
<1>5. Undisturbed'
  <2> SUFFICES ASSUME ~overlapped' PROVE Undisturbed'
    BY DEF Undisturbed
  <2>1. \A q \in Runs : pc'[q] = "measure" => receipts'[Schedule'[at'[q]]] = None
    BY <1>1, <1>2, <1>3 DEF Undisturbed
  <2>2. \A q \in Runs \ {r} : pc[q] = "write" => results' = None
    BY DEF Undisturbed, IInv, AtMostOneLive, Live
  <2>3. \A q \in Runs : pc'[q] = "write" => results' = None
    BY <1>2, <1>3, <2>2
  <2>4. \A f \in failed' : f[3] => f \in failed
    OBVIOUS
  <2>5. QED
    BY <1>1, <2>1, <2>3, <2>4 DEF Undisturbed
<1>6. Settled
  <2>1. config' \in Nat /\ config' >= config
    BY DEF IInv, Shape
  <2>2. ~overlapped' /\ script \notin Sharing /\ results # None => results' = results
    BY DEF Undisturbed
  <2>3. QED
    BY <2>1, <2>2 DEF Settled
<1>7. QED
  BY <1>4, <1>5, <1>6 DEF Sound

(* A step that promotes one.                                               *)
LEMMA Promotes ==
  ASSUME ScheduleAssumption, IInv, Known, Undisturbed, NEW r \in Runs,
         pc[r] = "measure",
         NEW passed \in BOOLEAN, NEW artifact \in {1, 2, None},
         Record(r, passed, artifact),
         UNCHANGED <<screen, tree, bound, results, overlapped>>,
         \/ failed' = failed
         \/ failed' = failed \union {Failure(r, TRUE)} /\ ~passed
  PROVE  Sound
<1> DEFINE t == Schedule[at[r]]
           row == [binding |-> bound[r], by |-> r, passed |-> passed,
                   artifact |-> artifact]
<1>1. /\ script' = script /\ config' = config /\ Schedule' = Schedule /\ Trials' = Trials
      /\ results' = results /\ overlapped' = overlapped /\ bound' = bound
  BY DEF screen, tree, Schedule, Trials
<1>2. PICK goal \in {"look", "finish"} : pc' = [pc EXCEPT ![r] = goal]
  BY DEF Record, Advance, Go
<1>3. at'[r] \in DOMAIN Schedule /\ DOMAIN at' = Runs /\ \A q \in Runs \ {r} : at'[q] = at[q]
  <2>1. Schedule \in Seq(AllTrials)
    BY ScheduleType DEF Known
  <2>2. at[r] \in 1..Len(Schedule) /\ DOMAIN at = Runs
    BY <2>1 DEF Known
  <2>3. CASE at[r] = Len(Schedule)
    BY <2>1, <2>2, <2>3 DEF Record, Advance
  <2>4. CASE at[r] # Len(Schedule)
    BY <2>1, <2>2, <2>4 DEF Record, Advance
  <2>5. QED
    BY <2>3, <2>4
<1>4. bound[r] \in Bindings
  BY DEF Known, Live
<1>5. t \in Trials /\ t \in AllTrials
  <2>1. Schedule \in Seq(AllTrials) /\ at[r] \in DOMAIN Schedule
    BY ScheduleType DEF Known
  <2>2. QED
    BY <2>1 DEF Trials
<1>6. row # None
  BY <1>4 DEF ScheduleAssumption, Receipts
<1>7. row.passed = passed
  OBVIOUS
<1>8. receipts' = [receipts EXCEPT ![t] = row]
  BY DEF Record
<1> HIDE DEF row, t
<1>9. Known'
  BY <1>1, <1>2, <1>3, <1>4, <1>8 DEF Known, IInv, Shape, Live
<1>10. Undisturbed'
  <2> SUFFICES ASSUME ~overlapped PROVE Undisturbed'
    BY <1>1 DEF Undisturbed
  <2>1. \A q \in Runs : pc'[q] \in Live => q = r
    BY <1>2 DEF IInv, Shape, AtMostOneLive, Live
  <2>2. \A q \in Runs : pc'[q] \notin {"measure", "write"}
    BY <1>2, <2>1 DEF IInv, Shape, Live
  <2>3. receipts[t] = None
    BY DEF Undisturbed, t
  <2>4. \A f \in failed : f[3] => f[1] \in Trials' /\ receipts'[f[1]] # None /\ ~receipts'[f[1]].passed
    BY <1>1, <1>8, <2>3 DEF Undisturbed
  <2>5. Failure(r, TRUE)[1] = t
    BY DEF Failure, t
  <2>6. receipts'[t] = row
    BY <1>5, <1>8 DEF Known
  <2>7. QED
    BY <1>1, <1>5, <1>6, <1>7, <2>2, <2>4, <2>5, <2>6 DEF Undisturbed
<1>11. Settled
  <2>1. ~overlapped => receipts[t] = None
    BY DEF Undisturbed, t
  <2>2. config' \in Nat /\ config' >= config
    BY <1>1 DEF IInv, Shape
  <2>3. QED
    BY <1>1, <1>8, <2>1, <2>2 DEF Settled
<1>12. QED
  BY <1>9, <1>10, <1>11 DEF Sound

(* A run ends.                                                             *)
LEMMA EndsSound ==
  ASSUME ScheduleAssumption, IInv, Known, Undisturbed, NEW r \in Runs, NEW goal,
         End(r, goal), goal \in {"refused", "crashed", "killed", "done"},
         UNCHANGED <<screen, tree, receipts, overlapped>>,
         \/ results' = results
         \/ pc[r] \in Live /\ (script \in Sharing \/ pc[r] = "write"),
         failed' = failed \/ \E f : ~f[3] /\ failed' = failed \union {f}
  PROVE  Sound
<1>1. UNCHANGED <<script, receipts, config>> /\ (overlapped => overlapped') /\ Go(r, goal)
  BY DEF screen, tree, End
<1>2. /\ DOMAIN at' = Runs /\ at'[r] = 1
      /\ \A q \in Runs \ {r} : at'[q] = at[q] /\ bound'[q] = bound[q]
  BY DEF End, Known, IInv, Shape
<1>3. at'[r] \in DOMAIN Schedule
  BY <1>2, ScheduleType DEF Known
<1>4. goal \notin Live
  BY DEF Live
<1>5. QED
  BY <1>1, <1>2, <1>3, <1>4, Quiet DEF Live

(* A run goes on without touching the directory, its trial or its results. *)
LEMMA MovesSound ==
  ASSUME IInv, Known, Undisturbed, NEW r \in Runs, NEW goal, Go(r, goal),
         pc[r] \in Live, goal # "commit", goal \in Live => bound'[r] \in Bindings,
         goal = "measure" => ToMeasure(r), goal = "write" => results = None,
         \A q \in Runs \ {r} : bound'[q] = bound[q],
         UNCHANGED <<screen, tree, at, receipts, results, failed, overlapped>>
  PROVE  Sound
<1>1. UNCHANGED <<script, receipts, config, at, results, failed>> /\ (overlapped => overlapped')
  BY DEF screen, tree
<1>2. goal = "measure" => receipts[Schedule[at'[r]]] = None
  BY <1>1 DEF ToMeasure
<1>3. QED
  BY <1>1, <1>2, Quiet DEF Known

LEMMA EntersSound ==
  ASSUME IInv, Known, Undisturbed, NEW r \in Runs, NEW goal, NEW binding,
         Enter(r, goal, binding),
         \/ goal = "commit" /\ binding \in [commit : {None}, config : Nat]
         \/ goal \in {"preflight", "bind"} /\ binding \in Bindings
  PROVE  Sound
<1>1. /\ UNCHANGED <<script, receipts, config, at, results, failed>>
      /\ (overlapped => overlapped') /\ Go(r, goal)
  BY DEF Enter, screen, tree, directory
<1>2. bound'[r] = binding /\ \A q \in Runs \ {r} : bound'[q] = bound[q]
  BY DEF Enter, IInv, Shape
<1>3. QED
  BY <1>1, <1>2, Quiet DEF Known

LEMMA ReadCommitSound ==
  ASSUME ScheduleAssumption, IInv, Known, Undisturbed, NEW r \in Runs, NEW goal,
         ReadCommit(r, goal), goal \in {"look", "preflight"}
  PROVE  Sound
<1>1. CASE End(r, "refused")
  BY <1>1, EndsSound DEF ReadCommit, directory
<1>2. CASE Go(r, goal) /\ bound' = [bound EXCEPT ![r].commit = head]
           /\ UNCHANGED <<at, rows, draft>>
  <2>1. bound[r] \in [commit : {None}, config : Nat] /\ head \in Nat /\ DOMAIN bound = Runs
    BY DEF ReadCommit, Known, IInv, Shape
  <2>2. bound'[r] \in Bindings /\ \A q \in Runs \ {r} : bound'[q] = bound[q]
    BY <1>2, <2>1 DEF Bindings
  <2>3. QED
    BY <1>2, <2>2, MovesSound DEF ReadCommit, directory, Live
<1>3. QED
  BY <1>1, <1>2 DEF ReadCommit

LEMMA PreflightsSound ==
  ASSUME ScheduleAssumption, IInv, Known, Undisturbed, NEW r \in Runs,
         Preflight(r) \/ ScreenPreflight(r)
  PROVE  Sound
<1>1. CASE End(r, "refused")
  BY <1>1, EndsSound DEF Preflight, ScreenPreflight, directory
<1>2. pc[r] = "preflight" /\ bound[r] \in Bindings /\ DOMAIN bound = Runs
  BY DEF Preflight, ScreenPreflight, Known, Live, IInv, Shape
<1>3. CASE Preflight(r) /\ Go(r, "bind") /\ bound' = [bound EXCEPT ![r].config = config]
           /\ UNCHANGED <<at, rows, draft>>
  <2>1. bound'[r] \in Bindings /\ \A q \in Runs \ {r} : bound'[q] = bound[q]
    BY <1>2, <1>3 DEF Bindings, IInv, Shape
  <2>2. QED
    BY <1>2, <1>3, <2>1, MovesSound DEF Preflight, directory, Live
<1>4. CASE ScreenPreflight(r) /\ Go(r, "look") /\ UNCHANGED work
  BY <1>2, <1>4, MovesSound DEF ScreenPreflight, directory, work, Live
<1>5. QED
  BY <1>1, <1>3, <1>4 DEF Preflight, ScreenPreflight

LEMMA AttemptSound ==
  ASSUME ScheduleAssumption, IInv, Known, Undisturbed, NEW r \in Runs,
         JoinAttempt(r) \/ RecordAttempt(r)
  PROVE  Sound
<1>1. CASE JoinAttempt(r) /\ End(r, "refused")
  BY <1>1, EndsSound DEF JoinAttempt, directory
<1>2. CASE JoinAttempt(r) /\ ~End(r, "refused")
  <2>1. PICK goal \in {"record", "look"} : Go(r, goal)
    BY <1>2 DEF JoinAttempt
  <2>2. QED
    BY <1>2, <2>1, MovesSound DEF JoinAttempt, directory, work, Live, Known
<1>3. CASE RecordAttempt(r)
  BY <1>3, MovesSound DEF RecordAttempt, Live, Known
<1>4. QED
  BY <1>1, <1>2, <1>3

LEMMA LooksSound ==
  ASSUME ScheduleAssumption, IInv, Known, Undisturbed, NEW r \in Runs, NEW accepted,
         Look(r, accepted)
  PROVE  Sound
<1>1. CASE ToMeasure(r)
  BY <1>1, MovesSound DEF Look, directory, work, Live, Known
<1>2. CASE ~ToMeasure(r) /\ ~accepted
  BY <1>2, EndsSound DEF Look, directory
<1>3. CASE ~ToMeasure(r) /\ accepted
  <2>1. /\ Advance(r) /\ pc[r] = "look"
        /\ UNCHANGED <<script, receipts, config, bound, results, failed, overlapped>>
    BY <1>3 DEF Look, directory, screen, tree
  <2>2. PICK goal \in {"look", "finish"} : Go(r, goal)
    BY <2>1 DEF Advance
  <2>3. at[r] \in 1..Len(Schedule) /\ DOMAIN at = Runs
    BY ScheduleType DEF Known
  <2>4. at'[r] \in 1..Len(Schedule) /\ DOMAIN at' = Runs /\ \A q \in Runs \ {r} : at'[q] = at[q]
    <3>1. CASE at[r] = Len(Schedule)
      BY <2>1, <2>3, <3>1 DEF Advance
    <3>2. CASE at[r] # Len(Schedule)
      BY <2>1, <2>3, <3>2, ScheduleType DEF Advance, Known
    <3>3. QED
      BY <3>1, <3>2
  <2>5. at'[r] \in DOMAIN Schedule
    BY <2>4, ScheduleType DEF Known
  <2>6. bound'[r] \in Bindings
    BY <2>1 DEF Known, Live
  <2>7. QED
    BY <2>1, <2>2, <2>4, <2>5, <2>6, Quiet
<1>4. QED
  BY <1>1, <1>2, <1>3

LEMMA MeasuresSound ==
  ASSUME ScheduleAssumption, IInv, Known, Undisturbed, NEW r \in Runs,
         \/ MeasureExact(r) \/ MeasureInexact(r) \/ MeasureNotCompressed(r)
         \/ MeasureCrashes(r)
  PROVE  Sound
<1>1. CASE MeasureExact(r)
  <2>1. PICK artifact \in {1, 2, None} : Record(r, TRUE, artifact)
    BY <1>1 DEF MeasureExact
  <2>2. QED
    BY <1>1, <2>1, Promotes DEF MeasureExact
<1>2. CASE MeasureInexact(r)
  <2>1. Record(r, FALSE, 1) /\ 1 \in {1, 2, None}
    BY <1>2 DEF MeasureInexact
  <2>2. QED
    BY <1>2, <2>1, Promotes DEF MeasureInexact
<1>3. CASE MeasureNotCompressed(r)
  <2>1. Record(r, FALSE, None) /\ None \in {1, 2, None}
    BY <1>3 DEF MeasureNotCompressed
  <2>2. QED
    BY <1>3, <2>1, Promotes DEF MeasureNotCompressed
<1>4. CASE MeasureCrashes(r)
  <2>1. ~Failure(r, FALSE)[3]
    BY DEF Failure
  <2>2. QED
    BY <1>4, <2>1, EndsSound DEF MeasureCrashes, directory
<1>5. QED
  BY <1>1, <1>2, <1>3, <1>4

LEMMA FinishesSound ==
  ASSUME ScheduleAssumption, IInv, Known, Undisturbed, NEW r \in Runs, NEW result,
         \/ ReplaceResults(r, result) /\ script \in Sharing
         \/ KeepResults(r, result)
         \/ WriteResults(r)
  PROVE  Sound
<1>1. CASE ReplaceResults(r, result) /\ script \in Sharing
  BY <1>1, EndsSound DEF ReplaceResults, Live
<1>2. CASE KeepResults(r, result) /\ results = None
  BY <1>2, MovesSound DEF KeepResults, directory, Live, Known
<1>3. CASE KeepResults(r, result) /\ results # None
  <2>1. PICK goal \in {"done", "refused"} : End(r, goal)
    BY <1>3 DEF KeepResults
  <2>2. QED
    BY <1>3, <2>1, EndsSound DEF KeepResults, directory
<1>4. CASE WriteResults(r)
  BY <1>4, EndsSound DEF WriteResults, Live
<1>5. QED
  BY <1>1, <1>2, <1>3, <1>4

(* Every step of the runs, of edits and of commits.                        *)
LEMMA RunSound ==
  ASSUME ScheduleAssumption, IInv, Known, Undisturbed, RunNext
  PROVE  Sound
<1>1. head \in Nat /\ config \in Nat
  BY DEF IInv, Shape
<1>2. ASSUME NEW r \in Runs, Census(r) \/ Probe(r) PROVE Sound
  <2>1. script \in Sharing
    BY <1>2 DEF Census, Probe, Sharing
  <2>2. CASE Start(r) \/ StartProbe(r)
    <3>1. [commit |-> head, config |-> None] \in Bindings
      BY <1>1 DEF Bindings
    <3>2. QED
      BY <2>2, <3>1, EntersSound DEF Start, StartProbe
  <2>3. CASE Trial(r) \/ ProbeTrial(r)
    BY <2>3, LooksSound, MeasuresSound DEF Trial, ProbeTrial, NotCompressed
  <2>4. CASE Finish(r) \/ FinishProbe(r)
    BY <2>1, <2>4, FinishesSound DEF Finish, FinishProbe
  <2>5. QED
    BY <1>2, <2>2, <2>3, <2>4, PreflightsSound, AttemptSound DEF Census, Probe
<1>3. ASSUME NEW r \in Runs, ReadConfig(r) PROVE Sound
  BY <1>1, <1>3, EntersSound DEF ReadConfig
<1>4. ASSUME NEW r \in Runs,
             RecordScreen(r) \/ LongRangeScreen(r) \/ BwtScreen(r) \/ WikitextScreen(r)
      PROVE  Sound
  <2>1. CASE RecordTrial(r) \/ LongRangeTrial(r) \/ WikitextTrial(r)
    BY <2>1, LooksSound, MeasuresSound DEF RecordTrial, LongRangeTrial, WikitextTrial
  <2>2. CASE \/ \E result : KeepResults(r, result)
             \/ WriteResults(r)
    BY <2>2, FinishesSound
  <2>3. CASE ReadCommit(r, "look") \/ ReadCommit(r, "preflight")
    BY <2>3, ReadCommitSound
  <2>4. QED
    BY <1>3, <1>4, <2>1, <2>2, <2>3, PreflightsSound
       DEF RecordScreen, LongRangeScreen, BwtScreen, WikitextScreen,
           ResourceSmoke, FinishWikitext
<1>5. ASSUME NEW r \in Runs, Kill(r) PROVE Sound
  BY <1>5, EndsSound DEF Kill, directory
<1>6. CASE Edit \/ Commit
  <2>1. /\ script' = script /\ config' \in Nat /\ config' >= config
        /\ Schedule' = Schedule /\ Trials' = Trials
        /\ UNCHANGED <<pc, at, bound, receipts, results, failed, overlapped>>
    BY <1>1, <1>6 DEF Edit, Commit, screen, work, directory, Schedule, Trials
  <2>2. QED
    BY <2>1 DEF Sound, Known, Undisturbed, Settled
<1>7. QED
  BY <1>2, <1>4, <1>5, <1>6 DEF RunNext
-----------------------------------------------------------------------------
(* What is made of receipts depends on those of the schedule alone.        *)
LEMMA SameReceipts ==
  ASSUME NEW one, NEW other, \A t \in Trials : one[t] = other[t], NEW results_
  PROVE  /\ Failures(one) = Failures(other)
         /\ Consistent(one, results_) => Consistent(other, results_)
         /\ Reproduce(one, results_) => Reproduce(other, results_)
<1>1. Failures(one) = Failures(other)
  <2>1. {t \in Trials : ~one[t].passed} = {t \in Trials : ~other[t].passed}
    OBVIOUS
  <2>2. QED
    BY <2>1 DEF Failures
<1>2. ASSUME NEW pair PROVE Group(one, pair) = Group(other, pair)
  BY DEF Group
<1>3. Summary(one) = Summary(other)
  <2> DEFINE Of(group) ==
               [passed |-> Passed(group), peak |-> Peak(group),
                artifact |-> IF Passed(group)
                             THEN CHOOSE a \in {row.artifact : row \in group} : a # None
                             ELSE None]
  <2>1. /\ Summary(one) = [pair \in Pairs |-> Of(Group(one, pair))]
        /\ Summary(other) = [pair \in Pairs |-> Of(Group(other, pair))]
    BY DEF Summary
  <2> HIDE DEF Of
  <2>2. QED
    BY <1>2, <2>1
<1>4. QED
  BY <1>1, <1>3 DEF Consistent, Reproduce

(* No failure is counted where there is one.                               *)
LEMMA NoFailures ==
  ASSUME ScheduleAssumption, script \in Scripts, NEW read, Failures(read) = 0,
         NEW t \in Trials
  PROVE  read[t].passed
<1> DEFINE Number == [i \in DOMAIN Schedule |-> Schedule[i]]
<1>1. IsFiniteSet(DOMAIN Schedule)
  BY ScheduleType, FS_Interval
<1>2. Number \in Surjection(DOMAIN Schedule, Trials)
  BY DEF Trials, Surjection
<1>3. IsFiniteSet(Trials)
  BY <1>1, <1>2, FS_Surjection
<1>4. IsFiniteSet({u \in Trials : ~read[u].passed})
  BY <1>3, FS_Subset
<1>5. {u \in Trials : ~read[u].passed} = {}
  BY <1>4, FS_EmptySet DEF Failures
<1>6. QED
  BY <1>5

Complete(read) == \A t \in Trials : read[t] # None

(* The publishers that read the config, and read everything twice.         *)
TwiceBound == {"record", "longrange"}

(* Where a publisher is in its readings.                                   *)
Reads ==
    /\ place \in {"idle", "raw", "evidence", "publish"}
    /\ DOMAIN seen = AllTrials /\ next \in Nat \ {0}
    /\ place = "idle" => next = 1 /\ seen = NoRows /\ noted = 0 /\ settings = None
    /\ place = "raw" => noted = 0
    /\ place = "publish" => next > Len(Schedule)
    /\ ~overlapped =>
         \A t \in Trials : seen[t] # None => seen[t] = receipts[t]

(* What has been checked by then, by the publisher of each script.         *)
CensusReads ==
    script = "census" /\ place # "idle" =>
      /\ loaded.complete /\ settings = None /\ noted = 0
      /\ place = "publish" => Reproduce(seen, loaded)

StructuralReads ==
    script = "structural" /\ place # "idle" =>
      /\ settings = None
      /\ place = "publish" => Consistent(seen, loaded)
      /\ place \in {"evidence", "publish"} /\ ~overlapped =>
           Complete(receipts) /\ noted = Failures(receipts)

TwiceReads ==
    script \in TwiceBound /\ place # "idle" =>
      /\ settings \in Nat /\ config >= settings
      /\ ~overlapped =>
           /\ results # None /\ loaded = results
           /\ loaded.complete /\ loaded.binding.config \in Nat
           /\ settings >= loaded.binding.config
           /\ place \in {"evidence", "publish"} =>
                /\ Complete(receipts) /\ Reproduce(receipts, loaded)
                /\ \A i \in DOMAIN Schedule : i < next => seen[Schedule[i]] # None

OnceReads ==
    script \in {"bwt", "wikitext"} /\ place # "idle" =>
      /\ place # "raw"
      /\ loaded.complete /\ loaded.binding.config = settings
      /\ place = "publish" =>
           /\ Reproduce(seen, loaded)
           /\ script = "wikitext" => loaded.more.manifest = seen

(* What has been published.                                                *)
Published ==
    publication # None =>
      /\ script = "census" => CensusVerified(publication)
      /\ script = "structural" /\ ~overlapped => StructuralVerified(publication)
      /\ script \in TwiceBound /\ ~overlapped =>
           /\ publication.results.complete
           /\ Reproduce(publication.evidence, publication.results)
           /\ publication.results.binding.config \in Nat
           /\ publication.config \in Nat
           /\ publication.config >= publication.results.binding.config
           /\ config >= publication.config
      /\ script = "bwt" => ScreenVerified(publication)
      /\ script = "wikitext" => WikitextVerified(publication)
      /\ ~overlapped =>
           Complete(receipts) /\ \A t \in Trials : publication.evidence[t] = receipts[t]

PInv == /\ Known /\ Undisturbed /\ Reads /\ CensusReads /\ StructuralReads
        /\ TwiceReads /\ OnceReads /\ Published

LEMMA InitPInv == ASSUME ScheduleAssumption, SourceInit PROVE PInv
<1>1. Known /\ Undisturbed
  BY InitKnown
<1>2. place = "idle" /\ publication = None
  BY DEF SourceInit, PublisherInit
<1>3. Trials \subseteq AllTrials
  BY <1>1, TrialsType DEF Known
<1>4. Reads
  BY <1>3 DEF SourceInit, PublisherInit, Reads, NoRows
<1>5. QED
  BY <1>1, <1>2, <1>4 DEF PInv, CensusReads, StructuralReads, TwiceReads,
     OnceReads, Published

(* The runs do not disturb a publisher: what it has read, and what it has  *)
(* published, is still so.                                                 *)
LEMMA RunKeepsPInv ==
  ASSUME ScheduleAssumption, IInv, PInv, RunNext, UNCHANGED publisher
  PROVE  PInv'
<1> USE DEF PInv, publisher
<1>1. Known' /\ Undisturbed' /\ Settled
  BY RunSound DEF Sound
<1>2. /\ script' = script /\ Schedule' = Schedule /\ Trials' = Trials
      /\ config \in Nat /\ config' \in Nat /\ config' >= config
  BY <1>1 DEF Settled, Schedule, Trials, IInv, Shape
<1>3. /\ Failures(receipts)' = Failures(receipts')
      /\ Reproduce(receipts, loaded)' <=> Reproduce(receipts', loaded')
  BY <1>2 DEF Failures, Reproduce, Consistent, Summary, Group
<1>4. /\ Reproduce(seen, loaded)' <=> Reproduce(seen, loaded)
      /\ Consistent(seen, loaded)' <=> Consistent(seen, loaded)
  BY <1>2 DEF Failures, Reproduce, Consistent, Summary, Group
<1>5. /\ CensusVerified(publication)' <=> CensusVerified(publication)
      /\ StructuralVerified(publication)' <=> StructuralVerified(publication)
      /\ ScreenVerified(publication)' <=> ScreenVerified(publication)
      /\ WikitextVerified(publication)' <=> WikitextVerified(publication)
      /\ Reproduce(publication.evidence, publication.results)'
          <=> Reproduce(publication.evidence, publication.results)
  BY <1>2 DEF CensusVerified, StructuralVerified, ScreenVerified, WikitextVerified,
     Comparison, Failures, Reproduce, Consistent, Summary, Group
<1>6. ~overlapped' /\ Complete(receipts) =>
        /\ Complete(receipts)'
        /\ \A t \in Trials : receipts'[t] = receipts[t]
        /\ Failures(receipts)' = Failures(receipts)
        /\ Reproduce(receipts, loaded) => Reproduce(receipts, loaded)'
  <2> SUFFICES ASSUME ~overlapped', Complete(receipts)
               PROVE  /\ Complete(receipts)'
                      /\ \A t \in Trials : receipts'[t] = receipts[t]
                      /\ Failures(receipts)' = Failures(receipts)
                      /\ Reproduce(receipts, loaded) => Reproduce(receipts, loaded)'
    OBVIOUS
  <2>1. \A t \in Trials : receipts[t] # None /\ receipts'[t] = receipts[t]
    BY <1>1 DEF Settled, Complete
  <2>2. Complete(receipts)'
    BY <1>2, <2>1 DEF Complete
  <2>3. QED
    BY <1>3, <2>1, <2>2, SameReceipts
<1>7. Reads'
  BY <1>1, <1>2 DEF Reads, Settled
<1>8. CensusReads'
  BY <1>2, <1>4 DEF CensusReads
<1>9. StructuralReads'
  BY <1>1, <1>2, <1>4, <1>6 DEF StructuralReads, Settled
<1>10. TwiceReads'
  <2> SUFFICES ASSUME script \in TwiceBound, place # "idle" PROVE TwiceReads'
    BY <1>2 DEF TwiceReads
  <2>1. settings' \in Nat /\ config' >= settings'
    BY <1>2 DEF TwiceReads
  <2>2. ASSUME ~overlapped'
        PROVE  /\ results' # None /\ loaded' = results'
               /\ loaded'.complete /\ loaded'.binding.config \in Nat
               /\ settings' >= loaded'.binding.config
    BY <1>1, <2>2 DEF TwiceReads, TwiceBound, Settled, Sharing
  <2>3. ASSUME ~overlapped', place' \in {"evidence", "publish"}
        PROVE  /\ Complete(receipts)' /\ Reproduce(receipts, loaded)'
               /\ \A i \in DOMAIN Schedule' : i < next' => seen'[Schedule'[i]] # None
    BY <1>1, <1>2, <1>6, <2>3 DEF TwiceReads, Settled
  <2>4. QED
    BY <2>1, <2>2, <2>3 DEF TwiceReads
<1>11. OnceReads'
  BY <1>2, <1>4 DEF OnceReads
<1>12. Published'
  <2> SUFFICES ASSUME publication # None PROVE Published'
    BY DEF Published
  <2>1. ASSUME ~overlapped'
        PROVE  /\ Complete(receipts)'
               /\ \A t \in Trials' : publication'.evidence[t] = receipts'[t]
    BY <1>1, <1>2, <1>6, <2>1 DEF Published, Settled
  <2>2. ASSUME script \in TwiceBound, ~overlapped'
        PROVE  /\ publication.results.complete
               /\ Reproduce(publication.evidence, publication.results)
               /\ publication.results.binding.config \in Nat
               /\ publication.config \in Nat
               /\ publication.config >= publication.results.binding.config
               /\ config' >= publication.config
    <3>1. /\ publication.config \in Nat /\ config >= publication.config
      BY <1>1, <2>2 DEF Published, Settled
    <3>2. config' >= publication.config
      BY <1>2, <3>1
    <3>3. QED
      BY <1>1, <2>2, <3>1, <3>2 DEF Published, Settled
  <2>3. script = "structural" /\ ~overlapped' => StructuralVerified(publication)
    BY <1>1 DEF Published, Settled
  <2>4. QED
    BY <1>2, <1>5, <2>1, <2>2, <2>3 DEF Published
<1>13. QED
  BY <1>1, <1>7, <1>8, <1>9, <1>10, <1>11, <1>12

(* A publisher's step leaves the runs' directory as it was.                *)
LEMMA DirectoryKept ==
  ASSUME Known, Undisturbed, UNCHANGED trialVars
  PROVE  /\ Known' /\ Undisturbed'
         /\ UNCHANGED <<script, receipts, results, config, overlapped, Schedule, Trials>>
         /\ Failures(receipts)' = Failures(receipts)
         /\ Complete(receipts)' <=> Complete(receipts)
         /\ Reproduce(receipts, loaded)' <=> Reproduce(receipts, loaded')
         /\ Reproduce(seen, loaded)' <=> Reproduce(seen', loaded')
         /\ Consistent(seen, loaded)' <=> Consistent(seen', loaded')
<1>1. UNCHANGED <<script, receipts, results, config, overlapped, Schedule, Trials, failed,
                  pc, at, bound>>
  BY DEF trialVars, screen, tree, work, directory, Schedule, Trials
<1>2. Known' /\ Undisturbed'
  BY <1>1 DEF Known, Undisturbed
<1>3. QED
  BY <1>1, <1>2 DEF Complete, Failures, Reproduce, Consistent, Summary, Group

LEMMA PublishedKept ==
  ASSUME Published, UNCHANGED trialVars, UNCHANGED publication
  PROVE  Published'
<1>1. UNCHANGED <<script, receipts, results, config, overlapped, Trials>>
  BY DEF trialVars, screen, tree, work, directory, Trials, Schedule
<1>2. QED
  BY <1>1 DEF Published, TwiceBound, Complete, CensusVerified, StructuralVerified,
     ScreenVerified, WikitextVerified, Comparison, Failures, Reproduce, Consistent,
     Summary, Group

LEMMA LeaveKeepsPInv ==
  ASSUME ScheduleAssumption, PInv, Leave, Published', UNCHANGED trialVars
  PROVE  PInv'
<1>1. Known' /\ Undisturbed' /\ Trials' = Trials
  BY DirectoryKept DEF PInv
<1>2. Trials \subseteq AllTrials
  BY TrialsType DEF PInv, Known
<1>3. Reads'
  BY <1>1, <1>2 DEF Leave, Reads, NoRows
<1>4. place' = "idle"
  BY DEF Leave
<1>5. QED
  BY <1>1, <1>3, <1>4 DEF PInv, CensusReads, StructuralReads, TwiceReads, OnceReads

LEMMA LoadKeepsPInv ==
  ASSUME ScheduleAssumption, IInv, PInv, UNCHANGED trialVars,
         \/ LoadCensus \/ LoadProbe \/ LoadRecord \/ LoadLongRange \/ LoadBwt
         \/ LoadWikitext
  PROVE  PInv'
<1> USE DEF PInv, LoadCensus, LoadProbe, LoadRecord, LoadLongRange, LoadBwt,
            LoadWikitext, LoadBound, Load
<1>1. /\ Known' /\ Undisturbed'
      /\ UNCHANGED <<script, receipts, results, config, overlapped, Schedule, Trials>>
  BY DirectoryKept
<1>2. Published'
  BY PublishedKept
<1>3. Reads'
  BY <1>1 DEF Reads
<1>4. CensusReads' /\ StructuralReads' /\ OnceReads'
  BY <1>1 DEF CensusReads, StructuralReads, OnceReads, Reads
<1>5. TwiceReads'
  BY <1>1 DEF TwiceReads, TwiceBound, IInv, Shape
<1>6. QED
  BY <1>1, <1>2, <1>3, <1>4, <1>5

LEMMA ReadKeepsPInv ==
  ASSUME ScheduleAssumption, PInv, UNCHANGED trialVars, ReadReceipt
  PROVE  PInv'
<1> USE DEF PInv, ReadReceipt
<1>1. /\ Known' /\ Undisturbed'
      /\ UNCHANGED <<script, receipts, results, config, overlapped, Schedule, Trials>>
      /\ Failures(receipts)' = Failures(receipts)
      /\ Complete(receipts)' <=> Complete(receipts)
      /\ Reproduce(receipts, loaded)' <=> Reproduce(receipts, loaded')
  BY DirectoryKept
<1>2. Published'
  BY PublishedKept
<1>3. /\ DOMAIN Schedule = 1..Len(Schedule)
      /\ \A i \in DOMAIN Schedule : Schedule[i] \in Trials /\ Schedule[i] \in AllTrials
  BY ScheduleType DEF Known, Trials
<1>4. DOMAIN seen' = AllTrials /\ \A t \in AllTrials : seen'[t] \in {seen[t], receipts[t]}
  BY DEF Reads
<1>5. Reads'
  BY <1>1, <1>4, TrialsType DEF Reads, Known
<1>6. CensusReads' /\ StructuralReads' /\ OnceReads'
  BY <1>1 DEF CensusReads, StructuralReads, OnceReads
<1>7. TwiceReads'
  <2>1. ASSUME ~overlapped, script \in TwiceBound, place = "evidence",
               NEW i \in DOMAIN Schedule, i < next + 1
        PROVE  seen'[Schedule[i]] # None
    <3>1. Schedule[i] \in Trials /\ Schedule[i] \in AllTrials /\ receipts[Schedule[i]] # None
      BY <1>3, <2>1 DEF TwiceReads, Complete
    <3>2. CASE i = next
      BY <3>1, <3>2 DEF Reads
    <3>3. CASE i # next
      <4>1. i < next
        BY <1>3, <2>1, <3>3 DEF Reads
      <4>2. seen[Schedule[i]] # None
        BY <2>1, <4>1 DEF TwiceReads
      <4>3. QED
        BY <1>4, <3>1, <4>2
    <3>4. QED
      BY <3>2, <3>3
  <2>2. QED
    BY <1>1, <2>1 DEF TwiceReads
<1>8. QED
  BY <1>1, <1>2, <1>5, <1>6, <1>7

(* Where every receipt has been found, those found are those there are.    *)
LEMMA AllSeen ==
  ASSUME Reads, ~overlapped, \A t \in Trials : seen[t] # None
  PROVE  /\ Complete(receipts) /\ \A t \in Trials : seen[t] = receipts[t]
         /\ Failures(seen) = Failures(receipts)
         /\ \A results_ : Reproduce(seen, results_) <=> Reproduce(receipts, results_)
<1>1. \A t \in Trials : seen[t] = receipts[t] /\ receipts[t] = seen[t] /\ receipts[t] # None
  BY DEF Reads
<1>2. QED
  BY <1>1, SameReceipts DEF Complete

LEMMA FirstKeepsPInv ==
  ASSUME ScheduleAssumption, IInv, PInv, UNCHANGED trialVars,
         ValidateReceipts \/ ValidateStructural \/ VerifyRecord \/ VerifyLongRange
  PROVE  PInv'
<1> USE DEF PInv
<1>1. /\ Known' /\ Undisturbed'
      /\ UNCHANGED <<script, receipts, results, config, overlapped, Schedule, Trials>>
      /\ Failures(receipts)' = Failures(receipts)
      /\ Complete(receipts)' <=> Complete(receipts)
      /\ Reproduce(receipts, loaded)' <=> Reproduce(receipts, loaded')
  BY DirectoryKept
<1>2. Trials \subseteq AllTrials
  BY TrialsType DEF Known
<1> DEFINE Was(accepted, failures) ==
        /\ FirstReading(accepted, failures)
        /\ script = "structural" =>
             failures = Failures(seen) /\ (accepted => Consistent(seen, loaded))
        /\ script # "structural" =>
             failures = 0 /\ (accepted => Reproduce(seen, loaded))
        /\ script \in {"census", "structural"} \cup TwiceBound
<1>0. PICK accepted \in BOOLEAN : \E failures : Was(accepted, failures)
  BY DEF ValidateReceipts, ValidateStructural, VerifyRecord, VerifyLongRange, TwiceBound,
     Reproduce, Consistent
<1>3. PICK failures : Was(accepted, failures)
  BY <1>0
<1>4. CASE ~accepted
  BY <1>3, <1>4, PublishedKept, LeaveKeepsPInv DEF FirstReading, Refuse
<1>5. CASE accepted
  <2> USE <1>5
  <2>1. /\ place = "raw" /\ place' = "evidence" /\ next' = 1 /\ seen' = NoRows
        /\ noted' = failures /\ publication' = publication
        /\ loaded' = (IF settings = None THEN loaded ELSE results)
        /\ settings' = (IF settings = None THEN None ELSE config)
    BY <1>3 DEF FirstReading
  <2>2. Published'
    BY <2>1, PublishedKept
  <2>3. Reads'
    BY <1>1, <1>2, <2>1 DEF Reads, NoRows
  <2>4. CensusReads' /\ OnceReads'
    BY <1>1, <1>3, <2>1 DEF CensusReads, OnceReads, TwiceBound
  <2>5. Consistent(seen, loaded) => \A t \in Trials : seen[t] # None
    BY DEF Consistent
  <2>6. StructuralReads'
    BY <1>1, <1>3, <2>1, <2>5, AllSeen DEF StructuralReads
  <2>7. TwiceReads'
    <3> SUFFICES ASSUME script \in TwiceBound PROVE TwiceReads'
      BY <1>1 DEF TwiceReads
    <3>1. /\ settings # None /\ loaded' = results /\ settings' = config /\ config \in Nat
          /\ Reproduce(seen, loaded)
      BY <1>3, <2>1 DEF TwiceReads, ScheduleAssumption, IInv, Shape, TwiceBound
    <3>2. ASSUME ~overlapped
          PROVE  /\ results # None /\ loaded' = loaded /\ loaded.complete
                 /\ loaded.binding.config \in Nat /\ config >= loaded.binding.config
      BY <2>1, <3>1, <3>2 DEF TwiceReads
    <3>3. ~overlapped => Complete(receipts) /\ Reproduce(receipts, loaded)
      BY <2>5, <3>1, AllSeen DEF Reproduce
    <3>4. \A i \in DOMAIN Schedule : ~ (i < 1)
      BY ScheduleType DEF Known
    <3>5. QED
      BY <1>1, <2>1, <3>1, <3>2, <3>3, <3>4 DEF TwiceReads
  <2>8. QED
    BY <1>1, <2>2, <2>3, <2>4, <2>6, <2>7
<1>6. QED
  BY <1>4, <1>5

LEMMA LastKeepsPInv ==
  ASSUME ScheduleAssumption, PInv, UNCHANGED trialVars,
         \/ ValidateEvidence \/ ValidateStructuralEvidence \/ DeriveRecord
         \/ DeriveLongRange \/ ReconstructBwt \/ ValidateStrict
  PROVE  PInv'
<1> USE DEF PInv
<1>1. /\ Known' /\ Undisturbed'
      /\ UNCHANGED <<script, receipts, results, config, overlapped, Schedule, Trials>>
      /\ Failures(receipts)' = Failures(receipts)
      /\ Complete(receipts)' <=> Complete(receipts)
      /\ Reproduce(receipts, loaded)' <=> Reproduce(receipts, loaded')
      /\ Reproduce(seen, loaded)' <=> Reproduce(seen', loaded')
      /\ Consistent(seen, loaded)' <=> Consistent(seen', loaded')
  BY DirectoryKept
<1>2. PICK accepted \in BOOLEAN :
        /\ LastReading(accepted)
        /\ accepted =>
             /\ script \in {"census", "bwt", "wikitext"} => Reproduce(seen, loaded)
             /\ script = "structural" => Consistent(seen, loaded)
             /\ script = "wikitext" => loaded.more.manifest = seen
  BY DEF ValidateEvidence, ValidateStructuralEvidence, DeriveRecord, DeriveLongRange,
     ReconstructBwt, ValidateStrict, Reproduce, Consistent, LastReading
<1>3. CASE ~accepted
  BY <1>2, <1>3, PublishedKept, LeaveKeepsPInv DEF LastReading, Refuse
<1>4. CASE accepted
  <2> USE <1>4
  <2>1. /\ place = "evidence" /\ next > Len(Schedule) /\ place' = "publish"
        /\ UNCHANGED <<loaded, settings, next, seen, noted, publication>>
    BY <1>2 DEF LastReading
  <2>2. Published'
    BY <2>1, PublishedKept
  <2>3. Reads'
    BY <1>1, <2>1 DEF Reads
  <2>4. CensusReads' /\ StructuralReads' /\ OnceReads'
    BY <1>1, <1>2, <2>1 DEF CensusReads, StructuralReads, OnceReads
  <2>5. TwiceReads'
    BY <1>1, <2>1 DEF TwiceReads
  <2>6. QED
    BY <1>1, <2>2, <2>3, <2>4, <2>5
<1>5. QED
  BY <1>3, <1>4

LEMMA PublishKeepsPInv ==
  ASSUME ScheduleAssumption, PInv, UNCHANGED trialVars, Publish
  PROVE  PInv'
<1> USE DEF PInv
<1>1. /\ UNCHANGED <<script, receipts, results, config, overlapped, Schedule, Trials>>
      /\ Complete(receipts)' <=> Complete(receipts)
  BY DirectoryKept
<1>2. CASE publication # None
  BY <1>2, PublishedKept, LeaveKeepsPInv DEF Publish
<1>3. CASE publication = None
  <2> DEFINE p == [results |-> loaded, config |-> settings, evidence |-> seen,
                   comparison |-> Comparison(loaded, noted)]
  <2>1. /\ place = "publish" /\ Leave /\ publication' = p
        /\ p.results = loaded /\ p.config = settings /\ p.evidence = seen
        /\ p.comparison = Comparison(loaded, noted)
    BY <1>3 DEF Publish
  <2> HIDE DEF p
  <2>2. /\ CensusVerified(publication)' <=> CensusVerified(p)
        /\ StructuralVerified(publication)' <=> StructuralVerified(p)
        /\ ScreenVerified(publication)' <=> ScreenVerified(p)
        /\ WikitextVerified(publication)' <=> WikitextVerified(p)
        /\ Reproduce(publication.evidence, publication.results)'
            <=> Reproduce(p.evidence, p.results)
    BY <1>1, <2>1 DEF CensusVerified, StructuralVerified, ScreenVerified, WikitextVerified,
       Comparison, Failures, Reproduce, Consistent, Summary, Group
  <2>3. script = "census" => CensusVerified(p) /\ Complete(seen)
    BY <2>1 DEF CensusReads, CensusVerified, Reproduce, Consistent, Complete
  <2>4. script = "structural" =>
          Complete(seen) /\ (~overlapped => StructuralVerified(p))
    <3>1. script = "structural" => Consistent(seen, loaded) /\ Complete(seen)
      BY <2>1 DEF StructuralReads, Consistent, Complete
    <3>2. script = "structural" /\ ~overlapped => Failures(seen) = noted
      BY <2>1, <3>1, AllSeen DEF StructuralReads, Complete
    <3>3. QED
      BY <2>1, <3>1, <3>2 DEF StructuralVerified
  <2>5. script \in TwiceBound /\ ~overlapped =>
          /\ Complete(seen) /\ Reproduce(seen, loaded) /\ loaded.complete
          /\ loaded.binding.config \in Nat /\ settings \in Nat
          /\ settings >= loaded.binding.config /\ config >= settings
    <3> SUFFICES ASSUME script \in TwiceBound, ~overlapped
                 PROVE  /\ Complete(seen) /\ Reproduce(seen, loaded) /\ loaded.complete
                        /\ loaded.binding.config \in Nat /\ settings \in Nat
                        /\ settings >= loaded.binding.config /\ config >= settings
      OBVIOUS
    <3>1. next > Len(Schedule) /\ next \in Nat
      BY <2>1 DEF Reads
    <3>2. \A i \in DOMAIN Schedule : i < next
      BY <3>1, ScheduleType DEF Known
    <3>3. \A t \in Trials : seen[t] # None
      BY <2>1, <3>2 DEF TwiceReads, Trials
    <3>4. Reproduce(receipts, loaded)
      BY <2>1 DEF TwiceReads
    <3>5. QED
      BY <2>1, <3>3, <3>4, AllSeen DEF TwiceReads, Complete
  <2>6. script \in {"bwt", "wikitext"} =>
          /\ Complete(seen) /\ ScreenVerified(p)
          /\ script = "wikitext" => WikitextVerified(p)
    BY <2>1 DEF OnceReads, ScreenVerified, WikitextVerified, Reproduce, Consistent, Complete
  <2>7. script \in {"census", "structural", "bwt", "wikitext"} \cup TwiceBound
    BY DEF ScheduleAssumption, Known, KnownScripts, TwiceBound
  <2>8. ~overlapped => Complete(receipts) /\ \A t \in Trials : seen[t] = receipts[t]
    BY <2>3, <2>4, <2>5, <2>6, <2>7, AllSeen DEF Complete
  <2>9. Published'
    BY <1>1, <2>1, <2>2, <2>3, <2>4, <2>5, <2>6, <2>8 DEF Published
  <2>10. QED
    BY <2>1, <2>9, LeaveKeepsPInv
<1>4. QED
  BY <1>2, <1>3

LEMMA NextPInv ==
  ASSUME ScheduleAssumption, IInv, PInv, [SourceNext]_vars
  PROVE  PInv'
<1>1. CASE PublisherNext /\ UNCHANGED trialVars
  BY <1>1, LoadKeepsPInv, ReadKeepsPInv, FirstKeepsPInv, LastKeepsPInv, PublishKeepsPInv
     DEF PublisherNext
<1>2. CASE RunNext /\ UNCHANGED publisher
  BY <1>2, RunKeepsPInv
<1>3. CASE UNCHANGED vars
  <2> USE <1>3 DEF PInv, vars, publisher
  <2>1. /\ Known' /\ Undisturbed'
        /\ UNCHANGED <<script, receipts, results, config, overlapped, Schedule, Trials>>
        /\ Failures(receipts)' = Failures(receipts)
        /\ Complete(receipts)' <=> Complete(receipts)
        /\ Reproduce(receipts, loaded)' <=> Reproduce(receipts, loaded')
        /\ Reproduce(seen, loaded)' <=> Reproduce(seen', loaded')
        /\ Consistent(seen, loaded)' <=> Consistent(seen', loaded')
    BY DirectoryKept
  <2>2. Published'
    BY PublishedKept
  <2>3. QED
    BY <2>1, <2>2 DEF Reads, CensusReads, StructuralReads, TwiceReads, OnceReads
<1>4. QED
  BY <1>1, <1>2, <1>3 DEF SourceNext

THEOREM PublisherInvariant == ASSUME ScheduleAssumption PROVE SourceSpec => []PInv
<1>1. SourceInit => PInv
  BY InitPInv
<1>2. IInv /\ PInv /\ [SourceNext]_vars => PInv'
  BY NextPInv
<1>3. QED
  BY <1>1, <1>2, Invariant, PTL DEF SourceSpec

(* A publication can be verified without the directory, whatever runs do   *)
(* to the directory between the publisher's readings; of the publishers    *)
(* that compare nothing with their first reading this holds as long as no  *)
(* two runs overlap and nobody edits the config.                           *)
THEOREM PublicationsReproduce ==
  ASSUME ScheduleAssumption PROVE SourceSpec => []EvidenceReproduces
<1>1. IInv /\ PInv => EvidenceReproduces
  <2> SUFFICES ASSUME IInv, PInv, publication # None PROVE EvidenceReproduces
    BY DEF EvidenceReproduces
  <2>1. script \in TwiceBound /\ ~overlapped
          /\ config = publication.results.binding.config
            => ScreenVerified(publication)
    BY DEF PInv, Published, ScreenVerified
  <2>2. script \in KnownScripts
    BY DEF PInv, Known, ScheduleAssumption
  <2>3. QED
    BY <2>1, <2>2 DEF PInv, Published, EvidenceReproduces, TwiceBound, KnownScripts
<1>2. QED
  BY <1>1, Invariant, PublisherInvariant, PTL

(* A failure that left a receipt is shown by every publication under its   *)
(* bindings, as long as no two runs have overlapped, and then only the     *)
(* structural publisher has published.                                     *)
THEOREM FailuresAreFinal ==
  ASSUME ScheduleAssumption PROVE SourceSpec => []FailureReceiptsAreFinal
<1>1. PInv => FailureReceiptsAreFinal
  <2> SUFFICES ASSUME PInv, publication # None, ~overlapped, NEW f \in failed, f[3]
               PROVE  script = "structural" /\ ~publication.evidence[f[1]].passed
    BY DEF FailureReceiptsAreFinal, FailuresOf
  <2>1. f[1] \in Trials /\ ~receipts[f[1]].passed
    BY DEF PInv, Undisturbed
  <2>2. ~publication.evidence[f[1]].passed
    BY <2>1 DEF PInv, Published
  <2>3. script # "structural" => Failures(publication.evidence) = 0
    BY DEF PInv, Published, Known, ScheduleAssumption, KnownScripts, TwiceBound,
       CensusVerified, ScreenVerified, WikitextVerified, Reproduce
  <2>4. QED
    BY <2>1, <2>2, <2>3, NoFailures DEF PInv, Known
<1>2. QED
  BY <1>1, PublisherInvariant, PTL

--------------------------------------------------------------------------------
(* MoonRuns: any number of runs, cells and snapshots, any cap of the       *)
(* ledger, any number of kills and power losses.                           *)

Diagnostics == {r \in Sweepers : Moon!IsC1(r)}
SweepPlaces == {"idle", "cell", "kernel", "record", "truncate", "write", "ended", "killed"}
Unattempted == {"idle", "attempt", "lock", "budget", "build", "built", "reserve"}
Attempted == {"snapshots", "charge", "sync", "dispatch", "kernel", "publish", "syncdir"}
Over == {"unlock", "ended", "killed"}

RowType ==
  [status : {"skipped", "measured", "failed", "killed_by_budget", "encode_failed",
             "invalid", "dispatch_error", "invalid_report"},
   by : Sweepers \cup {None}, ended : Moon!Outcomes \cup {"none"}]

Placed ==
  \A r \in Sweepers :
    spot[r] \in IF Moon!IsC1(r) THEN Unattempted \cup Attempted \cup Over ELSE SweepPlaces

MoonTypes ==
  /\ kind \in [Sweepers -> Moon!Kinds] /\ DOMAIN spot = Sweepers
  /\ consumed \in [Sweepers -> 0..Cap] /\ item \in [Sweepers -> Nat \ {0}]
  /\ executed \in [Sweepers -> Nat] /\ records \in [Sweepers -> Seq(RowType)]
  /\ ledger \in durable /\ durable \subseteq Moon!Torn..Cap /\ overlap \in BOOLEAN
  /\ start \in 0..Cap /\ kills \in Nat /\ losses \in Nat

FileTypes ==
  /\ rss \in [1..Cells -> [by : Sweepers \cup {None}, says : {"clean", "over", "failed"}]]
  /\ receipt \in [1..Cells -> Sweepers \cup {None}]
  /\ outcome \in [Sweepers -> Moon!Outcomes] /\ orphans \subseteq Sweepers \X (1..Cells)
  /\ lock \in Sweepers \cup {None} /\ ref \in Sweepers \cup {None}
  /\ published \in [Moon!Outputs -> Sweepers \cup {None}] /\ synced \subseteq Moon!Outputs

SweepsInBounds ==
  \A r \in Sweepers : Moon!IsSweep(r) /\ spot[r] \in {"kernel", "record"}
                        => item[r] <= Cells /\ consumed[r] < Cap

(* Where a diagnostic is in its loop over the snapshots, and what it has   *)
(* charged, dispatched and recorded by then.                               *)
Position(r) ==
  /\ executed[r] <= Snapshots /\ Len(records[r]) <= Snapshots
  /\ spot[r] \in Unattempted \cup {"snapshots"}
       => executed[r] = 0 /\ item[r] = 1 /\ records[r] = <<>>
  /\ spot[r] \in {"build", "built", "reserve"} \cup Attempted => Before + Snapshots <= Cap
  /\ spot[r] \in {"build", "built", "reserve", "snapshots"} => consumed[r] = Before
  /\ spot[r] = "charge" /\ item[r] <= Snapshots =>
       /\ consumed[r] = Before + item[r] - 1
       /\ executed[r] = item[r] - 1 /\ Len(records[r]) = item[r] - 1
  /\ spot[r] \in {"sync", "dispatch", "kernel"} =>
       /\ item[r] <= Snapshots /\ consumed[r] = Before + item[r]
       /\ executed[r] = IF spot[r] = "kernel" THEN item[r] ELSE item[r] - 1
       /\ Len(records[r]) = item[r] - 1
  /\ Moon!Holds(r) => lock = r
  /\ executed[r] > 0 \/ spot[r] \in Attempted => ref = r

Positions == \A r \in Diagnostics : Position(r)

Exclusive == ~overlap => \A q, r \in Sweepers : Moon!Holds(q) /\ Moon!Holds(r) => q = r

(* What a diagnostic dispatched is in the file wherever a power loss may   *)
(* leave it, and in what a sweep that runs later has read.                 *)
Kept(r) ==
  /\ executed[r] > 0 => \A c \in durable : c = Moon!Torn \/ c >= Before + executed[r]
  /\ spot[r] = "sync" => ledger = consumed[r]
  /\ spot[r] = "dispatch" => durable = {consumed[r]}
HasRead(q) ==
  \A r \in Diagnostics :
    Moon!Holds(q) /\ executed[r] > 0 => consumed[q] >= Before + executed[r]
Charged ==
  ~overlap => (\A r \in Diagnostics : Kept(r)) /\ (\A q \in Moon!Sweeps : HasRead(q))

(* A kernel is in the ledger, or in the count of the run that holds it.    *)
Total == start + Cardinality(Moon!Dispatches)
InLedger ==
  (\A r \in Moon!Sweeps : ~Moon!Holds(r)) => ledger # Moon!Torn /\ Moon!Count >= Total
InCount(r) ==
  /\ spot[r] \in {"cell", "kernel", "record"} => ledger # Moon!Torn
  /\ spot[r] = "cell" => Moon!Count = consumed[r]
  /\ spot[r] \in {"cell", "truncate", "write"} => consumed[r] >= Total
  /\ spot[r] \in {"kernel", "record"} => consumed[r] + 1 >= Total
Counted ==
  kills = 0 /\ losses = 0 /\ ~overlap =>
    /\ InLedger
    /\ \A r \in Moon!Sweeps : InCount(r)
    /\ \A r \in Diagnostics : spot[r] \in {"sync", "dispatch"} => ledger > Total

(* What is published so far is the beginning of what the run publishes.    *)
Progress(r) ==
  spot[r] \in {"publish", "syncdir"} =>
    /\ item[r] <= Len(Moon!ToPublish(r)) + 1
    /\ \A j \in 1..(item[r] - 1) : /\ published[Moon!ToPublish(r)[j]] = r
                                   /\ Moon!ToPublish(r)[j] \in synced
    /\ spot[r] = "syncdir" => /\ item[r] <= Len(Moon!ToPublish(r))
                              /\ published[Moon!ToPublish(r)[item[r]]] = r

OfTheAttempt ==
  /\ ref # None => ref \in Diagnostics /\ spot[ref] \in Attempted \cup Over
  /\ \A n \in Moon!Outputs : published[n] # None =>
       published[n] = ref /\ spot[ref] \in {"publish", "syncdir"} \cup Over
  /\ \A n \in synced : published[n] # None
  /\ published[Moon!Manifest] # None =>
       /\ Cardinality(Moon!MeasuredRows(ref)) = Snapshots
       /\ \A n \in Moon!Outputs \ {Moon!Manifest} : published[n] = ref /\ n \in synced
  /\ \A r \in Diagnostics : Progress(r)

(* A kernel that failed or went over its limits leaves a report that says  *)
(* so, as long as nothing else writes it.                                  *)
HonestOf(r) ==
  /\ \A i \in DOMAIN records[r] :
       records[r][i].status = "measured" => records[r][i].ended \in {"clean", "unstarted"}
  /\ spot[r] = "record" /\ kind[r] = "prescreen" /\ outcome[r] \in {"over", "failed"}
       => rss[item[r]].says \in {"over", "failed"}
  /\ spot[r] = "record" /\ kind[r] = "h1" => outcome[r] \in {"clean", "failed"}
Honest == ~overlap => \A r \in Moon!Sweeps : HonestOf(r)

MoonInv ==
  /\ MoonTypes /\ Placed /\ FileTypes /\ IsFiniteSet(Moon!Dispatches) /\ SweepsInBounds /\ Positions
  /\ Exclusive /\ Charged /\ Counted /\ OfTheAttempt /\ Honest

(* MoonRuns counts with the operator of its own FiniteSets.                *)
LEMMA SameCardinality == \A S : Moon!Cardinality(S) = Cardinality(S)
  BY DEF Moon!Cardinality, Cardinality

(* The kernels dispatched: unchanged, or one more.                         *)
LEMMA DispatchesAre ==
  /\ \A x : x \in Moon!Dispatches <=> \E r \in Sweepers : \E k \in 1..executed[r] : x = <<r, k>>
  /\ \A x : (x \in Moon!Dispatches)' <=> \E r \in Sweepers : \E k \in 1..executed'[r] : x = <<r, k>>
  BY DEF Moon!Dispatches

LEMMA SameDispatches == ASSUME executed' = executed PROVE Moon!Dispatches' = Moon!Dispatches
  BY DEF Moon!Dispatches

LEMMA OneMoreDispatch ==
  ASSUME executed \in [Sweepers -> Nat], NEW r \in Sweepers, IsFiniteSet(Moon!Dispatches),
         executed' = [executed EXCEPT ![r] = @ + 1]
  PROVE  /\ IsFiniteSet(Moon!Dispatches')
         /\ Cardinality(Moon!Dispatches') = Cardinality(Moon!Dispatches) + 1
         /\ Cardinality(Moon!Dispatches) \in Nat
<1> DEFINE new == <<r, executed[r] + 1>>
<1>1. new \notin Moon!Dispatches
  BY DispatchesAre
<1>2. ASSUME NEW x PROVE (x \in Moon!Dispatches)' <=> x \in Moon!Dispatches \cup {new}
  <2>1. ASSUME NEW q \in Sweepers, NEW k \in 1..executed'[q], x = <<q, k>>
        PROVE  x \in Moon!Dispatches \cup {new}
    <3>1. CASE q = r /\ k = executed[r] + 1
      BY <2>1, <3>1
    <3>2. CASE ~(q = r /\ k = executed[r] + 1)
      <4>1. k \in 1..executed[q]
        BY <3>2
      <4>2. QED
        BY <2>1, <4>1, DispatchesAre
    <3>3. QED
      BY <3>1, <3>2
  <2>2. ASSUME NEW q \in Sweepers, NEW k \in 1..executed[q], x = <<q, k>>
        PROVE  (x \in Moon!Dispatches)'
    <3>1. k \in 1..executed'[q]
      OBVIOUS
    <3>2. QED
      BY <2>2, <3>1, DispatchesAre
  <2>3. ASSUME x = new PROVE (x \in Moon!Dispatches)'
    <3>1. executed[r] + 1 \in 1..executed'[r]
      OBVIOUS
    <3>2. QED
      BY <2>3, <3>1, DispatchesAre
  <2>4. QED
    BY <2>1, <2>2, <2>3, DispatchesAre
<1>3. Moon!Dispatches' = Moon!Dispatches \cup {new}
  BY <1>2
<1> HIDE DEF new
<1>4. QED
  BY <1>1, <1>3, FS_AddElement, FS_CardinalityType

(* Measured rows are counted, at most one per snapshot.                    *)
LEMMA MeasuredCount ==
  ASSUME MoonTypes, NEW r \in Sweepers
  PROVE  /\ Cardinality(Moon!MeasuredRows(r)) \in Nat
         /\ Cardinality(Moon!MeasuredRows(r)) <= Len(records[r])
<1>1. Len(records[r]) \in Nat /\ DOMAIN records[r] = 1..Len(records[r])
  BY DEF MoonTypes
<1>2. IsFiniteSet(1..Len(records[r])) /\ Cardinality(1..Len(records[r])) = Len(records[r])
  BY <1>1, FS_Interval
<1>3. Moon!MeasuredRows(r) \subseteq 1..Len(records[r])
  BY <1>1 DEF Moon!MeasuredRows
<1>4. QED
  BY <1>2, <1>3, FS_Subset, FS_CardinalityType

(* The order of publication: the reports, the summary, and the manifest of *)
(* a run that measured every snapshot.                                     *)
LEMMA PublicationOrder ==
  ASSUME MoonTypes, NEW r \in Sweepers, Len(records[r]) <= Snapshots
  PROVE  /\ Len(Moon!ToPublish(r)) \in Nat
         /\ \A j \in 1..Len(Moon!ToPublish(r)) : Moon!ToPublish(r)[j] \in Moon!Outputs
         /\ \A j \in 1..Len(Moon!ToPublish(r)) : Moon!ToPublish(r)[j] = Moon!Manifest =>
              /\ Cardinality(Moon!MeasuredRows(r)) = Snapshots
              /\ j = Snapshots + 2
              /\ \A k \in 1..(j - 1) : Moon!ToPublish(r)[k] = k
<1> DEFINE n == Cardinality(Moon!MeasuredRows(r))
           reports == [i \in 1..n |-> i]
           last == IF n = Snapshots THEN <<Moon!Manifest>> ELSE <<>>
<1>1. n \in Nat /\ n <= Snapshots /\ Snapshots \in Nat \ {0}
  BY MeasuredCount, MoonAssumption DEF Moon!RunsAssumption, Moon!DiagnosticAssumption, MoonTypes
<1>2. Moon!ToPublish(r) = reports \o <<Moon!Summary>> \o last
  BY SameCardinality DEF Moon!ToPublish
<1>3. Moon!Summary = Snapshots + 1 /\ Moon!Manifest = Snapshots + 2 /\ Moon!Outputs = 1..(Snapshots + 2)
  BY DEF Moon!Summary, Moon!Manifest, Moon!Outputs
<1> HIDE DEF n
<1>4. reports \in Seq(Nat) /\ Len(reports) = n
  BY <1>1
<1>5. <<Moon!Summary>> \in Seq(Nat) /\ Len(<<Moon!Summary>>) = 1 /\ <<Moon!Summary>>[1] = Snapshots + 1
  BY <1>1, <1>3
<1>6. last \in Seq(Nat) /\ Len(last) = (IF n = Snapshots THEN 1 ELSE 0)
      /\ (n = Snapshots => last[1] = Snapshots + 2)
  BY <1>1, <1>3
<1> HIDE DEF last
<1> DEFINE first == reports \o <<Moon!Summary>>
<1>7. /\ first \in Seq(Nat) /\ Len(first) = n + 1
      /\ \A j \in 1..(n + 1) : first[j] = IF j <= n THEN j ELSE Snapshots + 1
  BY <1>1, <1>4, <1>5
<1> HIDE DEF first
<1>8. /\ Len(Moon!ToPublish(r)) = n + 1 + Len(last)
      /\ \A j \in 1..(n + 1 + Len(last)) :
           Moon!ToPublish(r)[j] = IF j <= n + 1 THEN first[j] ELSE last[j - (n + 1)]
  <2>1. Moon!ToPublish(r) = first \o last
    BY <1>2 DEF first
  <2>2. first \in Seq(Nat) /\ last \in Seq(Nat) /\ Len(first) = n + 1 /\ Len(last) \in Nat
    BY <1>6, <1>7
  <2>3. /\ Len(first \o last) = Len(first) + Len(last)
        /\ \A j \in 1..(Len(first) + Len(last)) :
             (first \o last)[j] = IF j <= Len(first) THEN first[j] ELSE last[j - Len(first)]
    BY <2>2
  <2>4. QED
    BY <2>1, <2>2, <2>3
<1>9. ASSUME NEW j \in 1..Len(Moon!ToPublish(r))
      PROVE  /\ j <= n => Moon!ToPublish(r)[j] = j
             /\ j = n + 1 => Moon!ToPublish(r)[j] = Snapshots + 1
             /\ j > n + 1 => /\ n = Snapshots /\ j = Snapshots + 2
                             /\ Moon!ToPublish(r)[j] = Snapshots + 2
  <2>1. CASE j <= n + 1
    BY <1>1, <1>6, <1>7, <1>8, <2>1
  <2>2. CASE j > n + 1
    <3>1. n = Snapshots /\ j = n + 2 /\ Len(last) = 1
      BY <1>1, <1>6, <1>8, <2>2
    <3>2. QED
      BY <1>1, <1>6, <1>8, <2>2, <3>1
  <2>3. QED
    BY <1>1, <2>1, <2>2
<1>10. Len(Moon!ToPublish(r)) \in Nat
  BY <1>1, <1>6, <1>8
<1>11. ASSUME NEW j \in 1..Len(Moon!ToPublish(r)), Moon!ToPublish(r)[j] = Moon!Manifest
       PROVE  /\ n = Snapshots /\ j = Snapshots + 2
              /\ \A k \in 1..(j - 1) : Moon!ToPublish(r)[k] = k
  <2>1. n = Snapshots /\ j = Snapshots + 2
    BY <1>1, <1>3, <1>9, <1>10, <1>11
  <2>2. ASSUME NEW k \in 1..(j - 1) PROVE Moon!ToPublish(r)[k] = k
    <3>1. k \in 1..Len(Moon!ToPublish(r)) /\ (k <= n \/ k = n + 1)
      BY <1>1, <1>10, <2>1
    <3>2. QED
      BY <1>1, <1>9, <2>1, <3>1
  <2>3. QED
    BY <2>1, <2>2
<1>12. \A j \in 1..Len(Moon!ToPublish(r)) : Moon!ToPublish(r)[j] \in Moon!Outputs
  BY <1>1, <1>3, <1>9, <1>10
<1>13. QED
  BY <1>10, <1>11, <1>12 DEF n


(* Nothing has run.                                                        *)
LEMMA InitMoonInv == Moon!Init => MoonInv
<1> SUFFICES ASSUME Moon!Init PROVE MoonInv
  OBVIOUS
<1> USE MoonAssumption DEF Moon!Init, Moon!RunsAssumption, Moon!LedgerInit, Moon!SweepInit,
                           Moon!DiagnosticInit, Moon!LedgerAssumption, Moon!Sweeps,
                           Moon!SweepAssumption, Moon!DiagnosticAssumption, Moon!IsC1,
                           Moon!IsSweep, Diagnostics, Moon!Absent, Moon!Torn, Moon!Count
<1>1. MoonTypes
  <2>2. ledger \in durable /\ durable \subseteq Moon!Torn..Cap /\ start \in 0..Cap
    OBVIOUS
  <2>3. records \in [Sweepers -> Seq(RowType)]
    OBVIOUS
  <2>4. /\ kind \in [Sweepers -> Moon!Kinds] /\ DOMAIN spot = Sweepers
        /\ consumed \in [Sweepers -> 0..Cap] /\ item \in [Sweepers -> Nat \ {0}]
        /\ executed \in [Sweepers -> Nat]
    OBVIOUS
  <2>5. overlap \in BOOLEAN /\ kills \in Nat /\ losses \in Nat
    OBVIOUS
  <2>6. QED
    BY <2>2, <2>3, <2>4, <2>5, Zenon DEF MoonTypes
<1>2. FileTypes
  BY DEF FileTypes, Moon!Outcomes, Moon!Outputs
<1>3. \A r \in Sweepers : executed[r] = 0 /\ item[r] = 1 /\ records[r] = <<>> /\ spot[r] = "idle"
  OBVIOUS
<1>4. Moon!Dispatches = {}
  <2>1. \A x : x \notin Moon!Dispatches
    BY <1>3, DispatchesAre
  <2>2. QED
    BY <2>1
<1>5. IsFiniteSet(Moon!Dispatches) /\ Cardinality(Moon!Dispatches) = 0
  BY <1>4, FS_EmptySet
<1>6. SweepsInBounds /\ Exclusive /\ Charged /\ Honest
  BY <1>3 DEF SweepsInBounds, Exclusive, Charged, Kept, HasRead, Honest, HonestOf, Moon!Holds
<1>7. Positions
  BY <1>3 DEF Positions, Position, Moon!Holds, Unattempted, Attempted
<1>8. Counted
  BY <1>3, <1>5 DEF Counted, InLedger, InCount, Total
<1>9. OfTheAttempt
  BY <1>3 DEF OfTheAttempt, Progress, Moon!Manifest, Moon!Summary, Moon!Outputs
<1>10. Placed
  BY <1>3 DEF Placed, Unattempted, SweepPlaces
<1>11. QED
  BY <1>1, <1>2, <1>5, <1>6, <1>7, <1>8, <1>9, <1>10 DEF MoonInv

(* Which script a run is of, what a diagnostic publishes: only its rows    *)
(* tell.                                                                   *)
LEMMA KindsKept ==
  ASSUME kind' = kind
  PROVE  /\ Diagnostics' = Diagnostics /\ Moon!Sweeps' = Moon!Sweeps
         /\ \A r : Moon!IsC1(r)' <=> Moon!IsC1(r)
         /\ \A r : Moon!IsSweep(r)' <=> Moon!IsSweep(r)
  BY DEF Diagnostics, Moon!Sweeps, Moon!IsC1, Moon!IsSweep

LEMMA RowsTell ==
  ASSUME NEW r, records'[r] = records[r]
  PROVE  /\ Moon!MeasuredRows(r)' = Moon!MeasuredRows(r)
         /\ Moon!ToPublish(r)' = Moon!ToPublish(r)
<1>1. Moon!MeasuredRows(r)' = Moon!MeasuredRows(r)
  BY DEF Moon!MeasuredRows
<1>2. QED
  BY <1>1 DEF Moon!ToPublish, Moon!Summary, Moon!Manifest

(* Nothing changes for the diagnostics, or nothing for the sweeps.         *)
LEMMA DiagnosticsKept ==
  ASSUME MoonInv, UNCHANGED <<kind, lock, ref, published, synced>>,
         \A d \in Diagnostics : /\ spot'[d] = spot[d] /\ item'[d] = item[d]
                                /\ records'[d] = records[d] /\ executed'[d] = executed[d]
                                /\ consumed'[d] = consumed[d]
  PROVE  Positions' /\ OfTheAttempt'
<1> USE DEF MoonInv
<1>1. Diagnostics' = Diagnostics
  BY KindsKept
<1>2. Positions'
  BY <1>1 DEF Positions, Position, Moon!Holds, Moon!Ended
<1>3. \A d \in Diagnostics : /\ Moon!MeasuredRows(d)' = Moon!MeasuredRows(d)
                             /\ Moon!ToPublish(d)' = Moon!ToPublish(d)
  BY RowsTell
<1>4. Moon!Manifest' = Moon!Manifest /\ Moon!Outputs' = Moon!Outputs
  BY DEF Moon!Manifest, Moon!Outputs
<1>5. \A d \in Diagnostics : Progress(d)'
  <2> SUFFICES ASSUME NEW d \in Diagnostics PROVE Progress(d)'
    OBVIOUS
  <2>1. Progress(d)
    BY DEF OfTheAttempt
  <2>2. Moon!ToPublish(d)' = Moon!ToPublish(d) /\ spot'[d] = spot[d] /\ item'[d] = item[d]
    BY <1>3
  <2>3. QED
    BY <2>1, <2>2 DEF Progress
<1>6. ref # None => /\ ref \in Diagnostics /\ spot'[ref] = spot[ref]
                    /\ Moon!MeasuredRows(ref)' = Moon!MeasuredRows(ref)
  BY <1>3 DEF OfTheAttempt
<1>7. published[Moon!Manifest] # None => ref # None
  BY MoonAssumption DEF OfTheAttempt, Moon!Manifest, Moon!Outputs, Moon!RunsAssumption,
     Moon!DiagnosticAssumption
<1>8. QED
  BY <1>1, <1>2, <1>4, <1>5, <1>6, <1>7 DEF OfTheAttempt

LEMMA SweepsKept ==
  ASSUME MoonInv, UNCHANGED <<kind, rss, outcome>>, ~overlap' => ~overlap,
         \A q \in Moon!Sweeps : /\ spot'[q] = spot[q] /\ item'[q] = item[q]
                                /\ records'[q] = records[q] /\ consumed'[q] = consumed[q]
  PROVE  SweepsInBounds' /\ Honest'
<1>1. Moon!Sweeps' = Moon!Sweeps
  BY KindsKept
<1>2. \A r \in Sweepers : Moon!IsSweep(r)' => r \in Moon!Sweeps
  BY KindsKept DEF Moon!Sweeps
<1>3. SweepsInBounds'
  BY <1>2 DEF MoonInv, SweepsInBounds, Moon!Sweeps
<1>4. Honest'
  BY <1>1 DEF MoonInv, Honest, HonestOf, Moon!Sweeps
<1>5. QED
  BY <1>3, <1>4

(* A run moves to a place of its script.                                   *)
LEMMA StaysPlaced ==
  ASSUME MoonTypes, Placed, kind' = kind, NEW r \in Sweepers, NEW to, spot' = [spot EXCEPT ![r] = to],
         to \in IF Moon!IsC1(r) THEN Unattempted \cup Attempted \cup Over ELSE SweepPlaces
  PROVE  Placed'
<1>1. ASSUME NEW q \in Sweepers
      PROVE  spot'[q] \in IF Moon!IsC1(q) THEN Unattempted \cup Attempted \cup Over ELSE SweepPlaces
  <2>1. CASE q = r
    BY <2>1 DEF MoonTypes
  <2>2. CASE q # r
    BY <2>2 DEF MoonTypes, Placed
  <2>3. QED
    BY <2>1, <2>2
<1>2. QED
  BY <1>1, KindsKept DEF Placed

(* A run may end anywhere, but a sweep that does so between two cells      *)
(* leaves the ledger as it left it to them.                                *)
LEMMA LeavingKeepsMoonInv ==
  ASSUME MoonInv, NEW r \in Sweepers, NEW to,
         spot' = [spot EXCEPT ![r] = to],
         to \in {"ended", "killed", "unlock"},
         to = "unlock" => Moon!IsC1(r) /\ Moon!Holds(r),
         to = "ended" => Moon!IsC1(r) \/ spot[r] \in {"idle", "cell"},
         to = "killed" => kills' > 0,
         kills' \in {kills, kills + 1},
         orphans' \subseteq Sweepers \X (1..Cells),
         UNCHANGED <<kind, consumed, item, records, executed, overlap, ledger, durable,
                     rss, receipt, outcome, lock, ref, published, synced, losses, start>>
  PROVE  MoonInv'
<1> USE DEF MoonInv
<1>1. /\ Diagnostics' = Diagnostics /\ Moon!Sweeps' = Moon!Sweeps
      /\ Moon!IsC1(r)' <=> Moon!IsC1(r)
      /\ Moon!Dispatches' = Moon!Dispatches
  BY KindsKept, SameDispatches
<1>2. MoonTypes' /\ Placed'
  BY KindsKept DEF MoonTypes, Placed, SweepPlaces, Over
<1>3. FileTypes'
  BY DEF FileTypes
<1>4. SweepsInBounds'
  BY KindsKept DEF MoonTypes, SweepsInBounds
<1>5. Positions'
  <2>1. ASSUME NEW d \in Diagnostics, d # r PROVE Position(d)'
    BY <2>1 DEF MoonTypes, Positions, Position, Moon!Holds, Moon!Ended
  <2>2. ASSUME r \in Diagnostics PROVE Position(r)'
    <3>1. Position(r) /\ spot'[r] = to /\ executed'[r] = executed[r] /\ records'[r] = records[r]
          /\ lock' = lock /\ ref' = ref
      BY <2>2 DEF MoonTypes, Positions, Diagnostics
    <3>2. to \notin Unattempted \cup Attempted \cup {"snapshots"}
      BY DEF Unattempted, Attempted
    <3>3. to \notin {"build", "built", "reserve", "snapshots", "charge", "sync", "dispatch", "kernel"}
      OBVIOUS
    <3>4. QED
      BY <3>1, <3>2, <3>3 DEF Position, Moon!Holds, Moon!Ended
  <2>3. QED
    BY <1>1, <2>1, <2>2 DEF Positions
<1>6. Exclusive' /\ Charged'
  <2>1. Exclusive'
    BY DEF MoonTypes, Exclusive, Moon!Holds, Moon!Ended
  <2>2. Charged'
    <3> SUFFICES ASSUME ~overlap PROVE Charged'
      BY DEF Charged
    <3>1. ASSUME NEW d \in Diagnostics PROVE Kept(d)'
      BY DEF MoonTypes, Charged, Kept
    <3>2. ASSUME NEW q \in Moon!Sweeps PROVE HasRead(q)'
      BY <1>1 DEF MoonTypes, Charged, HasRead, Moon!Sweeps, Moon!Holds, Moon!Ended, Moon!IsC1,
         Moon!IsSweep
    <3>3. QED
      BY <1>1, <3>1, <3>2 DEF Charged
  <2>3. QED
    BY <2>1, <2>2
<1>7. Counted'
  BY <1>1
     DEF MoonTypes, Counted, InLedger, InCount, Total, Moon!Count, Moon!Holds, Moon!Ended,
     Moon!Sweeps,
     Moon!IsSweep, Moon!IsC1
<1>8. \A d \in Diagnostics : Moon!ToPublish(d)' = Moon!ToPublish(d)
  BY RowsTell
<1>9. OfTheAttempt'
  <2>1. \A d \in Diagnostics : Progress(d)'
    BY <1>8 DEF MoonTypes, OfTheAttempt, Progress
  <2>2. ref = r => to \in Over
    BY DEF Over
  <2>3. Moon!MeasuredRows(ref)' = Moon!MeasuredRows(ref)
    BY RowsTell
  <2>4. QED
    BY <1>1, <2>1, <2>2, <2>3 DEF MoonTypes, OfTheAttempt, Over, Moon!Manifest, Moon!Outputs
<1>10. Honest'
  BY <1>1 DEF MoonTypes, Honest, HonestOf
<1>11. QED
  BY <1>1, <1>2, <1>3, <1>4, <1>5, <1>6, <1>7, <1>9, <1>10


(* A step of a sweep touches its own row of the state, and the files.      *)
LEMMA SweepsOwn ==
  ASSUME MoonTypes, NEW r \in Sweepers, Moon!SweepStep(r)
  PROVE  /\ Moon!IsSweep(r) /\ kind' = kind
         /\ \A q \in Sweepers \ {r} : /\ spot'[q] = spot[q] /\ item'[q] = item[q]
                                      /\ records'[q] = records[q]
                                      /\ executed'[q] = executed[q]
                                      /\ consumed'[q] = consumed[q]
<1> USE DEF MoonTypes, Moon!Goto, Moon!IsSweep
<1>1. CASE Moon!StartSweep(r)
  BY <1>1 DEF Moon!StartSweep
<1>2. CASE Moon!PrescreenRefused(r)
  BY <1>2 DEF Moon!PrescreenRefused
<1>3. CASE Moon!DecompositionRefused(r)
  BY <1>3 DEF Moon!DecompositionRefused
<1>4. CASE Moon!SkipCell(r)
  BY <1>4 DEF Moon!SkipCell
<1>5. CASE Moon!RunKernel(r)
  BY <1>5 DEF Moon!RunKernel
<1>6. CASE Moon!KernelEnds(r)
  BY <1>6 DEF Moon!KernelEnds
<1>7. CASE Moon!Record(r)
  BY <1>7 DEF Moon!Record
<1>8. CASE Moon!CountTruncates(r)
  BY <1>8 DEF Moon!CountTruncates
<1>9. CASE Moon!CountWritten(r)
  BY <1>9 DEF Moon!CountWritten
<1>10. CASE Moon!FinishSweep(r)
  BY <1>10 DEF Moon!FinishSweep
<1>11. QED
  BY <1>1, <1>2, <1>3, <1>4, <1>5, <1>6, <1>7, <1>8, <1>9, <1>10 DEF Moon!SweepStep

(* Every step of a sweep.                                                  *)
LEMMA SweepKeepsMoonInv ==
  ASSUME MoonInv, NEW r \in Sweepers, Moon!SweepStep(r), Moon!Sweeping
  PROVE  MoonInv'
<1> USE MoonAssumption DEF MoonInv, Moon!Goto, Moon!IsSweep, Moon!Sweeping,
                           Moon!RunsAssumption, Moon!LedgerAssumption, Moon!SweepAssumption
<1>1. /\ Diagnostics' = Diagnostics /\ Moon!Sweeps' = Moon!Sweeps /\ kind' = kind
      /\ r \in Moon!Sweeps /\ r \notin Diagnostics /\ ~Moon!IsC1(r) /\ ~Moon!IsC1(r)'
      /\ kind[r] \in {"prescreen", "h1"}
      /\ UNCHANGED <<lock, ref, buildRoot, published, synced, kills, losses, start>>
  BY SweepsOwn, KindsKept DEF Diagnostics, Moon!Sweeps, Moon!IsC1, Moon!diagnosticVars
<1>2. Positions' /\ OfTheAttempt'
  BY <1>1, SweepsOwn, DiagnosticsKept DEF Diagnostics
<1>3. /\ \A q \in Moon!Sweeps \ {r} :
           /\ q \in Sweepers /\ spot'[q] = spot[q] /\ item'[q] = item[q]
           /\ records'[q] = records[q] /\ consumed'[q] = consumed[q]
           /\ (Moon!Holds(q)' <=> Moon!Holds(q))
      /\ \A d \in Diagnostics :
           /\ d \in Sweepers /\ spot'[d] = spot[d] /\ executed'[d] = executed[d]
           /\ consumed'[d] = consumed[d] /\ (Moon!Holds(d)' <=> Moon!Holds(d))
  BY <1>1, SweepsOwn DEF Diagnostics, Moon!Sweeps, Moon!Holds, Moon!Ended
<1>4. \A d \in Diagnostics : executed[d] > 0 => executed[d] \in Nat /\ Before \in Nat
  BY DEF Diagnostics, MoonTypes, Moon!DiagnosticAssumption
<1>5. CASE Moon!StartSweep(r) /\ Moon!Readable /\ Moon!Count < Cap
  <2>1. /\ spot[r] = "idle" /\ spot' = [spot EXCEPT ![r] = "cell"]
        /\ consumed' = [consumed EXCEPT ![r] = Moon!Count]
        /\ ledger # Moon!Torn /\ Moon!Count \in 0..Cap
        /\ ~overlap' => ~overlap /\ \A q \in Sweepers : ~Moon!Holds(q)
        /\ overlap' \in BOOLEAN
        /\ UNCHANGED <<item, records, executed, ledger, durable, rss, receipt, outcome, orphans>>
    <3>1. spot[r] = "idle" /\ spot' = [spot EXCEPT ![r] = "cell"]
          /\ consumed' = [consumed EXCEPT ![r] = Moon!Count]
          /\ UNCHANGED <<item, records, executed, ledger, durable, rss, receipt, outcome,
                         orphans>>
      BY <1>5 DEF Moon!StartSweep, Moon!ledgerVars, Moon!sweepVars
    <3>2. ledger # Moon!Torn /\ Moon!Count \in 0..Cap
      BY <1>5 DEF Moon!Readable, Moon!Count, Moon!Torn, Moon!Absent, MoonTypes
    <3>3. overlap' = (overlap \/ \E q \in Sweepers : Moon!Holds(q))
      BY <1>5 DEF Moon!StartSweep
    <3>4. overlap' \in BOOLEAN /\ (~overlap' => ~overlap /\ \A q \in Sweepers : ~Moon!Holds(q))
      BY <3>3, Zenon
    <3>5. QED
      BY <3>1, <3>2, <3>4
  <2>2. Placed'
    BY <2>1, <1>1, StaysPlaced DEF SweepPlaces
  <2>3. MoonTypes'
    BY <2>1, <1>1 DEF MoonTypes, SweepsInBounds, Moon!Torn
  <2>4. FileTypes'
    BY <2>1, <1>1 DEF FileTypes, MoonTypes, SweepsInBounds
  <2>5. Moon!Dispatches' = Moon!Dispatches
    BY <2>1, SameDispatches
  <2>6. Cardinality(Moon!Dispatches) \in Nat
    BY FS_CardinalityType
  <2>7. SweepsInBounds'
    BY <2>1, <1>1, KindsKept DEF SweepsInBounds, MoonTypes
  <2>8. Exclusive'
    BY <2>1, <1>1 DEF Exclusive, MoonTypes, Moon!Holds, Moon!Ended
  <2>9. Charged'
    <3> SUFFICES ASSUME ~overlap' PROVE Charged'
      BY DEF Charged
    <3>1. ASSUME NEW x \in Diagnostics PROVE Kept(x)'
      BY <1>1, <1>3, <1>4, <2>1
         DEF Charged, Kept, HasRead, Exclusive, MoonTypes, Moon!Holds, Moon!Ended, Moon!Sweeps,
         Diagnostics
    <3>2. ASSUME NEW q \in Moon!Sweeps, q # r PROVE HasRead(q)'
      BY <1>1, <1>3, <2>1, <3>2 DEF Charged, HasRead
    <3>3. HasRead(r)'
      BY <1>1, <1>3, <1>4, <2>1
         DEF Charged, Kept, HasRead, MoonTypes, Moon!Holds, Moon!Ended, Moon!Count, Moon!Absent
    <3>4. QED
      BY <1>1, <3>1, <3>2, <3>3 DEF Charged
  <2>10. Counted'
    <3> SUFFICES ASSUME kills = 0, losses = 0, ~overlap' PROVE Counted'
      BY <1>1 DEF Counted
    <3>1. ~overlap /\ Counted /\ start \in Nat /\ Cardinality(Moon!Dispatches) \in Nat
      BY <2>1, <2>6 DEF MoonTypes
    <3>2. InLedger'
      BY <1>1, <1>3, <2>1, <2>5, <3>1
         DEF Counted, InLedger, InCount, Total, MoonTypes, Moon!Count, Moon!Torn, Moon!Absent,
         Moon!Holds, Moon!Ended
    <3>3. ASSUME NEW q \in Moon!Sweeps, q # r PROVE InCount(q)'
      BY <1>1, <1>3, <2>1, <2>5, <3>1, <3>3
         DEF Counted, InLedger, InCount, Total, Exclusive, MoonTypes, Moon!Count, Moon!Torn,
         Moon!Absent, Moon!Holds, Moon!Ended, Moon!Sweeps
    <3>4. InCount(r)'
      BY <1>1, <1>3, <2>1, <2>5, <3>1
         DEF Counted, InLedger, InCount, Total, MoonTypes, Moon!Count, Moon!Torn, Moon!Absent,
         Moon!Holds, Moon!Ended
    <3>5. ASSUME NEW x \in Diagnostics, spot'[x] \in {"sync", "dispatch"} PROVE ledger' > Total'
      BY <1>1, <1>3, <2>1, <2>5, <3>1, <3>5
         DEF Counted, Total, Exclusive, MoonTypes, Moon!Holds, Moon!Ended, Moon!Sweeps,
         Diagnostics
    <3>6. QED
      BY <1>1, <3>2, <3>3, <3>4, <3>5 DEF Counted
  <2>11. Honest'
    <3> SUFFICES ASSUME ~overlap' PROVE Honest'
      BY DEF Honest
    <3>1. ASSUME NEW q \in Moon!Sweeps, q # r PROVE HonestOf(q)'
      BY <1>1, <1>3, <2>1, <3>1
         DEF Honest, HonestOf, Exclusive, MoonTypes, FileTypes, Moon!Holds, Moon!Ended,
         Moon!Sweeps
    <3>2. HonestOf(r)'
      BY <1>1, <2>1 DEF Honest, HonestOf, MoonTypes, FileTypes, SweepsInBounds, Moon!Outcomes
    <3>3. QED
      BY <1>1, <3>1, <3>2 DEF Honest
  <2>12. QED
    BY <1>2, <2>2, <2>3, <2>4, <2>5, <2>6, <2>7, <2>8, <2>9, <2>10, <2>11
<1>6. CASE Moon!SkipCell(r)
  <2>1. /\ spot[r] = "cell" /\ item' = [item EXCEPT ![r] = @ + 1]
        /\ records' = [records EXCEPT ![r] = Append(@, Moon!Row("skipped", None, "none"))]
        /\ UNCHANGED <<spot, consumed, executed, overlap, ledger, durable, rss, receipt, outcome,
                       orphans>>
    BY <1>1, <1>6 DEF Moon!SkipCell, Moon!ledgerVars, Moon!sweepVars
  <2>2. Placed'
    BY <2>1, <1>1, KindsKept DEF Placed
  <2>3. MoonTypes'
    <3>1. Moon!Row("skipped", None, "none") \in RowType
      BY DEF Moon!Row, RowType
    <3>2. records' \in [Sweepers -> Seq(RowType)]
      BY <2>1, <3>1 DEF MoonTypes
    <3>3. item' \in [Sweepers -> Nat \ {0}]
      BY <2>1 DEF MoonTypes
    <3>4. QED
      BY <1>1, <2>1, <3>2, <3>3 DEF MoonTypes
  <2>4. FileTypes'
    BY <2>1, <1>1 DEF FileTypes, MoonTypes, SweepsInBounds
  <2>5. Moon!Dispatches' = Moon!Dispatches
    BY <2>1, SameDispatches
  <2>6. Cardinality(Moon!Dispatches) \in Nat
    BY FS_CardinalityType
  <2>7. SweepsInBounds'
    BY <2>1, <1>1, KindsKept DEF SweepsInBounds, MoonTypes
  <2>8. Exclusive'
    BY <2>1, <1>1 DEF Exclusive, MoonTypes, Moon!Holds, Moon!Ended
  <2>9. Charged'
    <3> SUFFICES ASSUME ~overlap' PROVE Charged'
      BY DEF Charged
    <3>1. ASSUME NEW x \in Diagnostics PROVE Kept(x)'
      BY <1>1, <1>3, <1>4, <2>1
         DEF Charged, Kept, HasRead, Exclusive, MoonTypes, Moon!Holds, Moon!Ended, Moon!Sweeps,
         Diagnostics
    <3>2. ASSUME NEW q \in Moon!Sweeps, q # r PROVE HasRead(q)'
      BY <1>1, <1>3, <2>1, <3>2 DEF Charged, HasRead
    <3>3. HasRead(r)'
      BY <1>1, <1>3, <1>4, <2>1
         DEF Charged, Kept, HasRead, MoonTypes, Moon!Holds, Moon!Ended, Moon!Count, Moon!Absent
    <3>4. QED
      BY <1>1, <3>1, <3>2, <3>3 DEF Charged
  <2>10. Counted'
    <3> SUFFICES ASSUME kills = 0, losses = 0, ~overlap' PROVE Counted'
      BY <1>1 DEF Counted
    <3>1. ~overlap /\ Counted /\ start \in Nat /\ Cardinality(Moon!Dispatches) \in Nat
      BY <2>1, <2>6 DEF MoonTypes
    <3>2. InLedger'
      BY <1>1, <1>3, <2>1, <2>5, <3>1
         DEF Counted, InLedger, InCount, Total, MoonTypes, Moon!Count, Moon!Torn, Moon!Absent,
         Moon!Holds, Moon!Ended
    <3>3. ASSUME NEW q \in Moon!Sweeps, q # r PROVE InCount(q)'
      BY <1>1, <1>3, <2>1, <2>5, <3>1, <3>3
         DEF Counted, InLedger, InCount, Total, Exclusive, MoonTypes, Moon!Count, Moon!Torn,
         Moon!Absent, Moon!Holds, Moon!Ended, Moon!Sweeps
    <3>4. InCount(r)'
      BY <1>1, <1>3, <2>1, <2>5, <3>1
         DEF Counted, InLedger, InCount, Total, MoonTypes, Moon!Count, Moon!Torn, Moon!Absent,
         Moon!Holds, Moon!Ended
    <3>5. ASSUME NEW x \in Diagnostics, spot'[x] \in {"sync", "dispatch"} PROVE ledger' > Total'
      BY <1>1, <1>3, <2>1, <2>5, <3>1, <3>5
         DEF Counted, Total, Exclusive, MoonTypes, Moon!Holds, Moon!Ended, Moon!Sweeps,
         Diagnostics
    <3>6. QED
      BY <1>1, <3>2, <3>3, <3>4, <3>5 DEF Counted
  <2>11. Honest'
    <3> SUFFICES ASSUME ~overlap' PROVE Honest'
      BY DEF Honest
    <3>1. ASSUME NEW q \in Moon!Sweeps, q # r PROVE HonestOf(q)'
      BY <1>1, <1>3, <2>1, <3>1
         DEF Honest, HonestOf, Exclusive, MoonTypes, FileTypes, Moon!Holds, Moon!Ended,
         Moon!Sweeps
    <3>2. HonestOf(r)'
      <4>1. HonestOf(r) /\ records[r] \in Seq(RowType)
        BY <1>1, <2>1 DEF Honest, MoonTypes
      <4>2. records'[r] = Append(records[r], Moon!Row("skipped", None, "none"))
        BY <2>1 DEF MoonTypes
      <4>3. Moon!Row("skipped", None, "none").status # "measured"
        BY DEF Moon!Row
      <4>4. spot'[r] # "record"
        BY <2>1
      <4> HIDE DEF MoonInv
      <4>5. QED
        BY <4>1, <4>2, <4>3, <4>4 DEF HonestOf
    <3>3. QED
      BY <1>1, <3>1, <3>2 DEF Honest
  <2>12. QED
    BY <1>2, <2>2, <2>3, <2>4, <2>5, <2>6, <2>7, <2>8, <2>9, <2>10, <2>11
<1>7. CASE Moon!RunKernel(r)
  <2>1. /\ spot[r] = "cell" /\ spot' = [spot EXCEPT ![r] = "kernel"]
        /\ item[r] <= Cells /\ consumed[r] < Cap
        /\ executed' = [executed EXCEPT ![r] = @ + 1]
        /\ UNCHANGED <<item, records, consumed, overlap, ledger, durable, rss, receipt, outcome,
                       orphans>>
    BY <1>1, <1>7 DEF Moon!RunKernel, Moon!ledgerVars, Moon!sweepVars
  <2>2. Placed'
    BY <2>1, <1>1, StaysPlaced DEF SweepPlaces
  <2>3. MoonTypes'
    BY <2>1, <1>1 DEF MoonTypes, SweepsInBounds, Moon!Torn
  <2>4. FileTypes'
    BY <2>1, <1>1 DEF FileTypes, MoonTypes, SweepsInBounds
  <2>5. /\ IsFiniteSet(Moon!Dispatches')
         /\ Cardinality(Moon!Dispatches') = Cardinality(Moon!Dispatches) + 1
         /\ Cardinality(Moon!Dispatches) \in Nat
    BY <2>1, OneMoreDispatch DEF MoonTypes
  <2>6. SweepsInBounds'
    BY <2>1, <1>1, KindsKept DEF SweepsInBounds, MoonTypes
  <2>7. Exclusive'
    BY <2>1, <1>1 DEF Exclusive, MoonTypes, Moon!Holds, Moon!Ended
  <2>8. Charged'
    <3> SUFFICES ASSUME ~overlap' PROVE Charged'
      BY DEF Charged
    <3>1. ASSUME NEW x \in Diagnostics PROVE Kept(x)'
      BY <1>1, <1>3, <1>4, <2>1
         DEF Charged, Kept, HasRead, Exclusive, MoonTypes, Moon!Holds, Moon!Ended, Moon!Sweeps,
         Diagnostics
    <3>2. ASSUME NEW q \in Moon!Sweeps, q # r PROVE HasRead(q)'
      BY <1>1, <1>3, <2>1, <3>2 DEF Charged, HasRead
    <3>3. HasRead(r)'
      BY <1>1, <1>3, <1>4, <2>1
         DEF Charged, Kept, HasRead, MoonTypes, Moon!Holds, Moon!Ended, Moon!Count, Moon!Absent
    <3>4. QED
      BY <1>1, <3>1, <3>2, <3>3 DEF Charged
  <2>9. Counted'
    <3> SUFFICES ASSUME kills = 0, losses = 0, ~overlap' PROVE Counted'
      BY <1>1 DEF Counted
    <3>1. ~overlap /\ Counted /\ start \in Nat /\ Cardinality(Moon!Dispatches) \in Nat
      BY <2>1, <2>5 DEF MoonTypes
    <3>2. InLedger'
      BY <1>1, <1>3, <2>1, <2>5, <3>1
         DEF Counted, InLedger, InCount, Total, MoonTypes, Moon!Count, Moon!Torn, Moon!Absent,
         Moon!Holds, Moon!Ended
    <3>3. ASSUME NEW q \in Moon!Sweeps, q # r PROVE InCount(q)'
      BY <1>1, <1>3, <2>1, <2>5, <3>1, <3>3
         DEF Counted, InLedger, InCount, Total, Exclusive, MoonTypes, Moon!Count, Moon!Torn,
         Moon!Absent, Moon!Holds, Moon!Ended, Moon!Sweeps
    <3>4. InCount(r)'
      BY <1>1, <1>3, <2>1, <2>5, <3>1
         DEF Counted, InLedger, InCount, Total, MoonTypes, Moon!Count, Moon!Torn, Moon!Absent,
         Moon!Holds, Moon!Ended
    <3>5. ASSUME NEW x \in Diagnostics, spot'[x] \in {"sync", "dispatch"} PROVE ledger' > Total'
      BY <1>1, <1>3, <2>1, <2>5, <3>1, <3>5
         DEF Counted, Total, Exclusive, MoonTypes, Moon!Holds, Moon!Ended, Moon!Sweeps,
         Diagnostics
    <3>6. QED
      BY <1>1, <3>2, <3>3, <3>4, <3>5 DEF Counted
  <2>10. Honest'
    <3> SUFFICES ASSUME ~overlap' PROVE Honest'
      BY DEF Honest
    <3>1. ASSUME NEW q \in Moon!Sweeps, q # r PROVE HonestOf(q)'
      BY <1>1, <1>3, <2>1, <3>1
         DEF Honest, HonestOf, Exclusive, MoonTypes, FileTypes, Moon!Holds, Moon!Ended,
         Moon!Sweeps
    <3>2. HonestOf(r)'
      BY <1>1, <2>1 DEF Honest, HonestOf, MoonTypes, FileTypes, SweepsInBounds, Moon!Outcomes
    <3>3. QED
      BY <1>1, <3>1, <3>2 DEF Honest
  <2>11. QED
    BY <1>2, <2>2, <2>3, <2>4, <2>5, <2>6, <2>7, <2>8, <2>9, <2>10
<1>8. CASE Moon!KernelEnds(r)
  <2>1. PICK how \in Moon!Outcomes :
         /\ spot[r] = "kernel" /\ spot' = [spot EXCEPT ![r] = "record"]
         /\ kind[r] = "h1" => how \in {"clean", "failed"}
         /\ outcome' = [outcome EXCEPT ![r] = how]
         /\ rss' = IF kind[r] = "h1" \/ how \in {"timeout", "unstarted"} THEN rss
                   ELSE [rss EXCEPT ![item[r]] = [by |-> r, says |-> how]]
         /\ receipt' \in {receipt, [receipt EXCEPT ![item[r]] = r]}
         /\ orphans' \in {orphans, orphans \cup {<<r, item[r]>>}}
         /\ UNCHANGED <<item, records, executed, consumed, overlap, ledger, durable>>
    BY <1>1, <1>8 DEF Moon!KernelEnds, Moon!ledgerVars, Moon!sweepVars
  <2>2. Placed'
    BY <2>1, <1>1, StaysPlaced DEF SweepPlaces
  <2>3. MoonTypes'
    BY <2>1, <1>1 DEF MoonTypes, SweepsInBounds, Moon!Torn
  <2>4. FileTypes'
    <3>1. item[r] \in 1..Cells
      BY <1>1, <2>1 DEF MoonTypes, SweepsInBounds
    <3>2. how \notin {"timeout", "unstarted"} => how \in {"clean", "over", "failed"}
      BY DEF Moon!Outcomes
    <3>3. rss' \in [1..Cells -> [by : Sweepers \cup {None}, says : {"clean", "over", "failed"}]]
      BY <2>1, <3>1, <3>2 DEF FileTypes
    <3>4. receipt' \in [1..Cells -> Sweepers \cup {None}]
      BY <2>1, <3>1 DEF FileTypes
    <3>5. outcome' \in [Sweepers -> Moon!Outcomes]
      BY <2>1 DEF FileTypes
    <3>6. orphans' \subseteq Sweepers \X (1..Cells)
      BY <2>1, <3>1 DEF FileTypes
    <3>7. QED
      BY <1>1, <3>3, <3>4, <3>5, <3>6 DEF FileTypes
  <2>5. Moon!Dispatches' = Moon!Dispatches
    BY <2>1, SameDispatches
  <2>6. Cardinality(Moon!Dispatches) \in Nat
    BY FS_CardinalityType
  <2>7. SweepsInBounds'
    BY <2>1, <1>1, KindsKept DEF SweepsInBounds, MoonTypes
  <2>8. Exclusive'
    BY <2>1, <1>1 DEF Exclusive, MoonTypes, Moon!Holds, Moon!Ended
  <2>9. Charged'
    <3> SUFFICES ASSUME ~overlap' PROVE Charged'
      BY DEF Charged
    <3>1. ASSUME NEW x \in Diagnostics PROVE Kept(x)'
      BY <1>1, <1>3, <1>4, <2>1
         DEF Charged, Kept, HasRead, Exclusive, MoonTypes, Moon!Holds, Moon!Ended, Moon!Sweeps,
         Diagnostics
    <3>2. ASSUME NEW q \in Moon!Sweeps, q # r PROVE HasRead(q)'
      BY <1>1, <1>3, <2>1, <3>2 DEF Charged, HasRead
    <3>3. HasRead(r)'
      BY <1>1, <1>3, <1>4, <2>1
         DEF Charged, Kept, HasRead, MoonTypes, Moon!Holds, Moon!Ended, Moon!Count, Moon!Absent
    <3>4. QED
      BY <1>1, <3>1, <3>2, <3>3 DEF Charged
  <2>10. Counted'
    <3> SUFFICES ASSUME kills = 0, losses = 0, ~overlap' PROVE Counted'
      BY <1>1 DEF Counted
    <3>1. ~overlap /\ Counted /\ start \in Nat /\ Cardinality(Moon!Dispatches) \in Nat
      BY <2>1, <2>6 DEF MoonTypes
    <3>2. InLedger'
      BY <1>1, <1>3, <2>1, <2>5, <3>1
         DEF Counted, InLedger, InCount, Total, MoonTypes, Moon!Count, Moon!Torn, Moon!Absent,
         Moon!Holds, Moon!Ended
    <3>3. ASSUME NEW q \in Moon!Sweeps, q # r PROVE InCount(q)'
      BY <1>1, <1>3, <2>1, <2>5, <3>1, <3>3
         DEF Counted, InLedger, InCount, Total, Exclusive, MoonTypes, Moon!Count, Moon!Torn,
         Moon!Absent, Moon!Holds, Moon!Ended, Moon!Sweeps
    <3>4. InCount(r)'
      BY <1>1, <1>3, <2>1, <2>5, <3>1
         DEF Counted, InLedger, InCount, Total, MoonTypes, Moon!Count, Moon!Torn, Moon!Absent,
         Moon!Holds, Moon!Ended
    <3>5. ASSUME NEW x \in Diagnostics, spot'[x] \in {"sync", "dispatch"} PROVE ledger' > Total'
      BY <1>1, <1>3, <2>1, <2>5, <3>1, <3>5
         DEF Counted, Total, Exclusive, MoonTypes, Moon!Holds, Moon!Ended, Moon!Sweeps,
         Diagnostics
    <3>6. QED
      BY <1>1, <3>2, <3>3, <3>4, <3>5 DEF Counted
  <2>11. Honest'
    <3> SUFFICES ASSUME ~overlap' PROVE Honest'
      BY DEF Honest
    <3>1. ASSUME NEW q \in Moon!Sweeps, q # r PROVE HonestOf(q)'
      BY <1>1, <1>3, <2>1, <3>1
         DEF Honest, HonestOf, Exclusive, MoonTypes, FileTypes, Moon!Holds, Moon!Ended,
         Moon!Sweeps
    <3>2. HonestOf(r)'
      BY <1>1, <2>1 DEF Honest, HonestOf, MoonTypes, FileTypes, SweepsInBounds, Moon!Outcomes
    <3>3. QED
      BY <1>1, <3>1, <3>2 DEF Honest
  <2>12. QED
    BY <1>2, <2>2, <2>3, <2>4, <2>5, <2>6, <2>7, <2>8, <2>9, <2>10, <2>11
<1>9. CASE Moon!Record(r)
  <2>1. PICK row :
         /\ spot[r] = "record" /\ spot' = [spot EXCEPT ![r] = "truncate"]
         /\ consumed' = [consumed EXCEPT ![r] = @ + 1]
         /\ row \in RowType /\ records' = [records EXCEPT ![r] = Append(@, row)]
         /\ row.status = "measured" =>
              IF kind[r] = "h1" THEN outcome[r] = "clean"
              ELSE outcome[r] # "timeout" /\ rss[item[r]].says \notin {"failed", "over"}
         /\ row.ended = outcome[r]
         /\ UNCHANGED <<item, executed, overlap, ledger, durable, rss, receipt, outcome, orphans>>
    <3>1. PICK status \in Moon!Statuses(r, item[r]) :
            records' = [records EXCEPT ![r] =
              Append(@, Moon!Row(status, IF kind[r] = "h1" THEN r ELSE receipt[item[r]], outcome[r]))]
      BY <1>9 DEF Moon!Record
    <3> DEFINE row == Moon!Row(status, IF kind[r] = "h1" THEN r ELSE receipt[item[r]], outcome[r])
    <3>2. item[r] \in 1..Cells /\ spot[r] = "record"
      BY <1>1, <1>9 DEF Moon!Record, SweepsInBounds, MoonTypes
    <3>3. status \in {"measured", "failed", "killed_by_budget", "encode_failed", "invalid"}
      BY <3>1 DEF Moon!Statuses, Moon!Classify
    <3>4. row \in RowType /\ row.ended = outcome[r] /\ row.status = status
      BY <3>2, <3>3 DEF Moon!Row, RowType, FileTypes
    <3>5. status = "measured" =>
            IF kind[r] = "h1" THEN outcome[r] = "clean"
            ELSE outcome[r] # "timeout" /\ rss[item[r]].says \notin {"failed", "over"}
      BY <3>1, <3>2 DEF Moon!Statuses, Moon!Classify, Moon!Report, FileTypes
    <3>6. records' = [records EXCEPT ![r] = Append(@, row)]
      BY <3>1
    <3> HIDE DEF row
    <3>7. /\ spot' = [spot EXCEPT ![r] = "truncate"] /\ consumed' = [consumed EXCEPT ![r] = @ + 1]
          /\ UNCHANGED <<item, executed, overlap, ledger, durable, rss, receipt, outcome,
                         orphans>>
      BY <1>9 DEF Moon!Record, Moon!ledgerVars, Moon!sweepVars
    <3>8. QED
      BY <3>2, <3>4, <3>5, <3>6, <3>7
  <2>2. Placed'
    BY <2>1, <1>1, StaysPlaced DEF SweepPlaces
  <2>3. MoonTypes'
    BY <2>1, <1>1 DEF MoonTypes, SweepsInBounds, Moon!Torn
  <2>4. FileTypes'
    BY <2>1, <1>1 DEF FileTypes, MoonTypes, SweepsInBounds
  <2>5. Moon!Dispatches' = Moon!Dispatches
    BY <2>1, SameDispatches
  <2>6. Cardinality(Moon!Dispatches) \in Nat
    BY FS_CardinalityType
  <2>7. SweepsInBounds'
    BY <2>1, <1>1, KindsKept DEF SweepsInBounds, MoonTypes
  <2>8. Exclusive'
    BY <2>1, <1>1 DEF Exclusive, MoonTypes, Moon!Holds, Moon!Ended
  <2>9. Charged'
    <3> SUFFICES ASSUME ~overlap' PROVE Charged'
      BY DEF Charged
    <3>1. ASSUME NEW x \in Diagnostics PROVE Kept(x)'
      BY <1>1, <1>3, <1>4, <2>1
         DEF Charged, Kept, HasRead, Exclusive, MoonTypes, Moon!Holds, Moon!Ended, Moon!Sweeps,
         Diagnostics
    <3>2. ASSUME NEW q \in Moon!Sweeps, q # r PROVE HasRead(q)'
      BY <1>1, <1>3, <2>1, <3>2 DEF Charged, HasRead
    <3>3. HasRead(r)'
      <4> SUFFICES ASSUME NEW x \in Diagnostics, executed[x] > 0 PROVE consumed'[r] >= Before + executed[x]
        BY <1>1, <1>3 DEF HasRead
      <4>1. consumed[r] >= Before + executed[x]
        BY <1>1, <2>1 DEF Charged, HasRead, Moon!Holds, Moon!Ended
      <4>2. consumed[r] \in Nat /\ consumed'[r] = consumed[r] + 1 /\ executed[x] \in Nat /\ Before \in Nat
        BY <1>4, <2>1 DEF MoonTypes
      <4>3. QED
        BY <4>1, <4>2
    <3>4. QED
      BY <1>1, <3>1, <3>2, <3>3 DEF Charged
  <2>10. Counted'
    <3> SUFFICES ASSUME kills = 0, losses = 0, ~overlap' PROVE Counted'
      BY <1>1 DEF Counted
    <3>1. ~overlap /\ Counted /\ start \in Nat /\ Cardinality(Moon!Dispatches) \in Nat
      BY <2>1, <2>6 DEF MoonTypes
    <3>2. InLedger'
      BY <1>1, <1>3, <2>1, <2>5, <3>1
         DEF Counted, InLedger, InCount, Total, MoonTypes, Moon!Count, Moon!Torn, Moon!Absent,
         Moon!Holds, Moon!Ended
    <3>3. ASSUME NEW q \in Moon!Sweeps, q # r PROVE InCount(q)'
      BY <1>1, <1>3, <2>1, <2>5, <3>1, <3>3
         DEF Counted, InLedger, InCount, Total, Exclusive, MoonTypes, Moon!Count, Moon!Torn,
         Moon!Absent, Moon!Holds, Moon!Ended, Moon!Sweeps
    <3>4. InCount(r)'
      BY <1>1, <1>3, <2>1, <2>5, <3>1
         DEF Counted, InLedger, InCount, Total, MoonTypes, Moon!Count, Moon!Torn, Moon!Absent,
         Moon!Holds, Moon!Ended
    <3>5. ASSUME NEW x \in Diagnostics, spot'[x] \in {"sync", "dispatch"} PROVE ledger' > Total'
      BY <1>1, <1>3, <2>1, <2>5, <3>1, <3>5
         DEF Counted, Total, Exclusive, MoonTypes, Moon!Holds, Moon!Ended, Moon!Sweeps,
         Diagnostics
    <3>6. QED
      BY <1>1, <3>2, <3>3, <3>4, <3>5 DEF Counted
  <2>11. Honest'
    <3> SUFFICES ASSUME ~overlap' PROVE Honest'
      BY DEF Honest
    <3>1. ASSUME NEW q \in Moon!Sweeps, q # r PROVE HonestOf(q)'
      BY <1>1, <1>3, <2>1, <3>1
         DEF Honest, HonestOf, Exclusive, MoonTypes, FileTypes, Moon!Holds, Moon!Ended,
         Moon!Sweeps
    <3>2. HonestOf(r)'
      BY <1>1, <2>1 DEF Honest, HonestOf, MoonTypes, FileTypes, SweepsInBounds, Moon!Outcomes
    <3>3. QED
      BY <1>1, <3>1, <3>2 DEF Honest
  <2>12. QED
    BY <1>2, <2>2, <2>3, <2>4, <2>5, <2>6, <2>7, <2>8, <2>9, <2>10, <2>11
<1>10. CASE Moon!CountTruncates(r)
  <2>1. /\ spot[r] = "truncate" /\ spot' = [spot EXCEPT ![r] = "write"]
        /\ ledger' = Moon!Torn /\ durable' = durable \cup {Moon!Torn}
        /\ UNCHANGED <<item, records, executed, consumed, overlap, rss, receipt, outcome,
                       orphans>>
    BY <1>1, <1>10 DEF Moon!CountTruncates, Moon!TruncateLedger, Moon!ledgerVars, Moon!sweepVars
  <2>2. Placed'
    BY <2>1, <1>1, StaysPlaced DEF SweepPlaces
  <2>3. MoonTypes'
    BY <2>1, <1>1 DEF MoonTypes, SweepsInBounds, Moon!Torn
  <2>4. FileTypes'
    BY <2>1, <1>1 DEF FileTypes, MoonTypes, SweepsInBounds
  <2>5. Moon!Dispatches' = Moon!Dispatches
    BY <2>1, SameDispatches
  <2>6. Cardinality(Moon!Dispatches) \in Nat
    BY FS_CardinalityType
  <2>7. SweepsInBounds'
    BY <2>1, <1>1, KindsKept DEF SweepsInBounds, MoonTypes
  <2>8. Exclusive'
    BY <2>1, <1>1 DEF Exclusive, MoonTypes, Moon!Holds, Moon!Ended
  <2>9. Charged'
    <3> SUFFICES ASSUME ~overlap' PROVE Charged'
      BY DEF Charged
    <3>1. ASSUME NEW x \in Diagnostics PROVE Kept(x)'
      <4>1. Kept(x) /\ Moon!Holds(r) /\ ~Moon!Holds(x)
        BY <1>1, <1>3, <2>1 DEF Charged, Exclusive, Moon!Holds, Moon!Ended
      <4>2. spot'[x] \notin {"sync", "dispatch"}
        BY <1>3, <4>1 DEF Moon!Holds, Moon!Ended
      <4>3. ASSUME executed[x] > 0, NEW c \in durable' PROVE c = Moon!Torn \/ c >= Before + executed[x]
        BY <1>1, <2>1, <4>1, <4>3 DEF Charged, Kept, HasRead
      <4>4. QED
        BY <1>3, <4>2, <4>3 DEF Kept
    <3>2. ASSUME NEW q \in Moon!Sweeps, q # r PROVE HasRead(q)'
      BY <1>1, <1>3, <2>1, <3>2 DEF Charged, HasRead
    <3>3. HasRead(r)'
      BY <1>1, <1>3, <1>4, <2>1
         DEF Charged, Kept, HasRead, MoonTypes, Moon!Holds, Moon!Ended, Moon!Count, Moon!Absent
    <3>4. QED
      BY <1>1, <3>1, <3>2, <3>3 DEF Charged
  <2>10. Counted'
    <3> SUFFICES ASSUME kills = 0, losses = 0, ~overlap' PROVE Counted'
      BY <1>1 DEF Counted
    <3>1. ~overlap /\ Counted /\ start \in Nat /\ Cardinality(Moon!Dispatches) \in Nat
      BY <2>1, <2>6 DEF MoonTypes
    <3>2. InLedger'
      BY <1>1, <1>3, <2>1, <2>5, <3>1
         DEF Counted, InLedger, InCount, Total, MoonTypes, Moon!Count, Moon!Torn, Moon!Absent,
         Moon!Holds, Moon!Ended
    <3>3. ASSUME NEW q \in Moon!Sweeps, q # r PROVE InCount(q)'
      BY <1>1, <1>3, <2>1, <2>5, <3>1, <3>3
         DEF Counted, InLedger, InCount, Total, Exclusive, MoonTypes, Moon!Count, Moon!Torn,
         Moon!Absent, Moon!Holds, Moon!Ended, Moon!Sweeps
    <3>4. InCount(r)'
      BY <1>1, <1>3, <2>1, <2>5, <3>1
         DEF Counted, InLedger, InCount, Total, MoonTypes, Moon!Count, Moon!Torn, Moon!Absent,
         Moon!Holds, Moon!Ended
    <3>5. ASSUME NEW x \in Diagnostics, spot'[x] \in {"sync", "dispatch"} PROVE ledger' > Total'
      BY <1>1, <1>3, <2>1, <2>5, <3>1, <3>5
         DEF Counted, Total, Exclusive, MoonTypes, Moon!Holds, Moon!Ended, Moon!Sweeps,
         Diagnostics
    <3>6. QED
      BY <1>1, <3>2, <3>3, <3>4, <3>5 DEF Counted
  <2>11. Honest'
    <3> SUFFICES ASSUME ~overlap' PROVE Honest'
      BY DEF Honest
    <3>1. ASSUME NEW q \in Moon!Sweeps, q # r PROVE HonestOf(q)'
      BY <1>1, <1>3, <2>1, <3>1
         DEF Honest, HonestOf, Exclusive, MoonTypes, FileTypes, Moon!Holds, Moon!Ended,
         Moon!Sweeps
    <3>2. HonestOf(r)'
      BY <1>1, <2>1 DEF Honest, HonestOf, MoonTypes, FileTypes, SweepsInBounds, Moon!Outcomes
    <3>3. QED
      BY <1>1, <3>1, <3>2 DEF Honest
  <2>12. QED
    BY <1>2, <2>2, <2>3, <2>4, <2>5, <2>6, <2>7, <2>8, <2>9, <2>10, <2>11
<1>11. CASE Moon!CountWritten(r)
  <2>1. /\ spot[r] = "write" /\ spot' = [spot EXCEPT ![r] = "cell"]
        /\ ledger' = consumed[r] /\ durable' = durable \cup {consumed[r]}
        /\ item' = [item EXCEPT ![r] = @ + 1]
        /\ UNCHANGED <<records, executed, consumed, overlap, rss, receipt, outcome, orphans>>
    BY <1>1, <1>11 DEF Moon!CountWritten, Moon!WriteLedger, Moon!ledgerVars, Moon!sweepVars
  <2>2. Placed'
    BY <2>1, <1>1, StaysPlaced DEF SweepPlaces
  <2>3. MoonTypes'
    <3>1. consumed[r] \in Moon!Torn..Cap
      BY DEF MoonTypes, Moon!Torn
    <3>2. item' \in [Sweepers -> Nat \ {0}]
      BY <2>1 DEF MoonTypes
    <3>3. ledger' \in durable' /\ durable' \subseteq Moon!Torn..Cap
      BY <2>1, <3>1 DEF MoonTypes
    <3>4. QED
      BY <1>1, <2>1, <3>2, <3>3 DEF MoonTypes
  <2>4. FileTypes'
    BY <2>1, <1>1 DEF FileTypes, MoonTypes, SweepsInBounds
  <2>5. Moon!Dispatches' = Moon!Dispatches
    BY <2>1, SameDispatches
  <2>6. Cardinality(Moon!Dispatches) \in Nat
    BY FS_CardinalityType
  <2>7. SweepsInBounds'
    BY <2>1, <1>1, KindsKept DEF SweepsInBounds, MoonTypes
  <2>8. Exclusive'
    BY <2>1, <1>1 DEF Exclusive, MoonTypes, Moon!Holds, Moon!Ended
  <2>9. Charged'
    <3> SUFFICES ASSUME ~overlap' PROVE Charged'
      BY DEF Charged
    <3>1. ASSUME NEW x \in Diagnostics PROVE Kept(x)'
      <4>1. Kept(x) /\ Moon!Holds(r) /\ ~Moon!Holds(x)
        BY <1>1, <1>3, <2>1 DEF Charged, Exclusive, Moon!Holds, Moon!Ended
      <4>2. spot'[x] \notin {"sync", "dispatch"}
        BY <1>3, <4>1 DEF Moon!Holds, Moon!Ended
      <4>3. ASSUME executed[x] > 0, NEW c \in durable' PROVE c = Moon!Torn \/ c >= Before + executed[x]
        BY <1>1, <2>1, <4>1, <4>3 DEF Charged, Kept, HasRead
      <4>4. QED
        BY <1>3, <4>2, <4>3 DEF Kept
    <3>2. ASSUME NEW q \in Moon!Sweeps, q # r PROVE HasRead(q)'
      BY <1>1, <1>3, <2>1, <3>2 DEF Charged, HasRead
    <3>3. HasRead(r)'
      BY <1>1, <1>3, <1>4, <2>1
         DEF Charged, Kept, HasRead, MoonTypes, Moon!Holds, Moon!Ended, Moon!Count, Moon!Absent
    <3>4. QED
      BY <1>1, <3>1, <3>2, <3>3 DEF Charged
  <2>10. Counted'
    <3> SUFFICES ASSUME kills = 0, losses = 0, ~overlap' PROVE Counted'
      BY <1>1 DEF Counted
    <3>1. ~overlap /\ Counted /\ start \in Nat /\ Cardinality(Moon!Dispatches) \in Nat
      BY <2>1, <2>6 DEF MoonTypes
    <3>2. InLedger'
      BY <1>1, <1>3, <2>1, <2>5, <3>1
         DEF Counted, InLedger, InCount, Total, MoonTypes, Moon!Count, Moon!Torn, Moon!Absent,
         Moon!Holds, Moon!Ended
    <3>3. ASSUME NEW q \in Moon!Sweeps, q # r PROVE InCount(q)'
      BY <1>1, <1>3, <2>1, <2>5, <3>1, <3>3
         DEF Counted, InLedger, InCount, Total, Exclusive, MoonTypes, Moon!Count, Moon!Torn,
         Moon!Absent, Moon!Holds, Moon!Ended, Moon!Sweeps
    <3>4. InCount(r)'
      BY <1>1, <1>3, <2>1, <2>5, <3>1
         DEF Counted, InLedger, InCount, Total, MoonTypes, Moon!Count, Moon!Torn, Moon!Absent,
         Moon!Holds, Moon!Ended
    <3>5. ASSUME NEW x \in Diagnostics, spot'[x] \in {"sync", "dispatch"} PROVE ledger' > Total'
      BY <1>1, <1>3, <2>1, <2>5, <3>1, <3>5
         DEF Counted, Total, Exclusive, MoonTypes, Moon!Holds, Moon!Ended, Moon!Sweeps,
         Diagnostics
    <3>6. QED
      BY <1>1, <3>2, <3>3, <3>4, <3>5 DEF Counted
  <2>11. Honest'
    <3> SUFFICES ASSUME ~overlap' PROVE Honest'
      BY DEF Honest
    <3>1. ASSUME NEW q \in Moon!Sweeps, q # r PROVE HonestOf(q)'
      BY <1>1, <1>3, <2>1, <3>1
         DEF Honest, HonestOf, Exclusive, MoonTypes, FileTypes, Moon!Holds, Moon!Ended,
         Moon!Sweeps
    <3>2. HonestOf(r)'
      BY <1>1, <2>1 DEF Honest, HonestOf, MoonTypes, FileTypes, SweepsInBounds, Moon!Outcomes
    <3>3. QED
      BY <1>1, <3>1, <3>2 DEF Honest
  <2>12. QED
    BY <1>2, <2>2, <2>3, <2>4, <2>5, <2>6, <2>7, <2>8, <2>9, <2>10, <2>11
<1>12. CASE Moon!StartSweep(r) /\ ~(Moon!Readable /\ Moon!Count < Cap)
  <2>1. spot[r] = "idle" /\ spot' = [spot EXCEPT ![r] = "ended"]
        /\ UNCHANGED <<kind, consumed, item, records, executed, overlap, ledger, durable,
                       rss, receipt, outcome, orphans>>
    BY <1>12 DEF Moon!StartSweep, Moon!ledgerVars, Moon!sweepVars
  <2>2. QED
    BY <1>1, <2>1, LeavingKeepsMoonInv DEF FileTypes
<1>13. CASE Moon!PrescreenRefused(r) \/ Moon!DecompositionRefused(r) \/ Moon!FinishSweep(r)
  <2>1. spot[r] \in {"idle", "cell"} /\ spot' = [spot EXCEPT ![r] = "ended"]
        /\ UNCHANGED <<kind, consumed, item, records, executed, overlap, ledger, durable,
                       rss, receipt, outcome, orphans>>
    BY <1>13 DEF Moon!PrescreenRefused, Moon!DecompositionRefused, Moon!FinishSweep,
       Moon!ledgerVars, Moon!sweepVars
  <2>2. QED
    BY <1>1, <2>1, LeavingKeepsMoonInv DEF FileTypes
<1>14. QED
  BY <1>5, <1>6, <1>7, <1>8, <1>9, <1>10, <1>11, <1>12, <1>13 DEF Moon!SweepStep


(* A step of a diagnostic touches its own row of the state, the ledger and *)
(* what the attempt owns; it leaves where it is refused.                   *)
Leaves(r) ==
  /\ \E to \in {"ended", "unlock"} :
       spot' = [spot EXCEPT ![r] = to] /\ (to = "unlock" => Moon!Holds(r))
  /\ UNCHANGED <<consumed, item, records, executed, overlap, ledger, durable, lock, ref,
                 published, synced>>

LEMMA DiagnosticsOwn ==
  ASSUME MoonTypes, NEW r \in Sweepers, Moon!DiagnosticStep(r)
  PROVE  /\ Moon!IsC1(r) /\ kind' = kind /\ (~overlap' => ~overlap)
         /\ \A q \in Sweepers \ {r} : /\ spot'[q] = spot[q] /\ item'[q] = item[q]
                                      /\ records'[q] = records[q]
                                      /\ executed'[q] = executed[q]
                                      /\ consumed'[q] = consumed[q]
<1> USE DEF MoonTypes, Moon!Goto, Moon!At
<1>1. CASE Moon!BindingsRefuse(r)
  BY <1>1 DEF Moon!BindingsRefuse
<1>2. CASE Moon!PrepareRoster(r)
  BY <1>2 DEF Moon!PrepareRoster
<1>3. CASE Moon!BudgetPathRefuses(r)
  BY <1>3 DEF Moon!BudgetPathRefuses
<1>4. CASE Moon!CheckAttempt(r)
  BY <1>4 DEF Moon!CheckAttempt
<1>5. CASE Moon!TakeLock(r)
  BY <1>5 DEF Moon!TakeLock
<1>6. CASE Moon!CheckBudget(r)
  BY <1>6 DEF Moon!CheckBudget
<1>7. CASE Moon!MakeBuildRoot(r)
  BY <1>7 DEF Moon!MakeBuildRoot
<1>8. CASE Moon!Build(r)
  BY <1>8 DEF Moon!Build
<1>9. CASE Moon!CreateAttempt(r)
  BY <1>9 DEF Moon!CreateAttempt
<1>10. CASE Moon!ValidateSnapshots(r)
  BY <1>10 DEF Moon!ValidateSnapshots
<1>11. CASE Moon!HeldObjectDiffers(r)
  BY <1>11 DEF Moon!HeldObjectDiffers
<1>12. CASE Moon!Charge(r)
  BY <1>12 DEF Moon!Charge
<1>13. CASE Moon!SyncCharge(r)
  BY <1>13 DEF Moon!SyncCharge
<1>14. CASE Moon!Dispatch(r)
  BY <1>14 DEF Moon!Dispatch
<1>15. CASE Moon!KernelReports(r)
  BY <1>15 DEF Moon!KernelReports
<1>16. CASE Moon!StartPublishing(r)
  BY <1>16 DEF Moon!StartPublishing
<1>17. CASE Moon!Link(r)
  BY <1>17 DEF Moon!Link
<1>18. CASE Moon!SyncDirectory(r)
  BY <1>18 DEF Moon!SyncDirectory
<1>19. CASE Moon!AllPublished(r)
  BY <1>19 DEF Moon!AllPublished
<1>20. CASE Moon!Unlock(r)
  BY <1>20 DEF Moon!Unlock
<1>21. QED
  BY <1>1, <1>2, <1>3, <1>4, <1>5, <1>6, <1>7, <1>8, <1>9, <1>10, <1>11, <1>12, <1>13, <1>14,
     <1>15, <1>16, <1>17, <1>18, <1>19, <1>20 DEF Moon!DiagnosticStep

(* What belongs to the attempt is not touched before and beside it.        *)
LEMMA AttemptKept ==
  ASSUME MoonInv, NEW r \in Diagnostics, NEW to, UNCHANGED <<kind, ref, published, synced>>,
         spot' = [spot EXCEPT ![r] = to], to \notin {"publish", "syncdir"},
         spot[r] \in Attempted \cup Over => to \in Attempted \cup Over,
         spot[r] \in {"publish", "syncdir"} \cup Over => to \in {"publish", "syncdir"} \cup Over,
         \A q \in Sweepers \ {r} : item'[q] = item[q] /\ records'[q] = records[q],
         records'[r] = records[r] \/ spot[r] = "kernel"
  PROVE  OfTheAttempt'
<1> USE DEF MoonInv
<1>1. /\ Diagnostics' = Diagnostics /\ r \in Sweepers /\ DOMAIN spot = Sweepers
      /\ \A d \in Diagnostics : d \in Sweepers
  BY KindsKept DEF Diagnostics, MoonTypes
<1>2. \A d \in Diagnostics : Progress(d)'
  <2> SUFFICES ASSUME NEW d \in Diagnostics PROVE Progress(d)'
    OBVIOUS
  <2>1. CASE d = r
    BY <1>1, <2>1 DEF Progress
  <2>2. CASE d # r
    <3>1. Progress(d) /\ Moon!ToPublish(d)' = Moon!ToPublish(d) /\ spot'[d] = spot[d]
          /\ item'[d] = item[d]
      BY <1>1, <2>2, RowsTell DEF OfTheAttempt
    <3>2. QED
      BY <3>1 DEF Progress
  <2>3. QED
    BY <2>1, <2>2
<1>3. ref # None => ref \in Diagnostics /\ spot'[ref] \in Attempted \cup Over
  BY <1>1 DEF OfTheAttempt
<1>4. \A n \in Moon!Outputs : published[n] # None =>
        published[n] = ref /\ spot'[ref] \in {"publish", "syncdir"} \cup Over
  <2> SUFFICES ASSUME NEW n \in Moon!Outputs, published[n] # None
               PROVE  published[n] = ref /\ spot'[ref] \in {"publish", "syncdir"} \cup Over
    OBVIOUS
  <2>1. published[n] = ref /\ spot[ref] \in {"publish", "syncdir"} \cup Over /\ ref \in Diagnostics
    BY DEF OfTheAttempt
  <2>2. QED
    BY <1>1, <2>1
<1>5. published[Moon!Manifest] # None => Moon!MeasuredRows(ref)' = Moon!MeasuredRows(ref)
  <2> SUFFICES ASSUME published[Moon!Manifest] # None
               PROVE  Moon!MeasuredRows(ref)' = Moon!MeasuredRows(ref)
    OBVIOUS
  <2>1. Moon!Manifest \in Moon!Outputs
    BY MoonAssumption
       DEF Moon!Manifest, Moon!Outputs, Moon!RunsAssumption, Moon!DiagnosticAssumption
  <2>2. spot[ref] # "kernel" /\ ref \in Diagnostics
    BY <2>1 DEF OfTheAttempt, Over
  <2>3. records'[ref] = records[ref]
    BY <1>1, <2>2
  <2>4. QED
    BY <2>3, RowsTell
<1>6. Moon!Manifest' = Moon!Manifest /\ Moon!Outputs' = Moon!Outputs
  BY DEF Moon!Manifest, Moon!Outputs
<1>7. QED
  BY <1>1, <1>2, <1>3, <1>4, <1>5, <1>6 DEF OfTheAttempt

(* Nor is the ledger, and what it accounts for, by the other steps.        *)
LEMMA LedgerKept ==
  ASSUME MoonInv, NEW r \in Diagnostics, NEW to, to \notin {"sync", "dispatch"},
         spot' = [spot EXCEPT ![r] = to], ~overlap' => ~overlap,
         UNCHANGED <<kind, executed, ledger, durable, kills, losses, start>>,
         \A q \in Sweepers \ {r} : consumed'[q] = consumed[q]
  PROVE  Charged' /\ Counted'
<1> USE DEF MoonInv
<1>1. /\ Diagnostics' = Diagnostics /\ Moon!Sweeps' = Moon!Sweeps
      /\ Moon!Dispatches' = Moon!Dispatches
  BY KindsKept, SameDispatches
<1>2. /\ r \in Sweepers /\ DOMAIN spot = Sweepers /\ \A d \in Diagnostics : d \in Sweepers
      /\ \A q \in Moon!Sweeps : q \in Sweepers \ {r}
  BY DEF Diagnostics, Moon!Sweeps, Moon!IsC1, Moon!IsSweep, MoonTypes
<1>3. \A q \in Moon!Sweeps : /\ spot'[q] = spot[q] /\ consumed'[q] = consumed[q]
                             /\ (Moon!Holds(q)' <=> Moon!Holds(q))
  BY <1>2 DEF Moon!Holds, Moon!Ended
<1>4. Charged'
  <2> SUFFICES ASSUME ~overlap' PROVE Charged'
    BY DEF Charged
  <2>1. ASSUME NEW d \in Diagnostics PROVE Kept(d)'
    BY <1>2 DEF Charged, Kept
  <2>2. ASSUME NEW q \in Moon!Sweeps PROVE HasRead(q)'
    BY <1>1, <1>3 DEF Charged, HasRead
  <2>3. QED
    BY <1>1, <2>1, <2>2 DEF Charged
<1>5. Counted'
  <2> SUFFICES ASSUME kills = 0, losses = 0, ~overlap' PROVE Counted'
    BY DEF Counted
  <2>1. InLedger' /\ \A q \in Moon!Sweeps : InCount(q)'
    BY <1>1, <1>3 DEF Counted, InLedger, InCount, Total, Moon!Count
  <2>2. ASSUME NEW d \in Diagnostics, spot'[d] \in {"sync", "dispatch"} PROVE ledger' > Total'
    BY <1>1, <1>2, <2>2 DEF Counted, Total
  <2>3. QED
    BY <1>1, <2>1, <2>2 DEF Counted
<1>6. QED
  BY <1>4, <1>5

(* Every step of a diagnostic.                                             *)
LEMMA DiagnosticKeepsMoonInv ==
  ASSUME MoonInv, NEW r \in Sweepers, Moon!DiagnosticStep(r), Moon!Diagnosing
  PROVE  MoonInv'
<1> USE MoonAssumption DEF MoonInv, Moon!Goto, Moon!At,
                           Moon!RunsAssumption, Moon!LedgerAssumption, Moon!DiagnosticAssumption
<1>1. /\ Diagnostics' = Diagnostics /\ Moon!Sweeps' = Moon!Sweeps /\ kind' = kind
      /\ r \in Diagnostics /\ r \notin Moon!Sweeps /\ Moon!IsC1(r) /\ Moon!IsC1(r)'
      /\ (~overlap' => ~overlap)
      /\ UNCHANGED <<rss, receipt, outcome, orphans, kills, losses, start>>
  BY DiagnosticsOwn, KindsKept DEF Diagnostics, Moon!Sweeps, Moon!IsC1, Moon!IsSweep,
     Moon!Diagnosing, Moon!sweepVars
<1>2. SweepsInBounds' /\ Honest'
  BY <1>1, DiagnosticsOwn, SweepsKept DEF Moon!Sweeps
<1>3. /\ \A q \in Moon!Sweeps :
           /\ q \in Sweepers /\ spot'[q] = spot[q] /\ consumed'[q] = consumed[q]
           /\ (Moon!Holds(q)' <=> Moon!Holds(q))
      /\ \A d \in Diagnostics \ {r} :
           /\ d \in Sweepers /\ spot'[d] = spot[d] /\ item'[d] = item[d]
           /\ executed'[d] = executed[d] /\ records'[d] = records[d]
           /\ consumed'[d] = consumed[d] /\ (Moon!Holds(d)' <=> Moon!Holds(d))
  BY <1>1, DiagnosticsOwn DEF Diagnostics, Moon!Sweeps, Moon!Holds, Moon!Ended
<1>4. \A q \in Sweepers \ {r} : item'[q] = item[q] /\ records'[q] = records[q]
                                /\ consumed'[q] = consumed[q]
  BY DiagnosticsOwn
<1>5. Before \in Nat /\ Snapshots \in Nat \ {0} /\ None \notin Sweepers
  OBVIOUS
<1>6. Position(r)
  BY <1>1 DEF Positions
<1>7. \A d \in Diagnostics \ {r} : Position(d)
  BY DEF Positions
<1>8. Moon!Holds(r) => \A d \in Diagnostics \ {r} : ~Moon!Holds(d)
  BY <1>6, <1>7 DEF Position
<1>9. spot[r] \in Attempted =>
        ref = r /\ \A d \in Diagnostics \ {r} : executed[d] = 0 /\ spot[d] \notin Attempted
  <2> SUFFICES ASSUME spot[r] \in Attempted, NEW d \in Diagnostics \ {r}
               PROVE  ref = r /\ executed[d] = 0 /\ spot[d] \notin Attempted
    BY <1>6 DEF Position
  <2>1. executed[d] \in Nat
    BY DEF Diagnostics, MoonTypes
  <2>2. QED
    BY <1>6, <1>7, <2>1 DEF Position
<1>10. Moon!Holds(r) /\ ~overlap => \A q \in Moon!Sweeps : ~Moon!Holds(q)
  BY <1>1, <1>3 DEF Exclusive
<1>11. CASE Leaves(r)
  <2>1. PICK to \in {"ended", "unlock"} :
          spot' = [spot EXCEPT ![r] = to] /\ (to = "unlock" => Moon!Holds(r))
    BY <1>11 DEF Leaves
  <2>2. orphans' \subseteq Sweepers \X (1..Cells)
    BY <1>1 DEF FileTypes
  <2>3. QED
    BY <1>1, <1>11, <2>1, <2>2, LeavingKeepsMoonInv DEF Leaves
<1>12. CASE Moon!PrepareRoster(r) /\ spot' = [spot EXCEPT ![r] = "attempt"]
  <2>1. /\ spot[r] = "idle" /\ spot' = [spot EXCEPT ![r] = "attempt"]
        /\ UNCHANGED <<consumed, item, records, executed, overlap, ledger, durable, lock, ref,
                       published, synced>>
    BY <1>12 DEF Moon!PrepareRoster, Moon!ledgerVars, Moon!diagnosticVars, MoonTypes
  <2>2. Placed'
    BY <2>1, <1>1, StaysPlaced DEF Unattempted, Attempted, Over
  <2>3. MoonTypes'
    BY <2>1, <1>1, <1>5, <1>6 DEF MoonTypes
  <2>4. FileTypes'
    BY <2>1, <1>1 DEF FileTypes
  <2>5. Moon!Dispatches' = Moon!Dispatches
    BY <2>1, SameDispatches
  <2>6. Positions'
    <3>1. ASSUME NEW d \in Diagnostics \ {r} PROVE Position(d)'
      BY <1>3, <1>5, <1>7, <1>8, <2>1 DEF Position, Moon!Holds, Moon!Ended, MoonTypes, Diagnostics
    <3>2. Position(r)'
      BY <1>1, <1>5, <1>6, <2>1
         DEF Position, MoonTypes, Moon!Holds, Moon!Ended, Unattempted, Attempted
    <3>3. QED
      BY <1>1, <3>1, <3>2 DEF Positions
  <2>7. Exclusive'
    BY <1>1, <1>3, <1>8, <2>1 DEF Exclusive, MoonTypes, Moon!Holds, Moon!Ended
  <2>8. Charged' /\ Counted'
    <3> HIDE DEF MoonInv
    <3> QED
      BY <1>1, <1>4, <2>1, LedgerKept
  <2>9. OfTheAttempt'
    <3>1. /\ "attempt" \notin {"publish", "syncdir"} /\ records'[r] = records[r]
          /\ "idle" \in Attempted \cup Over => "attempt" \in Attempted \cup Over
          /\ "idle" \in {"publish", "syncdir"} \cup Over
               => "attempt" \in {"publish", "syncdir"} \cup Over
      BY <2>1 DEF Attempted, Over
    <3> HIDE DEF MoonInv
    <3>2. QED
      BY <1>1, <1>4, <2>1, <3>1, AttemptKept
  <2>10. QED
    BY <1>2, <2>2, <2>3, <2>4, <2>5, <2>6, <2>7, <2>8, <2>9
<1>13. CASE Moon!CheckAttempt(r) /\ spot' = [spot EXCEPT ![r] = "lock"]
  <2>1. /\ spot[r] = "attempt" /\ spot' = [spot EXCEPT ![r] = "lock"]
        /\ UNCHANGED <<consumed, item, records, executed, overlap, ledger, durable, lock, ref,
                       published, synced>>
    BY <1>13 DEF Moon!CheckAttempt, Moon!ledgerVars, Moon!diagnosticVars, MoonTypes
  <2>2. Placed'
    BY <2>1, <1>1, StaysPlaced DEF Unattempted, Attempted, Over
  <2>3. MoonTypes'
    BY <2>1, <1>1, <1>5, <1>6 DEF MoonTypes
  <2>4. FileTypes'
    BY <2>1, <1>1 DEF FileTypes
  <2>5. Moon!Dispatches' = Moon!Dispatches
    BY <2>1, SameDispatches
  <2>6. Positions'
    <3>1. ASSUME NEW d \in Diagnostics \ {r} PROVE Position(d)'
      BY <1>3, <1>5, <1>7, <1>8, <2>1 DEF Position, Moon!Holds, Moon!Ended, MoonTypes, Diagnostics
    <3>2. Position(r)'
      BY <1>1, <1>5, <1>6, <2>1
         DEF Position, MoonTypes, Moon!Holds, Moon!Ended, Unattempted, Attempted
    <3>3. QED
      BY <1>1, <3>1, <3>2 DEF Positions
  <2>7. Exclusive'
    BY <1>1, <1>3, <1>8, <2>1 DEF Exclusive, MoonTypes, Moon!Holds, Moon!Ended
  <2>8. Charged' /\ Counted'
    <3> HIDE DEF MoonInv
    <3> QED
      BY <1>1, <1>4, <2>1, LedgerKept
  <2>9. OfTheAttempt'
    <3>1. /\ "lock" \notin {"publish", "syncdir"} /\ records'[r] = records[r]
          /\ "attempt" \in Attempted \cup Over => "lock" \in Attempted \cup Over
          /\ "attempt" \in {"publish", "syncdir"} \cup Over
               => "lock" \in {"publish", "syncdir"} \cup Over
      BY <2>1 DEF Attempted, Over
    <3> HIDE DEF MoonInv
    <3>2. QED
      BY <1>1, <1>4, <2>1, <3>1, AttemptKept
  <2>10. QED
    BY <1>2, <2>2, <2>3, <2>4, <2>5, <2>6, <2>7, <2>8, <2>9
<1>14. CASE Moon!TakeLock(r) /\ lock = None
  <2>1. /\ spot[r] = "lock" /\ spot' = [spot EXCEPT ![r] = "budget"]
        /\ lock = None /\ lock' = r
        /\ overlap' \in BOOLEAN
        /\ (~overlap' => ~overlap /\ \A q \in Moon!Sweeps : ~Moon!Holds(q))
        /\ UNCHANGED <<consumed, item, records, executed, ledger, durable, ref, published,
                       synced>>
    <3>1. spot[r] = "lock" /\ spot' = [spot EXCEPT ![r] = "budget"]
          /\ lock = None /\ lock' = r
          /\ UNCHANGED <<consumed, item, records, executed, ledger, durable, ref, published,
                         synced>>
      BY <1>14 DEF Moon!TakeLock, Moon!ledgerVars
    <3>2. overlap' = (overlap \/ \E q \in Sweepers : Moon!IsSweep(q) /\ Moon!Holds(q))
      BY <1>14 DEF Moon!TakeLock
    <3>3. overlap' \in BOOLEAN
          /\ (~overlap' => ~overlap /\ \A q \in Moon!Sweeps : ~Moon!Holds(q))
      BY <3>2, Zenon DEF Moon!Sweeps
    <3>4. QED
      BY <3>1, <3>3
  <2>2. Placed'
    BY <2>1, <1>1, StaysPlaced DEF Unattempted, Attempted, Over
  <2>3. MoonTypes'
    BY <2>1, <1>1, <1>5, <1>6 DEF MoonTypes
  <2>4. FileTypes'
    BY <2>1, <1>1 DEF FileTypes
  <2>5. Moon!Dispatches' = Moon!Dispatches
    BY <2>1, SameDispatches
  <2>6. Positions'
    <3>1. ASSUME NEW d \in Diagnostics \ {r} PROVE Position(d)'
      BY <1>3, <1>5, <1>7, <1>8, <2>1 DEF Position, Moon!Holds, Moon!Ended, MoonTypes, Diagnostics
    <3>2. Position(r)'
      BY <1>1, <1>5, <1>6, <2>1
         DEF Position, MoonTypes, Moon!Holds, Moon!Ended, Unattempted, Attempted
    <3>3. QED
      BY <1>1, <3>1, <3>2 DEF Positions
  <2>7. Exclusive'
    <3> SUFFICES ASSUME ~overlap', NEW q \in Sweepers \ {r} PROVE ~Moon!Holds(q)'
      BY DEF Exclusive
    <3>1. q \in Diagnostics \/ q \in Moon!Sweeps
      BY DEF Diagnostics, Moon!Sweeps, Moon!IsC1, Moon!IsSweep, Moon!Kinds, MoonTypes
    <3>2. q \in Diagnostics => ~Moon!Holds(q)
      BY <1>5, <1>7, <2>1 DEF Position
    <3>3. QED
      BY <1>3, <2>1, <3>1, <3>2
  <2>8. Charged' /\ Counted'
    <3> HIDE DEF MoonInv
    <3> QED
      BY <1>1, <1>4, <2>1, LedgerKept
  <2>9. OfTheAttempt'
    <3>1. /\ "budget" \notin {"publish", "syncdir"} /\ records'[r] = records[r]
          /\ "lock" \in Attempted \cup Over => "budget" \in Attempted \cup Over
          /\ "lock" \in {"publish", "syncdir"} \cup Over
               => "budget" \in {"publish", "syncdir"} \cup Over
      BY <2>1 DEF Attempted, Over
    <3> HIDE DEF MoonInv
    <3>2. QED
      BY <1>1, <1>4, <2>1, <3>1, AttemptKept
  <2>10. QED
    BY <1>2, <2>2, <2>3, <2>4, <2>5, <2>6, <2>7, <2>8, <2>9
<1>15. CASE Moon!CheckBudget(r) /\ ledger = Before /\ Before + Snapshots <= Cap
  <2>1. /\ spot[r] = "budget" /\ spot' = [spot EXCEPT ![r] = "build"]
        /\ Before + Snapshots <= Cap
        /\ consumed' = [consumed EXCEPT ![r] = Before]
        /\ UNCHANGED <<item, records, executed, overlap, ledger, durable, lock, ref, published,
                       synced>>
    BY <1>15 DEF Moon!CheckBudget, Moon!ledgerVars, Moon!diagnosticVars, MoonTypes
  <2>2. Placed'
    BY <2>1, <1>1, StaysPlaced DEF Unattempted, Attempted, Over
  <2>3. MoonTypes'
    BY <2>1, <1>1, <1>5, <1>6 DEF MoonTypes
  <2>4. FileTypes'
    BY <2>1, <1>1 DEF FileTypes
  <2>5. Moon!Dispatches' = Moon!Dispatches
    BY <2>1, SameDispatches
  <2>6. Positions'
    <3>1. ASSUME NEW d \in Diagnostics \ {r} PROVE Position(d)'
      BY <1>3, <1>5, <1>7, <1>8, <2>1 DEF Position, Moon!Holds, Moon!Ended, MoonTypes, Diagnostics
    <3>2. Position(r)'
      BY <1>1, <1>5, <1>6, <2>1
         DEF Position, MoonTypes, Moon!Holds, Moon!Ended, Unattempted, Attempted
    <3>3. QED
      BY <1>1, <3>1, <3>2 DEF Positions
  <2>7. Exclusive'
    BY <1>1, <1>3, <1>8, <2>1 DEF Exclusive, MoonTypes, Moon!Holds, Moon!Ended
  <2>8. Charged' /\ Counted'
    <3> HIDE DEF MoonInv
    <3> QED
      BY <1>1, <1>4, <2>1, LedgerKept
  <2>9. OfTheAttempt'
    <3>1. /\ "build" \notin {"publish", "syncdir"} /\ records'[r] = records[r]
          /\ "budget" \in Attempted \cup Over => "build" \in Attempted \cup Over
          /\ "budget" \in {"publish", "syncdir"} \cup Over
               => "build" \in {"publish", "syncdir"} \cup Over
      BY <2>1 DEF Attempted, Over
    <3> HIDE DEF MoonInv
    <3>2. QED
      BY <1>1, <1>4, <2>1, <3>1, AttemptKept
  <2>10. QED
    BY <1>2, <2>2, <2>3, <2>4, <2>5, <2>6, <2>7, <2>8, <2>9
<1>16. CASE Moon!MakeBuildRoot(r) /\ buildRoot = None
  <2>1. /\ spot[r] = "build" /\ spot' = [spot EXCEPT ![r] = "built"]
        /\ UNCHANGED <<consumed, item, records, executed, overlap, ledger, durable, lock, ref,
                       published, synced>>
    BY <1>16 DEF Moon!MakeBuildRoot, Moon!ledgerVars, Moon!diagnosticVars, MoonTypes
  <2>2. Placed'
    BY <2>1, <1>1, StaysPlaced DEF Unattempted, Attempted, Over
  <2>3. MoonTypes'
    BY <2>1, <1>1, <1>5, <1>6 DEF MoonTypes
  <2>4. FileTypes'
    BY <2>1, <1>1 DEF FileTypes
  <2>5. Moon!Dispatches' = Moon!Dispatches
    BY <2>1, SameDispatches
  <2>6. Positions'
    <3>1. ASSUME NEW d \in Diagnostics \ {r} PROVE Position(d)'
      BY <1>3, <1>5, <1>7, <1>8, <2>1 DEF Position, Moon!Holds, Moon!Ended, MoonTypes, Diagnostics
    <3>2. Position(r)'
      BY <1>1, <1>5, <1>6, <2>1
         DEF Position, MoonTypes, Moon!Holds, Moon!Ended, Unattempted, Attempted
    <3>3. QED
      BY <1>1, <3>1, <3>2 DEF Positions
  <2>7. Exclusive'
    BY <1>1, <1>3, <1>8, <2>1 DEF Exclusive, MoonTypes, Moon!Holds, Moon!Ended
  <2>8. Charged' /\ Counted'
    <3> HIDE DEF MoonInv
    <3> QED
      BY <1>1, <1>4, <2>1, LedgerKept
  <2>9. OfTheAttempt'
    <3>1. /\ "built" \notin {"publish", "syncdir"} /\ records'[r] = records[r]
          /\ "build" \in Attempted \cup Over => "built" \in Attempted \cup Over
          /\ "build" \in {"publish", "syncdir"} \cup Over
               => "built" \in {"publish", "syncdir"} \cup Over
      BY <2>1 DEF Attempted, Over
    <3> HIDE DEF MoonInv
    <3>2. QED
      BY <1>1, <1>4, <2>1, <3>1, AttemptKept
  <2>10. QED
    BY <1>2, <2>2, <2>3, <2>4, <2>5, <2>6, <2>7, <2>8, <2>9
<1>17. CASE Moon!Build(r) /\ spot' = [spot EXCEPT ![r] = "reserve"]
  <2>1. /\ spot[r] = "built" /\ spot' = [spot EXCEPT ![r] = "reserve"]
        /\ UNCHANGED <<consumed, item, records, executed, overlap, ledger, durable, lock, ref,
                       published, synced>>
    BY <1>17 DEF Moon!Build, Moon!ledgerVars, Moon!diagnosticVars, MoonTypes
  <2>2. Placed'
    BY <2>1, <1>1, StaysPlaced DEF Unattempted, Attempted, Over
  <2>3. MoonTypes'
    BY <2>1, <1>1, <1>5, <1>6 DEF MoonTypes
  <2>4. FileTypes'
    BY <2>1, <1>1 DEF FileTypes
  <2>5. Moon!Dispatches' = Moon!Dispatches
    BY <2>1, SameDispatches
  <2>6. Positions'
    <3>1. ASSUME NEW d \in Diagnostics \ {r} PROVE Position(d)'
      BY <1>3, <1>5, <1>7, <1>8, <2>1 DEF Position, Moon!Holds, Moon!Ended, MoonTypes, Diagnostics
    <3>2. Position(r)'
      BY <1>1, <1>5, <1>6, <2>1
         DEF Position, MoonTypes, Moon!Holds, Moon!Ended, Unattempted, Attempted
    <3>3. QED
      BY <1>1, <3>1, <3>2 DEF Positions
  <2>7. Exclusive'
    BY <1>1, <1>3, <1>8, <2>1 DEF Exclusive, MoonTypes, Moon!Holds, Moon!Ended
  <2>8. Charged' /\ Counted'
    <3> HIDE DEF MoonInv
    <3> QED
      BY <1>1, <1>4, <2>1, LedgerKept
  <2>9. OfTheAttempt'
    <3>1. /\ "reserve" \notin {"publish", "syncdir"} /\ records'[r] = records[r]
          /\ "built" \in Attempted \cup Over => "reserve" \in Attempted \cup Over
          /\ "built" \in {"publish", "syncdir"} \cup Over
               => "reserve" \in {"publish", "syncdir"} \cup Over
      BY <2>1 DEF Attempted, Over
    <3> HIDE DEF MoonInv
    <3>2. QED
      BY <1>1, <1>4, <2>1, <3>1, AttemptKept
  <2>10. QED
    BY <1>2, <2>2, <2>3, <2>4, <2>5, <2>6, <2>7, <2>8, <2>9
<1>18. CASE Moon!CreateAttempt(r) /\ ref = None
  <2>1. /\ spot[r] = "reserve" /\ spot' = [spot EXCEPT ![r] = "snapshots"]
        /\ ref = None /\ ref' = r
        /\ UNCHANGED <<consumed, item, records, executed, overlap, ledger, durable, lock,
                       published, synced>>
    BY <1>18 DEF Moon!CreateAttempt, Moon!ledgerVars, Moon!diagnosticVars, MoonTypes
  <2>2. Placed'
    BY <2>1, <1>1, StaysPlaced DEF Unattempted, Attempted, Over
  <2>3. MoonTypes'
    BY <2>1, <1>1, <1>5, <1>6 DEF MoonTypes
  <2>4. FileTypes'
    BY <2>1, <1>1 DEF FileTypes
  <2>5. Moon!Dispatches' = Moon!Dispatches
    BY <2>1, SameDispatches
  <2>6. Positions'
    <3>1. ASSUME NEW d \in Diagnostics \ {r} PROVE Position(d)'
      BY <1>3, <1>5, <1>7, <1>8, <2>1 DEF Position, Moon!Holds, Moon!Ended, MoonTypes, Diagnostics
    <3>2. Position(r)'
      BY <1>1, <1>5, <1>6, <2>1
         DEF Position, MoonTypes, Moon!Holds, Moon!Ended, Unattempted, Attempted
    <3>3. QED
      BY <1>1, <3>1, <3>2 DEF Positions
  <2>7. Exclusive'
    BY <1>1, <1>3, <1>8, <2>1 DEF Exclusive, MoonTypes, Moon!Holds, Moon!Ended
  <2>8. Charged' /\ Counted'
    <3> HIDE DEF MoonInv
    <3> QED
      BY <1>1, <1>4, <2>1, LedgerKept
  <2>9. OfTheAttempt'
    <3>1. \A d \in Diagnostics : Moon!ToPublish(d)' = Moon!ToPublish(d)
          /\ Moon!MeasuredRows(d)' = Moon!MeasuredRows(d)
      BY <2>1, RowsTell
    <3>2. Moon!Manifest' = Moon!Manifest /\ Moon!Outputs' = Moon!Outputs /\ Moon!Manifest \in Moon!Outputs
      BY <1>5 DEF Moon!Manifest, Moon!Outputs
    <3>3. DOMAIN spot = Sweepers /\ DOMAIN item = Sweepers /\ spot'[r] = "snapshots" /\ spot[r] = "reserve"
      BY <2>1 DEF MoonTypes
    <3>4. \A n \in Moon!Outputs : published[n] = None
      BY <2>1 DEF OfTheAttempt
    <3>5. \A d \in Diagnostics : Progress(d)'
      BY <1>3, <2>1, <3>1, <3>3 DEF OfTheAttempt, Progress
    <3>6. QED
      BY <1>1, <2>1, <3>2, <3>3, <3>4, <3>5 DEF OfTheAttempt, Attempted
  <2>10. QED
    BY <1>2, <2>2, <2>3, <2>4, <2>5, <2>6, <2>7, <2>8, <2>9
<1>19. CASE Moon!ValidateSnapshots(r) /\ spot' = [spot EXCEPT ![r] = "charge"]
  <2>1. /\ spot[r] = "snapshots" /\ spot' = [spot EXCEPT ![r] = "charge"]
        /\ UNCHANGED <<consumed, item, records, executed, overlap, ledger, durable, lock, ref,
                       published, synced>>
    BY <1>19 DEF Moon!ValidateSnapshots, Moon!ledgerVars, Moon!diagnosticVars, MoonTypes
  <2>2. Placed'
    BY <2>1, <1>1, StaysPlaced DEF Unattempted, Attempted, Over
  <2>3. MoonTypes'
    BY <2>1, <1>1, <1>5, <1>6 DEF MoonTypes
  <2>4. FileTypes'
    BY <2>1, <1>1 DEF FileTypes
  <2>5. Moon!Dispatches' = Moon!Dispatches
    BY <2>1, SameDispatches
  <2>6. Positions'
    <3>1. ASSUME NEW d \in Diagnostics \ {r} PROVE Position(d)'
      BY <1>3, <1>5, <1>7, <1>8, <2>1 DEF Position, Moon!Holds, Moon!Ended, MoonTypes, Diagnostics
    <3>2. Position(r)'
      BY <1>1, <1>5, <1>6, <2>1
         DEF Position, MoonTypes, Moon!Holds, Moon!Ended, Unattempted, Attempted
    <3>3. QED
      BY <1>1, <3>1, <3>2 DEF Positions
  <2>7. Exclusive'
    BY <1>1, <1>3, <1>8, <2>1 DEF Exclusive, MoonTypes, Moon!Holds, Moon!Ended
  <2>8. Charged' /\ Counted'
    <3> HIDE DEF MoonInv
    <3> QED
      BY <1>1, <1>4, <2>1, LedgerKept
  <2>9. OfTheAttempt'
    <3>1. /\ "charge" \notin {"publish", "syncdir"} /\ records'[r] = records[r]
          /\ "snapshots" \in Attempted \cup Over => "charge" \in Attempted \cup Over
          /\ "snapshots" \in {"publish", "syncdir"} \cup Over
               => "charge" \in {"publish", "syncdir"} \cup Over
      BY <2>1 DEF Attempted, Over
    <3> HIDE DEF MoonInv
    <3>2. QED
      BY <1>1, <1>4, <2>1, <3>1, AttemptKept
  <2>10. QED
    BY <1>2, <2>2, <2>3, <2>4, <2>5, <2>6, <2>7, <2>8, <2>9
<1>20. CASE Moon!Charge(r) /\ ledger = consumed[r]
  <2>1. /\ spot[r] = "charge" /\ spot' = [spot EXCEPT ![r] = "sync"]
        /\ item[r] <= Snapshots
        /\ ledger = consumed[r]
        /\ consumed' = [consumed EXCEPT ![r] = @ + 1]
        /\ ledger' = consumed[r] + 1
        /\ durable' = durable \cup {consumed[r] + 1}
        /\ UNCHANGED <<item, records, executed, overlap, lock, ref, published, synced>>
    BY <1>20 DEF Moon!Charge, Moon!ledgerVars, Moon!diagnosticVars, MoonTypes, Moon!ReplaceLedger
  <2>2. Placed'
    BY <2>1, <1>1, StaysPlaced DEF Unattempted, Attempted, Over
  <2>3. MoonTypes'
    <3>1. consumed[r] + 1 \in 0..Cap
      BY <1>5, <1>6, <2>1 DEF MoonTypes, Position, Attempted
    <3>2. consumed' \in [Sweepers -> 0..Cap]
      BY <2>1, <3>1 DEF MoonTypes
    <3>3. ledger' \in durable' /\ durable' \subseteq Moon!Torn..Cap
      <4>1. consumed[r] + 1 \in Moon!Torn..Cap
        BY <3>1 DEF Moon!Torn
      <4>2. QED
        BY <2>1, <4>1 DEF MoonTypes
    <3>4. QED
      BY <1>1, <2>1, <3>2, <3>3 DEF MoonTypes
  <2>4. FileTypes'
    BY <2>1, <1>1 DEF FileTypes
  <2>5. Moon!Dispatches' = Moon!Dispatches
    BY <2>1, SameDispatches
  <2>6. Cardinality(Moon!Dispatches) \in Nat
    BY FS_CardinalityType
  <2>7. Positions'
    <3>1. ASSUME NEW d \in Diagnostics \ {r} PROVE Position(d)'
      BY <1>3, <1>5, <1>7, <1>8, <2>1 DEF Position, Moon!Holds, Moon!Ended, MoonTypes, Diagnostics
    <3>2. Position(r)'
      BY <1>1, <1>5, <1>6, <2>1
         DEF Position, MoonTypes, Moon!Holds, Moon!Ended, Unattempted, Attempted
    <3>3. QED
      BY <1>1, <3>1, <3>2 DEF Positions
  <2>8. Exclusive'
    BY <1>1, <1>3, <1>8, <2>1 DEF Exclusive, MoonTypes, Moon!Holds, Moon!Ended
  <2>9. Charged'
    <3> SUFFICES ASSUME ~overlap' PROVE Charged'
      BY DEF Charged
    <3>1. ASSUME NEW d \in Diagnostics \ {r} PROVE Kept(d)'
      BY <1>1, <1>3, <1>9, <2>1 DEF Charged, Kept, Attempted
    <3>2. Kept(r)'
      BY <1>1, <1>5, <1>6, <2>1
         DEF Charged, Kept, Position, MoonTypes, Moon!Torn, Attempted, Unattempted
    <3>3. ASSUME NEW q \in Moon!Sweeps PROVE HasRead(q)'
      BY <1>1, <1>3, <1>10, <2>1 DEF Charged, HasRead, MoonTypes
    <3>4. QED
      BY <1>1, <3>1, <3>2, <3>3 DEF Charged
  <2>10. Counted'
    <3> SUFFICES ASSUME kills = 0, losses = 0, ~overlap' PROVE Counted'
      BY <1>1 DEF Counted
    <3>1. ~overlap /\ Counted /\ start \in Nat /\ Cardinality(Moon!Dispatches) \in Nat
      BY <1>1, <2>6 DEF MoonTypes
    <3>2. InLedger'
      BY <1>1, <1>3, <1>10, <2>1, <2>5, <3>1
         DEF Counted, InLedger, Total, MoonTypes, Moon!Count, Moon!Torn, Moon!Absent, Moon!Holds,
         Moon!Ended
    <3>3. ASSUME NEW q \in Moon!Sweeps PROVE InCount(q)'
      BY <1>1, <1>3, <1>10, <2>1, <2>5, <3>1
         DEF Counted, InCount, Total, Moon!Count, Moon!Holds, Moon!Ended
    <3>4. ASSUME NEW d \in Diagnostics, spot'[d] \in {"sync", "dispatch"} PROVE ledger' > Total'
      BY <1>1, <1>3, <1>8, <1>10, <2>1, <2>5, <3>1, <3>4
         DEF Counted, InLedger, Total, MoonTypes, Moon!Count, Moon!Absent, Moon!Holds, Moon!Ended
    <3>5. QED
      BY <1>1, <3>2, <3>3, <3>4 DEF Counted
  <2>11. OfTheAttempt'
    <3>1. /\ "sync" \notin {"publish", "syncdir"} /\ records'[r] = records[r]
          /\ "charge" \in Attempted \cup Over => "sync" \in Attempted \cup Over
          /\ "charge" \in {"publish", "syncdir"} \cup Over
               => "sync" \in {"publish", "syncdir"} \cup Over
      BY <2>1 DEF Attempted, Over
    <3> HIDE DEF MoonInv
    <3>2. QED
      BY <1>1, <1>4, <2>1, <3>1, AttemptKept
  <2>12. QED
    BY <1>2, <2>2, <2>3, <2>4, <2>5, <2>6, <2>7, <2>8, <2>9, <2>10, <2>11
<1>21. CASE Moon!SyncCharge(r) /\ spot' = [spot EXCEPT ![r] = "dispatch"]
  <2>1. /\ spot[r] = "sync" /\ spot' = [spot EXCEPT ![r] = "dispatch"]
        /\ durable' = IF ledger = consumed[r] THEN {consumed[r]} ELSE durable
        /\ UNCHANGED <<consumed, item, records, executed, overlap, ledger, lock, ref, published,
                       synced>>
    BY <1>21 DEF Moon!SyncCharge, Moon!ledgerVars, Moon!diagnosticVars, MoonTypes, Moon!SyncLedger
  <2>2. Placed'
    BY <2>1, <1>1, StaysPlaced DEF Unattempted, Attempted, Over
  <2>3. MoonTypes'
    BY <2>1, <1>1, <1>5, <1>6 DEF MoonTypes, Moon!Torn
  <2>4. FileTypes'
    BY <2>1, <1>1 DEF FileTypes
  <2>5. Moon!Dispatches' = Moon!Dispatches
    BY <2>1, SameDispatches
  <2>6. Cardinality(Moon!Dispatches) \in Nat
    BY FS_CardinalityType
  <2>7. Positions'
    <3>1. ASSUME NEW d \in Diagnostics \ {r} PROVE Position(d)'
      BY <1>3, <1>5, <1>7, <1>8, <2>1 DEF Position, Moon!Holds, Moon!Ended, MoonTypes, Diagnostics
    <3>2. Position(r)'
      BY <1>1, <1>5, <1>6, <2>1
         DEF Position, MoonTypes, Moon!Holds, Moon!Ended, Unattempted, Attempted
    <3>3. QED
      BY <1>1, <3>1, <3>2 DEF Positions
  <2>8. Exclusive'
    BY <1>1, <1>3, <1>8, <2>1 DEF Exclusive, MoonTypes, Moon!Holds, Moon!Ended
  <2>9. Charged'
    <3> SUFFICES ASSUME ~overlap' PROVE Charged'
      BY DEF Charged
    <3>1. ASSUME NEW d \in Diagnostics \ {r} PROVE Kept(d)'
      BY <1>1, <1>3, <1>9, <2>1 DEF Charged, Kept, Attempted
    <3>2. Kept(r)'
      BY <1>1, <1>5, <1>6, <2>1
         DEF Charged, Kept, Position, MoonTypes, Moon!Torn, Attempted, Unattempted
    <3>3. ASSUME NEW q \in Moon!Sweeps PROVE HasRead(q)'
      BY <1>1, <1>3, <1>10, <2>1 DEF Charged, HasRead, MoonTypes
    <3>4. QED
      BY <1>1, <3>1, <3>2, <3>3 DEF Charged
  <2>10. Counted'
    <3> SUFFICES ASSUME kills = 0, losses = 0, ~overlap' PROVE Counted'
      BY <1>1 DEF Counted
    <3>1. ~overlap /\ Counted /\ start \in Nat /\ Cardinality(Moon!Dispatches) \in Nat
      BY <1>1, <2>6 DEF MoonTypes
    <3>2. InLedger'
      BY <1>1, <1>3, <1>10, <2>1, <2>5, <3>1
         DEF Counted, InLedger, Total, MoonTypes, Moon!Count, Moon!Torn, Moon!Absent, Moon!Holds,
         Moon!Ended
    <3>3. ASSUME NEW q \in Moon!Sweeps PROVE InCount(q)'
      BY <1>1, <1>3, <1>10, <2>1, <2>5, <3>1
         DEF Counted, InCount, Total, Moon!Count, Moon!Holds, Moon!Ended
    <3>4. ASSUME NEW d \in Diagnostics, spot'[d] \in {"sync", "dispatch"} PROVE ledger' > Total'
      BY <1>1, <1>3, <1>8, <1>10, <2>1, <2>5, <3>1, <3>4
         DEF Counted, InLedger, Total, MoonTypes, Moon!Count, Moon!Absent, Moon!Holds, Moon!Ended
    <3>5. QED
      BY <1>1, <3>2, <3>3, <3>4 DEF Counted
  <2>11. OfTheAttempt'
    <3>1. /\ "dispatch" \notin {"publish", "syncdir"} /\ records'[r] = records[r]
          /\ "sync" \in Attempted \cup Over => "dispatch" \in Attempted \cup Over
          /\ "sync" \in {"publish", "syncdir"} \cup Over
               => "dispatch" \in {"publish", "syncdir"} \cup Over
      BY <2>1 DEF Attempted, Over
    <3> HIDE DEF MoonInv
    <3>2. QED
      BY <1>1, <1>4, <2>1, <3>1, AttemptKept
  <2>12. QED
    BY <1>2, <2>2, <2>3, <2>4, <2>5, <2>6, <2>7, <2>8, <2>9, <2>10, <2>11
<1>22. CASE Moon!Dispatch(r) /\ ledger = consumed[r]
  <2>1. /\ spot[r] = "dispatch" /\ spot' = [spot EXCEPT ![r] = "kernel"]
        /\ ledger = consumed[r]
        /\ executed' = [executed EXCEPT ![r] = @ + 1]
        /\ UNCHANGED <<consumed, item, records, overlap, ledger, durable, lock, ref, published,
                       synced>>
    BY <1>22 DEF Moon!Dispatch, Moon!ledgerVars, Moon!diagnosticVars, MoonTypes
  <2>2. Placed'
    BY <2>1, <1>1, StaysPlaced DEF Unattempted, Attempted, Over
  <2>3. MoonTypes'
    BY <2>1, <1>1, <1>5, <1>6 DEF MoonTypes
  <2>4. FileTypes'
    BY <2>1, <1>1 DEF FileTypes
  <2>5. /\ IsFiniteSet(Moon!Dispatches')
        /\ Cardinality(Moon!Dispatches') = Cardinality(Moon!Dispatches) + 1
        /\ Cardinality(Moon!Dispatches) \in Nat
    BY <2>1, OneMoreDispatch DEF MoonTypes
  <2>6. Positions'
    <3>1. ASSUME NEW d \in Diagnostics \ {r} PROVE Position(d)'
      BY <1>3, <1>5, <1>7, <1>8, <2>1 DEF Position, Moon!Holds, Moon!Ended, MoonTypes, Diagnostics
    <3>2. Position(r)'
      BY <1>1, <1>5, <1>6, <2>1
         DEF Position, MoonTypes, Moon!Holds, Moon!Ended, Unattempted, Attempted
    <3>3. QED
      BY <1>1, <3>1, <3>2 DEF Positions
  <2>7. Exclusive'
    BY <1>1, <1>3, <1>8, <2>1 DEF Exclusive, MoonTypes, Moon!Holds, Moon!Ended
  <2>8. Charged'
    <3> SUFFICES ASSUME ~overlap' PROVE Charged'
      BY DEF Charged
    <3>1. ASSUME NEW d \in Diagnostics \ {r} PROVE Kept(d)'
      BY <1>1, <1>3, <1>9, <2>1 DEF Charged, Kept, Attempted
    <3>2. Kept(r)'
      BY <1>1, <1>5, <1>6, <2>1
         DEF Charged, Kept, Position, MoonTypes, Moon!Torn, Attempted, Unattempted
    <3>3. ASSUME NEW q \in Moon!Sweeps PROVE HasRead(q)'
      BY <1>1, <1>3, <1>10, <2>1 DEF Charged, HasRead, MoonTypes, Moon!Holds, Moon!Ended
    <3>4. QED
      BY <1>1, <3>1, <3>2, <3>3 DEF Charged
  <2>9. Counted'
    <3> SUFFICES ASSUME kills = 0, losses = 0, ~overlap' PROVE Counted'
      BY <1>1 DEF Counted
    <3>1. ~overlap /\ Counted /\ start \in Nat /\ Cardinality(Moon!Dispatches) \in Nat
      BY <1>1, <2>5 DEF MoonTypes
    <3>2. InLedger'
      BY <1>1, <1>3, <1>10, <2>1, <2>5, <3>1
         DEF Counted, InLedger, Total, MoonTypes, Moon!Count, Moon!Torn, Moon!Absent, Moon!Holds,
         Moon!Ended
    <3>3. ASSUME NEW q \in Moon!Sweeps PROVE InCount(q)'
      BY <1>1, <1>3, <1>10, <2>1, <2>5, <3>1
         DEF Counted, InCount, Total, Moon!Count, Moon!Holds, Moon!Ended
    <3>4. ASSUME NEW d \in Diagnostics, spot'[d] \in {"sync", "dispatch"} PROVE ledger' > Total'
      BY <1>1, <1>3, <1>8, <1>10, <2>1, <2>5, <3>1, <3>4
         DEF Counted, InLedger, Total, MoonTypes, Moon!Count, Moon!Absent, Moon!Holds, Moon!Ended
    <3>5. QED
      BY <1>1, <3>2, <3>3, <3>4 DEF Counted
  <2>10. OfTheAttempt'
    <3>1. /\ "kernel" \notin {"publish", "syncdir"} /\ records'[r] = records[r]
          /\ "dispatch" \in Attempted \cup Over => "kernel" \in Attempted \cup Over
          /\ "dispatch" \in {"publish", "syncdir"} \cup Over
               => "kernel" \in {"publish", "syncdir"} \cup Over
      BY <2>1 DEF Attempted, Over
    <3> HIDE DEF MoonInv
    <3>2. QED
      BY <1>1, <1>4, <2>1, <3>1, AttemptKept
  <2>11. QED
    BY <1>2, <2>2, <2>3, <2>4, <2>5, <2>6, <2>7, <2>8, <2>9, <2>10
<1>23. CASE Moon!KernelReports(r)
  <2>1. PICK row \in RowType :
          /\ spot[r] = "kernel" /\ spot' = [spot EXCEPT ![r] = "charge"]
          /\ records' = [records EXCEPT ![r] = Append(@, row)]
          /\ item' = [item EXCEPT ![r] = IF row.status = "measured" THEN @ + 1 ELSE Snapshots + 1]
          /\ UNCHANGED <<consumed, executed, overlap, ledger, durable, lock, ref, published,
                         synced>>
    <3>1. PICK status \in {"dispatch_error", "failed", "invalid_report", "measured"} :
            /\ records' = [records EXCEPT ![r] =
                             Append(@, [status |-> status, by |-> r, ended |-> "none"])]
            /\ item' = [item EXCEPT ![r] = IF status = "measured" THEN @ + 1 ELSE Snapshots + 1]
      BY <1>23 DEF Moon!KernelReports, Moon!ReportVerdicts
    <3>2. [status |-> status, by |-> r, ended |-> "none"] \in RowType
      BY DEF RowType
    <3>3. spot[r] = "kernel" /\ spot' = [spot EXCEPT ![r] = "charge"]
          /\ UNCHANGED <<consumed, executed, overlap, ledger, durable, lock, ref, published,
                         synced>>
      BY <1>23 DEF Moon!KernelReports, Moon!ledgerVars, Moon!diagnosticVars
    <3>4. QED
      BY <3>1, <3>2, <3>3
  <2>2. Placed'
    BY <2>1, <1>1, StaysPlaced DEF Unattempted, Attempted, Over
  <2>3. MoonTypes'
    BY <2>1, <1>1, <1>5, <1>6 DEF MoonTypes
  <2>4. FileTypes'
    BY <2>1, <1>1 DEF FileTypes
  <2>5. Moon!Dispatches' = Moon!Dispatches
    BY <2>1, SameDispatches
  <2>6. Positions'
    <3>1. ASSUME NEW d \in Diagnostics \ {r} PROVE Position(d)'
      BY <1>3, <1>5, <1>7, <1>8, <2>1 DEF Position, Moon!Holds, Moon!Ended, MoonTypes, Diagnostics
    <3>2. Position(r)'
      BY <1>1, <1>5, <1>6, <2>1
         DEF Position, MoonTypes, Moon!Holds, Moon!Ended, Unattempted, Attempted
    <3>3. QED
      BY <1>1, <3>1, <3>2 DEF Positions
  <2>7. Exclusive'
    BY <1>1, <1>3, <1>8, <2>1 DEF Exclusive, MoonTypes, Moon!Holds, Moon!Ended
  <2>8. Charged' /\ Counted'
    <3> HIDE DEF MoonInv
    <3> QED
      BY <1>1, <1>4, <2>1, LedgerKept
  <2>9. OfTheAttempt'
    <3>1. /\ "charge" \notin {"publish", "syncdir"} /\ spot[r] = "kernel"
          /\ "kernel" \in Attempted \cup Over => "charge" \in Attempted \cup Over
          /\ "kernel" \in {"publish", "syncdir"} \cup Over
               => "charge" \in {"publish", "syncdir"} \cup Over
      BY <2>1 DEF Attempted, Over
    <3> HIDE DEF MoonInv
    <3>2. QED
      BY <1>1, <1>4, <2>1, <3>1, AttemptKept
  <2>10. QED
    BY <1>2, <2>2, <2>3, <2>4, <2>5, <2>6, <2>7, <2>8, <2>9
<1>24. CASE Moon!StartPublishing(r)
  <2>1. /\ spot[r] = "charge" /\ spot' = [spot EXCEPT ![r] = "publish"]
        /\ item[r] > Snapshots
        /\ item' = [item EXCEPT ![r] = 1]
        /\ UNCHANGED <<consumed, records, executed, overlap, ledger, durable, lock, ref,
                       published, synced>>
    BY <1>24 DEF Moon!StartPublishing, Moon!ledgerVars, Moon!diagnosticVars, MoonTypes
  <2>2. Placed'
    BY <2>1, <1>1, StaysPlaced DEF Unattempted, Attempted, Over
  <2>3. MoonTypes'
    BY <2>1, <1>1, <1>5, <1>6 DEF MoonTypes
  <2>4. FileTypes'
    BY <2>1, <1>1 DEF FileTypes
  <2>5. Moon!Dispatches' = Moon!Dispatches
    BY <2>1, SameDispatches
  <2>6. Positions'
    <3>1. ASSUME NEW d \in Diagnostics \ {r} PROVE Position(d)'
      BY <1>3, <1>5, <1>7, <1>8, <2>1 DEF Position, Moon!Holds, Moon!Ended, MoonTypes, Diagnostics
    <3>2. Position(r)'
      BY <1>1, <1>5, <1>6, <2>1
         DEF Position, MoonTypes, Moon!Holds, Moon!Ended, Unattempted, Attempted
    <3>3. QED
      BY <1>1, <3>1, <3>2 DEF Positions
  <2>7. Exclusive'
    BY <1>1, <1>3, <1>8, <2>1 DEF Exclusive, MoonTypes, Moon!Holds, Moon!Ended
  <2>8. Charged' /\ Counted'
    <3> HIDE DEF MoonInv
    <3> QED
      BY <1>1, <1>4, <2>1, LedgerKept
  <2>9. OfTheAttempt'
    <3>1. \A d \in Diagnostics : Moon!ToPublish(d)' = Moon!ToPublish(d)
          /\ Moon!MeasuredRows(d)' = Moon!MeasuredRows(d)
      BY <2>1, RowsTell
    <3>2. Moon!Manifest' = Moon!Manifest /\ Moon!Outputs' = Moon!Outputs /\ Moon!Manifest \in Moon!Outputs
      BY <1>5 DEF Moon!Manifest, Moon!Outputs
    <3>3. DOMAIN spot = Sweepers /\ DOMAIN item = Sweepers /\ spot'[r] = "publish" /\ spot[r] = "charge"
      BY <2>1 DEF MoonTypes
    <3>4. ref = r /\ \A n \in Moon!Outputs : published[n] = None
      BY <1>5, <1>9, <3>3 DEF OfTheAttempt, Attempted, Over
    <3>5. Len(Moon!ToPublish(r)) \in Nat
      BY <1>6, PublicationOrder DEF Position
    <3>6. \A d \in Diagnostics : Progress(d)'
      BY <1>3, <2>1, <3>1, <3>3, <3>5 DEF OfTheAttempt, Progress
    <3>7. QED
      BY <1>1, <2>1, <3>2, <3>3, <3>4, <3>6 DEF OfTheAttempt, Attempted
  <2>10. QED
    BY <1>2, <2>2, <2>3, <2>4, <2>5, <2>6, <2>7, <2>8, <2>9
<1>25. CASE Moon!Link(r) /\ spot' = [spot EXCEPT ![r] = "syncdir"]
  <2>1. /\ spot[r] = "publish" /\ spot' = [spot EXCEPT ![r] = "syncdir"]
        /\ item[r] <= Len(Moon!ToPublish(r))
        /\ published' = [published EXCEPT ![Moon!ToPublish(r)[item[r]]] = r]
        /\ UNCHANGED <<consumed, item, records, executed, overlap, ledger, durable, lock, ref,
                       synced>>
    BY <1>25 DEF Moon!Link, Moon!ledgerVars, Moon!diagnosticVars, MoonTypes
  <2>2. Placed'
    BY <2>1, <1>1, StaysPlaced DEF Unattempted, Attempted, Over
  <2>3. MoonTypes'
    BY <2>1, <1>1, <1>5, <1>6 DEF MoonTypes
  <2>4. FileTypes'
    <3>1. published' \in [Moon!Outputs -> Sweepers \cup {None}]
      BY <2>1 DEF FileTypes
    <3>2. QED
      BY <1>1, <2>1, <3>1 DEF FileTypes
  <2>5. Moon!Dispatches' = Moon!Dispatches
    BY <2>1, SameDispatches
  <2>6. Positions'
    <3>1. ASSUME NEW d \in Diagnostics \ {r} PROVE Position(d)'
      BY <1>3, <1>5, <1>7, <1>8, <2>1 DEF Position, Moon!Holds, Moon!Ended, MoonTypes, Diagnostics
    <3>2. Position(r)'
      BY <1>1, <1>5, <1>6, <2>1
         DEF Position, MoonTypes, Moon!Holds, Moon!Ended, Unattempted, Attempted
    <3>3. QED
      BY <1>1, <3>1, <3>2 DEF Positions
  <2>7. Exclusive'
    BY <1>1, <1>3, <1>8, <2>1 DEF Exclusive, MoonTypes, Moon!Holds, Moon!Ended
  <2>8. Charged' /\ Counted'
    <3> HIDE DEF MoonInv
    <3> QED
      BY <1>1, <1>4, <2>1, LedgerKept
  <2>9. OfTheAttempt'
    <3>1. \A d \in Diagnostics : Moon!ToPublish(d)' = Moon!ToPublish(d)
          /\ Moon!MeasuredRows(d)' = Moon!MeasuredRows(d)
      BY <2>1, RowsTell
    <3>2. Moon!Manifest' = Moon!Manifest /\ Moon!Outputs' = Moon!Outputs /\ Moon!Manifest \in Moon!Outputs
      BY <1>5 DEF Moon!Manifest, Moon!Outputs
    <3>3. DOMAIN spot = Sweepers /\ DOMAIN item = Sweepers /\ spot'[r] = "syncdir" /\ spot[r] = "publish"
      BY <2>1 DEF MoonTypes
    <3>4. ref = r /\ Progress(r) /\ item[r] \in Nat \ {0}
      BY <1>1, <1>9, <3>3 DEF OfTheAttempt, Attempted, MoonTypes
    <3>5. /\ Len(Moon!ToPublish(r)) \in Nat
          /\ \A j \in 1..Len(Moon!ToPublish(r)) : Moon!ToPublish(r)[j] \in Moon!Outputs
          /\ \A j \in 1..Len(Moon!ToPublish(r)) : Moon!ToPublish(r)[j] = Moon!Manifest =>
               /\ Cardinality(Moon!MeasuredRows(r)) = Snapshots
               /\ j = Snapshots + 2
               /\ \A k \in 1..(j - 1) : Moon!ToPublish(r)[k] = k
      BY <1>6, PublicationOrder DEF Position
    <3>6. PICK n : n = Moon!ToPublish(r)[item[r]]
      OBVIOUS
    <3>7. item[r] \in 1..Len(Moon!ToPublish(r))
      BY <2>1, <3>4, <3>5
    <3>8. n \in Moon!Outputs /\ published' = [published EXCEPT ![n] = r]
      BY <2>1, <3>5, <3>6, <3>7, Zenon
    <3>9. /\ \A m \in Moon!Outputs : published'[m] = IF m = n THEN r ELSE published[m]
          /\ \A m \in synced : published'[m] # None
      BY <1>5, <3>8 DEF FileTypes, OfTheAttempt
    <3>10. Progress(r)'
      <4>1. \A j \in 1..(item[r] - 1) : /\ published'[Moon!ToPublish(r)[j]] = r
                                       /\ Moon!ToPublish(r)[j] \in synced
        BY <2>1, <3>3, <3>4, <3>5, <3>9 DEF Progress
      <4>2. published'[Moon!ToPublish(r)[item[r]]] = r
        BY <3>6, <3>9, <3>8
      <4>3. QED
        BY <1>1, <2>1, <3>1, <3>3, <3>4, <3>5, <4>1, <4>2 DEF Progress
    <3>11. ASSUME NEW d \in Diagnostics \ {r} PROVE Progress(d)'
      BY <1>3, <1>9, <3>3, <3>11 DEF Progress, Attempted
    <3>12. published'[Moon!Manifest] # None =>
             /\ Cardinality(Moon!MeasuredRows(r)) = Snapshots
             /\ \A m \in Moon!Outputs \ {Moon!Manifest} : published'[m] = r /\ m \in synced
      <4>1. CASE n = Moon!Manifest
        <5>1. /\ Cardinality(Moon!MeasuredRows(r)) = Snapshots /\ item[r] = Snapshots + 2
              /\ \A k \in 1..(item[r] - 1) : Moon!ToPublish(r)[k] = k
          BY <3>5, <3>6, <3>7, <4>1
        <5>2. \A k \in 1..(item[r] - 1) : /\ published[Moon!ToPublish(r)[k]] = r
                                         /\ Moon!ToPublish(r)[k] \in synced
          BY <3>3, <3>4 DEF Progress
        <5>3. \A k \in 1..(item[r] - 1) : published[k] = r /\ k \in synced
          BY <5>1, <5>2
        <5>4. Moon!Outputs \ {Moon!Manifest} \subseteq 1..(item[r] - 1)
          BY <1>5, <5>1 DEF Moon!Outputs, Moon!Manifest
        <5>5. QED
          BY <3>9, <4>1, <5>1, <5>3, <5>4
      <4>2. CASE n # Moon!Manifest
        BY <3>2, <3>4, <3>9, <4>2 DEF OfTheAttempt
      <4>3. QED
        BY <4>1, <4>2
    <3>13. ref' = r /\ spot'[r] = "syncdir" /\ synced' = synced
      BY <2>1, <3>3, <3>4
    <3>14. \A m \in Moon!Outputs : published'[m] # None => published'[m] = r
      BY <3>4, <3>9 DEF OfTheAttempt
    <3>15. QED
      BY <1>1, <3>1, <3>2, <3>9, <3>10, <3>11, <3>12, <3>13, <3>14 DEF OfTheAttempt, Attempted
  <2>10. QED
    BY <1>2, <2>2, <2>3, <2>4, <2>5, <2>6, <2>7, <2>8, <2>9
<1>26. CASE Moon!SyncDirectory(r) /\ spot' = [spot EXCEPT ![r] = "publish"]
  <2>1. /\ spot[r] = "syncdir" /\ spot' = [spot EXCEPT ![r] = "publish"]
        /\ synced' = {n \in Moon!Outputs : published[n] # None}
        /\ item' = [item EXCEPT ![r] = @ + 1]
        /\ UNCHANGED <<consumed, records, executed, overlap, ledger, durable, lock, ref,
                       published>>
    BY <1>26 DEF Moon!SyncDirectory, Moon!ledgerVars, Moon!diagnosticVars, MoonTypes
  <2>2. Placed'
    BY <2>1, <1>1, StaysPlaced DEF Unattempted, Attempted, Over
  <2>3. MoonTypes'
    BY <2>1, <1>1, <1>5, <1>6 DEF MoonTypes
  <2>4. FileTypes'
    BY <2>1, <1>1 DEF FileTypes
  <2>5. Moon!Dispatches' = Moon!Dispatches
    BY <2>1, SameDispatches
  <2>6. Positions'
    <3>1. ASSUME NEW d \in Diagnostics \ {r} PROVE Position(d)'
      BY <1>3, <1>5, <1>7, <1>8, <2>1 DEF Position, Moon!Holds, Moon!Ended, MoonTypes, Diagnostics
    <3>2. Position(r)'
      BY <1>1, <1>5, <1>6, <2>1
         DEF Position, MoonTypes, Moon!Holds, Moon!Ended, Unattempted, Attempted
    <3>3. QED
      BY <1>1, <3>1, <3>2 DEF Positions
  <2>7. Exclusive'
    BY <1>1, <1>3, <1>8, <2>1 DEF Exclusive, MoonTypes, Moon!Holds, Moon!Ended
  <2>8. Charged' /\ Counted'
    <3> HIDE DEF MoonInv
    <3> QED
      BY <1>1, <1>4, <2>1, LedgerKept
  <2>9. OfTheAttempt'
    <3>1. \A d \in Diagnostics : Moon!ToPublish(d)' = Moon!ToPublish(d)
          /\ Moon!MeasuredRows(d)' = Moon!MeasuredRows(d)
      BY <2>1, RowsTell
    <3>2. Moon!Manifest' = Moon!Manifest /\ Moon!Outputs' = Moon!Outputs /\ Moon!Manifest \in Moon!Outputs
      BY <1>5 DEF Moon!Manifest, Moon!Outputs
    <3>3. DOMAIN spot = Sweepers /\ DOMAIN item = Sweepers /\ spot'[r] = "publish" /\ spot[r] = "syncdir"
      BY <2>1 DEF MoonTypes
    <3>4. ref = r /\ Progress(r) /\ item[r] \in Nat \ {0}
      BY <1>1, <1>9, <3>3 DEF OfTheAttempt, Attempted, MoonTypes
    <3>5. /\ Len(Moon!ToPublish(r)) \in Nat
          /\ \A j \in 1..Len(Moon!ToPublish(r)) : Moon!ToPublish(r)[j] \in Moon!Outputs
          /\ \A j \in 1..Len(Moon!ToPublish(r)) : Moon!ToPublish(r)[j] = Moon!Manifest =>
               /\ Cardinality(Moon!MeasuredRows(r)) = Snapshots
               /\ j = Snapshots + 2
               /\ \A k \in 1..(j - 1) : Moon!ToPublish(r)[k] = k
      BY <1>6, PublicationOrder DEF Position
    <3>6. \A m \in Moon!Outputs : m \in synced' <=> published[m] # None
      BY <2>1
    <3>7. item'[r] = item[r] + 1
      BY <2>1, <3>3
    <3>8. Progress(r)'
      <4>1. \A j \in 1..item[r] : /\ published[Moon!ToPublish(r)[j]] = r
                                 /\ Moon!ToPublish(r)[j] \in Moon!Outputs
        BY <3>3, <3>4, <3>5 DEF Progress
      <4>2. \A j \in 1..item[r] : /\ published[Moon!ToPublish(r)[j]] = r
                                 /\ Moon!ToPublish(r)[j] \in synced'
        BY <1>5, <3>6, <4>1
      <4>3. item[r] <= Len(Moon!ToPublish(r))
        BY <3>3, <3>4 DEF Progress
      <4>4. Moon!ToPublish(r)' = Moon!ToPublish(r) /\ published' = published
        BY <1>1, <2>1, <3>1
      <4>5. QED
        BY <3>3, <3>4, <3>5, <3>7, <4>2, <4>3, <4>4 DEF Progress
    <3>9. ASSUME NEW d \in Diagnostics \ {r} PROVE Progress(d)'
      BY <1>3, <1>9, <3>3, <3>9 DEF Progress, Attempted
    <3>10. /\ ref' = r /\ spot'[r] = "publish" /\ published' = published
           /\ \A m \in synced' : m \in Moon!Outputs /\ published[m] # None
      BY <2>1, <3>3, <3>4
    <3>11. QED
      BY <1>1, <1>5, <3>1, <3>2, <3>4, <3>6, <3>8, <3>9, <3>10 DEF OfTheAttempt, Attempted
  <2>10. QED
    BY <1>2, <2>2, <2>3, <2>4, <2>5, <2>6, <2>7, <2>8, <2>9
<1>27. CASE Moon!Unlock(r)
  <2>1. /\ spot[r] = "unlock" /\ spot' = [spot EXCEPT ![r] = "ended"]
        /\ lock' = None
        /\ UNCHANGED <<consumed, item, records, executed, overlap, ledger, durable, ref,
                       published, synced>>
    BY <1>27 DEF Moon!Unlock, Moon!ledgerVars, Moon!diagnosticVars, MoonTypes
  <2>2. Placed'
    BY <2>1, <1>1, StaysPlaced DEF Unattempted, Attempted, Over
  <2>3. MoonTypes'
    BY <2>1, <1>1, <1>5, <1>6 DEF MoonTypes
  <2>4. FileTypes'
    BY <2>1, <1>1 DEF FileTypes
  <2>5. Moon!Dispatches' = Moon!Dispatches
    BY <2>1, SameDispatches
  <2>6. Positions'
    <3>1. ASSUME NEW d \in Diagnostics \ {r} PROVE Position(d)'
      BY <1>3, <1>5, <1>7, <1>8, <2>1 DEF Position, Moon!Holds, Moon!Ended, MoonTypes, Diagnostics
    <3>2. Position(r)'
      BY <1>1, <1>5, <1>6, <2>1
         DEF Position, MoonTypes, Moon!Holds, Moon!Ended, Unattempted, Attempted
    <3>3. QED
      BY <1>1, <3>1, <3>2 DEF Positions
  <2>7. Exclusive'
    BY <1>1, <1>3, <1>8, <2>1 DEF Exclusive, MoonTypes, Moon!Holds, Moon!Ended
  <2>8. Charged' /\ Counted'
    <3> HIDE DEF MoonInv
    <3> QED
      BY <1>1, <1>4, <2>1, LedgerKept
  <2>9. OfTheAttempt'
    <3>1. /\ "ended" \notin {"publish", "syncdir"} /\ records'[r] = records[r]
          /\ "unlock" \in Attempted \cup Over => "ended" \in Attempted \cup Over
          /\ "unlock" \in {"publish", "syncdir"} \cup Over
               => "ended" \in {"publish", "syncdir"} \cup Over
      BY <2>1 DEF Attempted, Over
    <3> HIDE DEF MoonInv
    <3>2. QED
      BY <1>1, <1>4, <2>1, <3>1, AttemptKept
  <2>10. QED
    BY <1>2, <2>2, <2>3, <2>4, <2>5, <2>6, <2>7, <2>8, <2>9
<1>28. QED
  <2> USE <1>11 DEF Leaves, Moon!Holds, Moon!Ended, Moon!ledgerVars, Moon!diagnosticVars
  <2>1. CASE Moon!BindingsRefuse(r)
    BY <2>1 DEF Moon!BindingsRefuse
  <2>2. CASE Moon!PrepareRoster(r)
    BY <2>2, <1>12 DEF Moon!PrepareRoster
  <2>3. CASE Moon!BudgetPathRefuses(r)
    BY <2>3 DEF Moon!BudgetPathRefuses
  <2>4. CASE Moon!CheckAttempt(r)
    BY <2>4, <1>13 DEF Moon!CheckAttempt
  <2>5. CASE Moon!TakeLock(r)
    BY <2>5, <1>14 DEF Moon!TakeLock
  <2>6. CASE Moon!CheckBudget(r)
    BY <2>6, <1>15 DEF Moon!CheckBudget
  <2>7. CASE Moon!MakeBuildRoot(r)
    BY <2>7, <1>16 DEF Moon!MakeBuildRoot
  <2>8. CASE Moon!Build(r)
    BY <2>8, <1>17 DEF Moon!Build
  <2>9. CASE Moon!CreateAttempt(r)
    BY <2>9, <1>18 DEF Moon!CreateAttempt
  <2>10. CASE Moon!ValidateSnapshots(r)
    BY <2>10, <1>19 DEF Moon!ValidateSnapshots
  <2>11. CASE Moon!HeldObjectDiffers(r)
    BY <2>11 DEF Moon!HeldObjectDiffers
  <2>12. CASE Moon!Charge(r)
    BY <2>12, <1>20 DEF Moon!Charge
  <2>13. CASE Moon!SyncCharge(r)
    BY <2>13, <1>21 DEF Moon!SyncCharge
  <2>14. CASE Moon!Dispatch(r)
    BY <2>14, <1>22 DEF Moon!Dispatch
  <2>15. CASE Moon!KernelReports(r)
    BY <2>15, <1>23 DEF Moon!KernelReports
  <2>16. CASE Moon!StartPublishing(r)
    BY <2>16, <1>24 DEF Moon!StartPublishing
  <2>17. CASE Moon!Link(r)
    BY <2>17, <1>25 DEF Moon!Link
  <2>18. CASE Moon!SyncDirectory(r)
    BY <2>18, <1>26 DEF Moon!SyncDirectory
  <2>19. CASE Moon!AllPublished(r)
    BY <2>19 DEF Moon!AllPublished
  <2>20. CASE Moon!Unlock(r)
    BY <2>20, <1>27 DEF Moon!Unlock
  <2>21. QED
    BY <2>1, <2>2, <2>3, <2>4, <2>5, <2>6, <2>7, <2>8, <2>9, <2>10, <2>11, <2>12, <2>13, <2>14,
       <2>15, <2>16, <2>17, <2>18, <2>19, <2>20 DEF Moon!DiagnosticStep


(* What is not a run's own step: an orphaned kernel ends, a run is killed, *)
(* the power is lost.                                                      *)
LEMMA OrphanKeepsMoonInv ==
  ASSUME MoonInv, Moon!OrphanEnds, Moon!Sweeping
  PROVE  MoonInv'
<1> USE MoonAssumption DEF MoonInv, Moon!Sweeping
<1>1. /\ UNCHANGED <<kind, spot, consumed, item, records, executed, overlap, ledger, durable,
                     outcome, lock, ref, buildRoot, published, synced, kills, losses, start>>
      /\ Diagnostics' = Diagnostics /\ Moon!Sweeps' = Moon!Sweeps
      /\ Moon!Dispatches' = Moon!Dispatches
  BY KindsKept, SameDispatches DEF Moon!OrphanEnds, Moon!runVars, Moon!ledgerVars,
     Moon!diagnosticVars
<1>2. PICK o \in orphans :
        /\ orphans' = orphans \ {o}
        /\ rss' = [rss EXCEPT ![o[2]] = [by |-> o[1], says |-> "over"]]
        /\ receipt' = [receipt EXCEPT ![o[2]] = o[1]]
  BY DEF Moon!OrphanEnds
<1>3. o[1] \in Sweepers /\ o[2] \in 1..Cells
  BY DEF FileTypes
<1>4. FileTypes'
  <2>1. rss' \in [1..Cells -> [by : Sweepers \cup {None}, says : {"clean", "over", "failed"}]]
    BY <1>2, <1>3 DEF FileTypes
  <2>2. receipt' \in [1..Cells -> Sweepers \cup {None}]
    BY <1>2, <1>3 DEF FileTypes
  <2>3. QED
    BY <1>1, <1>2, <2>1, <2>2 DEF FileTypes
<1>5. Honest'
  BY <1>1, <1>2, <1>3 DEF Honest, HonestOf, FileTypes
<1>6. Positions' /\ OfTheAttempt'
  BY <1>1, DiagnosticsKept
<1>7. MoonTypes' /\ Placed' /\ SweepsInBounds' /\ Exclusive'
  BY <1>1, KindsKept DEF MoonTypes, Placed, SweepsInBounds, Exclusive, Moon!Holds, Moon!Ended
<1>8. Charged'
  BY <1>1 DEF Charged, Kept, HasRead, Moon!Holds, Moon!Ended
<1>9. Counted'
  BY <1>1 DEF Counted, InLedger, InCount, Total, Moon!Count, Moon!Holds, Moon!Ended
<1>10. QED
  BY <1>1, <1>4, <1>5, <1>6, <1>7, <1>8, <1>9

LEMMA KillKeepsMoonInv ==
  ASSUME MoonInv, NEW r \in Sweepers, Moon!Kill(r)
  PROVE  MoonInv'
<1>1. /\ spot' = [spot EXCEPT ![r] = "killed"] /\ kills' = kills + 1
      /\ UNCHANGED <<kind, consumed, item, records, executed, overlap, ledger, durable,
                     rss, receipt, outcome, lock, ref, published, synced, losses, start>>
  BY DEF Moon!Kill, Moon!Goto, Moon!ledgerVars, Moon!diagnosticVars
<1>2. kills \in Nat /\ kills' > 0
  BY <1>1 DEF MoonInv, MoonTypes
<1>3. orphans' \subseteq Sweepers \X (1..Cells)
  <2>1. CASE spot[r] = "kernel" /\ kind[r] = "prescreen"
    <3>1. item[r] \in 1..Cells
      BY <2>1, MoonAssumption DEF MoonInv, MoonTypes, SweepsInBounds, Moon!IsSweep,
         Moon!RunsAssumption, Moon!SweepAssumption
    <3>2. QED
      BY <2>1, <3>1 DEF MoonInv, FileTypes, Moon!Kill
  <2>2. CASE ~(spot[r] = "kernel" /\ kind[r] = "prescreen")
    BY <2>2 DEF MoonInv, FileTypes, Moon!Kill
  <2>3. QED
    BY <2>1, <2>2
<1>4. QED
  BY <1>1, <1>2, <1>3, LeavingKeepsMoonInv

LEMMA LossKeepsMoonInv ==
  ASSUME MoonInv, Moon!PowerLoss
  PROVE  MoonInv'
<1> USE DEF MoonInv
<1>1. /\ losses' = losses + 1 /\ losses \in Nat /\ ledger' \in durable /\ durable' = {ledger'}
      /\ orphans' = {} /\ lock' \in {lock, None}
      /\ spot' = [r \in Sweepers |-> IF spot[r] = "idle" \/ Moon!Ended(r) THEN spot[r]
                                     ELSE "killed"]
      /\ UNCHANGED <<kind, consumed, item, records, executed, overlap, rss, receipt, outcome,
                     ref, kills, start>>
  BY DEF Moon!PowerLoss, MoonTypes
<1>2. /\ Diagnostics' = Diagnostics /\ Moon!Sweeps' = Moon!Sweeps
      /\ Moon!Dispatches' = Moon!Dispatches
      /\ \A r \in Diagnostics : r \in Sweepers
      /\ \A r \in Moon!Sweeps : r \in Sweepers
  BY <1>1, KindsKept, SameDispatches DEF Diagnostics, Moon!Sweeps
<1>3. \A r \in Sweepers : /\ spot'[r] \in {"idle", "ended", "killed"}
                          /\ ~Moon!Holds(r)'
                          /\ spot'[r] = "idle" => spot[r] = "idle"
  BY <1>1 DEF Moon!Holds, Moon!Ended
<1>4. MoonTypes'
  BY <1>1 DEF MoonTypes
<1>5. Placed'
  BY <1>1, <1>3, KindsKept DEF Placed, Unattempted, Over, SweepPlaces
<1>6. SweepsInBounds' /\ Exclusive' /\ Counted'
  BY <1>1, <1>3 DEF SweepsInBounds, Exclusive, Counted
<1>7. Honest'
  BY <1>1, <1>2, <1>3 DEF Honest, HonestOf
<1>8. Charged'
  BY <1>1, <1>2, <1>3 DEF Charged, Kept, HasRead
<1>9. Positions'
  <2> SUFFICES ASSUME NEW r \in Diagnostics PROVE Position(r)'
    BY <1>2 DEF Positions
  <2>1. Position(r) /\ r \in Sweepers
    BY <1>2 DEF Positions
  <2>2. spot'[r] \in {"idle", "ended", "killed"} /\ ~Moon!Holds(r)'
        /\ (spot'[r] = "idle" => spot[r] = "idle")
    BY <1>3, <2>1
  <2>3. QED
    BY <1>1, <2>1, <2>2 DEF Position, Unattempted, Attempted
<1>10. PICK kept \in SUBSET {n \in Moon!Outputs : published[n] # None /\ n \notin synced} :
         /\ published' = [n \in Moon!Outputs |-> IF n \in synced \cup kept THEN published[n] ELSE None]
         /\ synced' = synced \cup kept
  BY DEF Moon!PowerLoss
<1>11. \A n \in Moon!Outputs : /\ published'[n] \in {published[n], None}
                               /\ n \in synced => published'[n] = published[n]
  BY <1>10
<1>12. FileTypes'
  <2>1. published' \in [Moon!Outputs -> Sweepers \cup {None}] /\ synced' \subseteq Moon!Outputs
    BY <1>10 DEF FileTypes
  <2>2. QED
    BY <1>1, <2>1 DEF FileTypes
<1>13. OfTheAttempt'
  <2>1. ref # None => ref \in Diagnostics /\ spot'[ref] \in Attempted \cup Over
    BY <1>1, <1>2 DEF OfTheAttempt, Attempted, Over, Moon!Ended
  <2>2. ASSUME NEW n \in Moon!Outputs, published'[n] # None
        PROVE  published'[n] = ref /\ spot'[ref] \in {"publish", "syncdir"} \cup Over
    BY <1>1, <1>2, <1>11, <2>2 DEF OfTheAttempt, Over, Moon!Ended
  <2>3. \A n \in synced' : published'[n] # None
    BY <1>10 DEF OfTheAttempt, FileTypes
  <2>4. Moon!Manifest \in Moon!Outputs /\ Moon!Manifest' = Moon!Manifest /\ Moon!Outputs' = Moon!Outputs
    BY MoonAssumption
       DEF Moon!Manifest, Moon!Outputs, Moon!RunsAssumption, Moon!DiagnosticAssumption
  <2>5. published'[Moon!Manifest] # None =>
          /\ Cardinality(Moon!MeasuredRows(ref)) = Snapshots
          /\ \A n \in Moon!Outputs \ {Moon!Manifest} : published'[n] = ref /\ n \in synced'
    BY <1>10, <1>11, <2>4 DEF OfTheAttempt
  <2>6. Moon!MeasuredRows(ref)' = Moon!MeasuredRows(ref)
    BY <1>1, RowsTell
  <2>7. \A r \in Diagnostics : Progress(r)'
    BY <1>2, <1>3 DEF Progress
  <2>8. QED
    BY <1>1, <1>2, <2>1, <2>2, <2>3, <2>4, <2>5, <2>6, <2>7 DEF OfTheAttempt
<1>14. QED
  BY <1>1, <1>2, <1>4, <1>5, <1>6, <1>7, <1>8, <1>9, <1>12, <1>13

(* Every step of the runs together.                                        *)
LEMMA NextMoonInv ==
  ASSUME MoonInv, Moon!Next \/ UNCHANGED moonVars
  PROVE  MoonInv'
<1>1. ASSUME NEW r \in Sweepers, Moon!SweepStep(r), Moon!Sweeping PROVE MoonInv'
  BY <1>1, SweepKeepsMoonInv
<1>2. ASSUME NEW r \in Sweepers, Moon!DiagnosticStep(r), Moon!Diagnosing PROVE MoonInv'
  BY <1>2, DiagnosticKeepsMoonInv
<1>3. ASSUME NEW r \in Sweepers, Moon!Kill(r) PROVE MoonInv'
  BY <1>3, KillKeepsMoonInv
<1>4. CASE UNCHANGED moonVars
  <2> USE <1>4 DEF MoonInv, moonVars
  <2>1. Moon!Dispatches' = Moon!Dispatches /\ Diagnostics' = Diagnostics
        /\ Moon!Sweeps' = Moon!Sweeps
    BY SameDispatches, KindsKept
  <2>2. Positions' /\ OfTheAttempt'
    BY DiagnosticsKept
  <2>3. SweepsInBounds' /\ Honest'
    BY SweepsKept
  <2>4. MoonTypes' /\ Placed' /\ FileTypes' /\ Exclusive'
    BY KindsKept DEF MoonTypes, Placed, FileTypes, Exclusive, Moon!Holds, Moon!Ended
  <2>5. Charged'
    BY <2>1 DEF Charged, Kept, HasRead, Moon!Holds, Moon!Ended
  <2>6. Counted'
    BY <2>1 DEF Counted, InLedger, InCount, Total, Moon!Count, Moon!Holds, Moon!Ended
  <2>7. QED
    BY <2>1, <2>2, <2>3, <2>4, <2>5, <2>6
<1>5. QED
  BY <1>1, <1>2, <1>3, <1>4, OrphanKeepsMoonInv, LossKeepsMoonInv DEF Moon!Next

(* Every reachable state of the moon scripts is one of MoonInv.            *)
THEOREM MoonInvariant == EitherSpec => [](which = "sweeps" => MoonInv)
<1> DEFINE I == which = "sweeps" => MoonInv
<1>1. EitherInit => I
  BY InitMoonInv DEF EitherInit
<1>2. I /\ [EitherNext]_<<which, vars, moonVars>> => I'
  <2> SUFFICES ASSUME I, [EitherNext]_<<which, vars, moonVars>>, which' = "sweeps" PROVE MoonInv'
    OBVIOUS
  <2>1. which = "sweeps" /\ (Moon!Next \/ UNCHANGED moonVars)
    BY DEF EitherNext
  <2>2. QED
    BY <2>1, NextMoonInv
<1>3. QED
  BY <1>1, <1>2, PTL DEF EitherSpec

(* What a diagnostic dispatched stays charged, whatever is killed and      *)
(* whenever the power is lost.                                             *)
THEOREM ChargesLast == EitherSpec => []DispatchedStaysCharged
<1>1. (which = "sweeps" => MoonInv) => DispatchedStaysCharged
  <2> SUFFICES ASSUME MoonInv, ~overlap, NEW r \in Moon!Dispatched,
                      NEW c \in Moon!Counts(durable \cup {ledger})
               PROVE  c >= Before + executed[r]
    BY DEF DispatchedStaysCharged, Moon!DispatchedStaysCharged
  <2>1. r \in Diagnostics /\ executed[r] > 0 /\ c \in durable /\ c # Moon!Torn
    BY DEF Moon!Dispatched, Moon!Counts, Diagnostics, MoonInv, MoonTypes
  <2>2. QED
    BY <2>1 DEF MoonInv, Charged, Kept
<1>2. QED
  BY <1>1, MoonInvariant, PTL

(* There is one attempt, and a manifest vouches for all of it.             *)
THEOREM OneAttemptIsWhole == EitherSpec => []OneWholeAttempt
<1>1. (which = "sweeps" => MoonInv) => OneWholeAttempt
  <2> SUFFICES ASSUME MoonInv PROVE Moon!OneAttempt /\ Moon!ManifestIsWhole
    BY DEF OneWholeAttempt
  <2>1. Moon!OneAttempt
    BY DEF Moon!OneAttempt, Moon!Dispatched, Diagnostics, MoonInv, Positions, Position
  <2>2. Moon!ManifestIsWhole
    <3> SUFFICES ASSUME published[Moon!Manifest] # None PROVE Moon!ManifestIsWhole
      BY DEF Moon!ManifestIsWhole
    <3>1. Moon!Manifest \in Moon!Outputs
      BY MoonAssumption DEF Moon!Manifest, Moon!Outputs, Moon!RunsAssumption,
         Moon!DiagnosticAssumption
    <3>2. /\ published[Moon!Manifest] = ref
          /\ \A n \in Moon!Outputs \ {Moon!Manifest} : published[n] = ref /\ n \in synced
          /\ Cardinality(Moon!MeasuredRows(ref)) = Snapshots
      BY <3>1 DEF MoonInv, OfTheAttempt
    <3>3. QED
      BY <3>1, <3>2, SameCardinality DEF Moon!ManifestIsWhole
  <2>3. QED
    BY <2>1, <2>2
<1>2. QED
  BY <1>1, MoonInvariant, PTL

(* The sweeps count every kernel and never run one above the cap; what     *)
(* they call measured ran within its limits.                               *)
THEOREM SweepsAccountFor == EitherSpec => []SweepsAccount
<1>1. (which = "sweeps" => MoonInv) => SweepsAccount
  <2> SUFFICES ASSUME MoonInv PROVE Moon!LedgerCounts /\ Moon!MeasuredMeansRan
    BY DEF SweepsAccount
  <2> USE MoonAssumption DEF MoonInv, Moon!RunsAssumption, Moon!LedgerAssumption
  <2>1. ASSUME kills = 0, losses = 0, ~overlap
        PROVE  /\ Total <= Cap
               /\ (\A r \in Sweepers : ~Moon!Holds(r)) => ledger = Moon!Absent \/ ledger >= Total
    <3>1. Total \in Nat
      BY FS_CardinalityType DEF Total, MoonTypes
    <3>2. InLedger /\ \A r \in Moon!Sweeps : InCount(r)
      BY <2>1 DEF Counted
    <3>3. ASSUME NEW r \in Moon!Sweeps, Moon!Holds(r) PROVE Total <= Cap
      <4>1. r \in Sweepers /\ Moon!IsSweep(r) /\ consumed[r] \in 0..Cap
            /\ spot[r] \in {"cell", "kernel", "record", "truncate", "write"}
        BY <3>3 DEF Moon!Sweeps, Moon!IsSweep, Moon!IsC1, Moon!Holds, Moon!Ended, MoonTypes,
           Placed, SweepPlaces
      <4>2. QED
        BY <3>1, <3>2, <4>1 DEF InCount, SweepsInBounds
    <3>4. ASSUME \A r \in Moon!Sweeps : ~Moon!Holds(r)
          PROVE  Total <= Cap /\ (ledger = Moon!Absent \/ ledger >= Total)
      BY <3>1, <3>2, <3>4 DEF InLedger, Moon!Count, Moon!Absent, Moon!Torn, MoonTypes
    <3>5. QED
      BY <3>3, <3>4 DEF Moon!Sweeps
  <2>2. Moon!LedgerCounts
    BY <2>1, SameCardinality DEF Moon!LedgerCounts, Total
  <2>3. Moon!MeasuredMeansRan
    BY DEF Moon!MeasuredMeansRan, Moon!Quiet, Honest, HonestOf
  <2>4. QED
    BY <2>2, <2>3
<1>2. QED
  BY <1>1, MoonInvariant, PTL
=============================================================================
