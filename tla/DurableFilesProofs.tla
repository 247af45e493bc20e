-------------------------- MODULE DurableFilesProofs --------------------------
(***************************************************************************)
(* Proofs about the files that others read: what FileWriters publishes,    *)
(* what ManifestRun records and what CorpusStore keeps, for all values of  *)
(* their constants.                                                        *)
(***************************************************************************)
EXTENDS MCDurableFiles, FiniteSetTheorems, TLAPS

--------------------------------------------------------------------------------
(* FileWriters: every finite set of calls and every bound on deletions and *)
(* failing unlinks.                                                        *)

(* The calls that have published and were not asked to overwrite. *)
Winners == {w \in published : ~overwrite[w]}

(* What is known of one call w, beyond its types: its file is complete     *)
(* when it is about to be published and stays so unless power is lost; a   *)
(* call publishes once; and which calls can still fail after publication.  *)
CallInv(w) ==
  /\ pc[w] = "publish" =>
       w \notin published /\ content[w] = "complete"
         /\ (proto[w] = "api" => synced[w])
  /\ pc[w] = "sync" => content[w] = "complete"
  /\ pc[w] \in {"check", "create", "stat", "write", "sync"} => w \notin published
  /\ w \in published =>
       /\ content[w] = "complete" \/ (content[w] = "lost" /\ powerLost)
       /\ content[w] = "lost" => proto[w] # "api"
       /\ proto[w] = "api" => synced[w]
  /\ pc[w] = "unlink" => ~overwrite[w]
  /\ pc[w] = "report" => StatsAfterwards(w)
  /\ pc[w] = "cleanup" /\ w \in published => ~overwrite[w]
  /\ pc[w] = "error" /\ w \in published => ~overwrite[w] \/ StatsAfterwards(w)
  /\ powerLost => pc[w] \in Terminal

(* The inductive invariant. *)
IInv ==
  /\ TypeOK
  /\ dest \in Writers => dest \in published
  /\ \A w \in Writers : CallInv(w)

(* Whoever is published beyond one winner per deletion would have needed a *)
(* second free name.                                                       *)
WinnersInv == Cardinality(Winners) <= removals + (IF dest = None THEN 0 ELSE 1)
------------------------------------------------------------------------------
LEMMA InitIInv == Init => IInv
<1> SUFFICES ASSUME Init PROVE IInv
  OBVIOUS
<1>1. pc \in [Writers -> {"check", "create"}]
  BY DEF Init
<1>2. TypeOK
  BY <1>1 DEF Init, TypeOK, Protocols, Phases, Terminal, Contents
<1>3. dest \notin Writers
  BY FileWritersAssumption DEF Init
<1>4. ASSUME NEW w \in Writers PROVE CallInv(w)
  BY <1>1 DEF Init, CallInv, Terminal
<1>5. QED
  BY <1>2, <1>3, <1>4 DEF IInv

(* One call's step keeps the invariant; the step is the call's own, so the *)
(* other calls' parts only have to survive a change of dest and published. *)
LEMMA StepIInv ==
  ASSUME IInv, NEW w \in Writers, Step(w)
  PROVE  IInv'
  <1> USE FileWritersAssumption
      DEF IInv, TypeOK, CallInv, Goto, args, files, name, world, Phases,
          Terminal, Contents, StatsAfterwards
  <1>1. CASE CheckDestination(w)  BY <1>1 DEF CheckDestination
  <1>2. CASE CreateTemp(w)        BY <1>2 DEF CreateTemp
  <1>3. CASE CreateFails(w)       BY <1>3 DEF CreateFails
  <1>4. CASE StatSource(w)        BY <1>4 DEF StatSource
  <1>5. CASE StatSourceFails(w)   BY <1>5 DEF StatSourceFails
  <1>6. CASE WriteSome(w)         BY <1>6 DEF WriteSome
  <1>7. CASE WriteRest(w)         BY <1>7 DEF WriteRest
  <1>8. CASE WriteFails(w)        BY <1>8 DEF WriteFails
  <1>9. CASE Sync(w)
    <2>1. TypeOK'
      BY <1>9 DEF Sync
    <2>2. CallInv(w)'
      BY <1>9 DEF Sync
    <2>3. ASSUME NEW v \in Writers, v # w PROVE CallInv(v)'
      BY <1>9, <2>3 DEF Sync
    <2>4. QED
      BY <1>9, <2>1, <2>2, <2>3 DEF Sync
  <1>10. CASE Replace(w)
    <2>1. pc' \in [Writers -> Phases]
      BY <1>10 DEF Replace, AfterPublication
    <2>2. TypeOK'
      BY <1>10, <2>1 DEF Replace
    <2>3. CallInv(w)'
      BY <1>10 DEF Replace, AfterPublication
    <2>4. ASSUME NEW v \in Writers, v # w PROVE CallInv(v)'
      BY <1>10, <2>4 DEF Replace
    <2>5. QED
      BY <1>10, <2>2, <2>3, <2>4 DEF Replace
  <1>11. CASE ReplaceFails(w)     BY <1>11 DEF ReplaceFails
  <1>12. CASE Link(w)
    <2>1. TypeOK'
      BY <1>12 DEF Link
    <2>2. CallInv(w)'
      BY <1>12 DEF Link
    <2>3. ASSUME NEW v \in Writers, v # w PROVE CallInv(v)'
      BY <1>12, <2>3 DEF Link
    <2>4. QED
      BY <1>12, <2>1, <2>2, <2>3 DEF Link
  <1>13. CASE LinkFails(w)        BY <1>13 DEF LinkFails
  <1>14. CASE UnlinkTemp(w)       BY <1>14 DEF UnlinkTemp, AfterPublication
  <1>15. CASE UnlinkTempFails(w)  BY <1>15 DEF UnlinkTempFails
  <1>16. CASE Report(w)           BY <1>16 DEF Report
  <1>17. CASE ReportFails(w)      BY <1>17 DEF ReportFails
  <1>18. CASE Cleanup(w)          BY <1>18 DEF Cleanup
  <1>19. CASE CleanupFails(w)     BY <1>19 DEF CleanupFails
  <1>20. CASE Kill(w)             BY <1>20 DEF Kill
  <1>21. QED
    BY <1>1, <1>2, <1>3, <1>4, <1>5, <1>6, <1>7, <1>8, <1>9, <1>10, <1>11,
       <1>12, <1>13, <1>14, <1>15, <1>16, <1>17, <1>18, <1>19, <1>20 DEF Step

LEMMA NextIInv ==
  ASSUME IInv, [Next]_vars
  PROVE  IInv'
<1>1. CASE UNCHANGED vars
  BY <1>1 DEF vars, IInv, TypeOK, CallInv, StatsAfterwards
<1>2. CASE RemoveDestination
  BY <1>2, FileWritersAssumption
     DEF RemoveDestination, args, files, IInv, TypeOK, CallInv, StatsAfterwards
<1>3. CASE PowerLoss
  <2> USE <1>3 DEF PowerLoss, args, name
  <2>1. PICK gone \in SUBSET {w \in Writers : ~synced[w]} :
          content' = [w \in Writers |->
                        IF w \in gone /\ content[w] # "absent"
                        THEN "lost" ELSE content[w]]
    OBVIOUS
  <2>2. TypeOK'
    BY <2>1 DEF IInv, TypeOK, Phases, Terminal, Contents
  <2>3. ASSUME NEW w \in Writers PROVE CallInv(w)'
    <3>1. pc'[w] \in Terminal
      BY DEF IInv, TypeOK, Terminal
    <3>2. w \in published' =>
            /\ content'[w] = "complete" \/ (content'[w] = "lost" /\ powerLost')
            /\ content'[w] = "lost" => proto'[w] # "api"
            /\ proto'[w] = "api" => synced'[w]
      BY <2>1 DEF IInv, TypeOK, CallInv
    <3>3. pc'[w] = "error" => pc[w] = "error"
      BY DEF IInv, TypeOK, Terminal
    <3>4. QED
      BY <3>1, <3>2, <3>3 DEF IInv, TypeOK, CallInv, Terminal, StatsAfterwards
  <2>4. QED
    BY <2>2, <2>3 DEF IInv
<1>4. CASE \E w \in Writers : Step(w)
  BY <1>4, StepIInv
<1>5. QED
  BY <1>1, <1>2, <1>3, <1>4 DEF Next

(* Type correctness and the facts about each call, in every state. *)
THEOREM Invariance == Spec => []IInv
<1>1. IInv /\ [Next]_vars => IInv'
  BY NextIInv
<1>2. QED
  BY InitIInv, <1>1, PTL DEF Spec

(* The types of the variables. *)
THEOREM TypeCorrect == Spec => []TypeOK
<1>1. IInv => TypeOK
  BY DEF IInv
<1>2. QED
  BY Invariance, <1>1, PTL

(* No reader of the destination ever sees part of an output, and a file    *)
(* that _atomic_write published survives a power loss.                     *)
THEOREM DestinationSafe == Spec => []DestinationComplete
<1>1. IInv => DestinationComplete
  BY DEF IInv, CallInv, DestinationComplete
<1>2. QED
  BY Invariance, <1>1, PTL

(* A call that replaces and ends with an exception has changed nothing.    *)
THEOREM FailuresAreClean == Spec => []FailureIsClean
<1>1. IInv => FailureIsClean
  BY DEF IInv, CallInv, FailureIsClean
<1>2. QED
  BY Invariance, <1>1, PTL
------------------------------------------------------------------------------
(* What a step of the detailed specification does to the destination name. *)
LEMMA NameStep ==
  ASSUME IInv, Next
  PROVE  \/ UNCHANGED <<dest, published, overwrite>>
         \/ Abstract!Remove /\ removals' = removals + 1
         \/ \E w \in Writers : Abstract!Publish(w) /\ removals' = removals
<1> USE DEF args, files, name, world
<1>1. CASE RemoveDestination
  BY <1>1 DEF RemoveDestination, Abstract!Remove
<1>2. CASE PowerLoss
  BY <1>2 DEF PowerLoss
<1>3. ASSUME NEW w \in Writers, Replace(w)
      PROVE  Abstract!Publish(w) /\ removals' = removals
  BY <1>3 DEF Replace, Abstract!Publish, IInv, CallInv
<1>4. ASSUME NEW w \in Writers, Link(w)
      PROVE  Abstract!Publish(w) /\ removals' = removals
  BY <1>4 DEF Link, Abstract!Publish, IInv, CallInv
<1>5. ASSUME NEW w \in Writers, Step(w), ~Replace(w), ~Link(w)
      PROVE  UNCHANGED <<dest, published, overwrite>>
  BY <1>5 DEF Step, CheckDestination, CreateTemp, CreateFails, StatSource,
       StatSourceFails, WriteSome, WriteRest, WriteFails, Sync, ReplaceFails,
       LinkFails, UnlinkTemp, UnlinkTempFails, Report, ReportFails, Cleanup,
       CleanupFails, Kill
<1>6. QED
  BY <1>1, <1>2, <1>3, <1>4, <1>5 DEF Next

(* Every behaviour of the five protocols is a behaviour of PublishOnce. *)
THEOREM Refinement == Spec => ImplementsPublishOnce
<1>1. Init => Abstract!AbsInit
  BY DEF Init, Abstract!AbsInit
<1>2. IInv /\ [Next]_vars => [Abstract!AbsNext]_(Abstract!absVars)
  BY NameStep DEF vars, Abstract!AbsNext, Abstract!absVars
<1>3. QED
  BY Invariance, <1>1, <1>2, PTL DEF Spec, ImplementsPublishOnce, Abstract!AbsSpec

(* A call without overwrite never takes the name from another file. *)
THEOREM NeverClobbers == Spec => NoClobber
<1>1. IInv /\ [Next]_vars =>
        [dest' # dest /\ dest # None /\ dest' # None => overwrite[dest']]_vars
  BY NameStep DEF vars, Abstract!Publish, Abstract!Remove
<1>2. QED
  BY Invariance, <1>1, PTL DEF Spec, NoClobber
------------------------------------------------------------------------------
(* Beyond the call that holds the name, each winner was deleted once. *)
LEMMA WinnersStep ==
  ASSUME IInv, WinnersInv, IsFiniteSet(Winners), [Next]_vars
  PROVE  WinnersInv' /\ IsFiniteSet(Winners)'
<1> USE DEF WinnersInv
<1>1. removals \in Nat /\ Cardinality(Winners) \in Nat
  BY FS_CardinalityType DEF IInv, TypeOK
<1>2. CASE UNCHANGED <<dest, published, overwrite, removals>>
  BY <1>2 DEF Winners
<1>3. CASE Abstract!Remove /\ removals' = removals + 1
  BY <1>1, <1>3 DEF Abstract!Remove, Winners
<1>4. ASSUME NEW w \in Writers, Abstract!Publish(w), removals' = removals
      PROVE  WinnersInv' /\ IsFiniteSet(Winners)'
  <2> USE <1>4 DEF Abstract!Publish
  <2>1. w # None /\ dest' = w
    BY FileWritersAssumption
  <2>2. CASE overwrite[w]
    <3>1. Winners' = Winners
      BY <2>2 DEF Winners
    <3>2. QED
      BY <1>1, <2>1, <3>1
  <2>3. CASE ~overwrite[w]
    <3>1. Winners' = Winners \cup {w} /\ w \notin Winners
      BY <2>3 DEF Winners
    <3>2. IsFiniteSet(Winners') /\ Cardinality(Winners') = Cardinality(Winners) + 1
      BY <3>1, FS_AddElement
    <3>3. dest = None
      BY <2>3
    <3>4. QED
      BY <1>1, <2>1, <3>2, <3>3
  <2>4. QED
    BY <2>2, <2>3
<1>5. UNCHANGED <<dest, published, overwrite>> /\ Next => UNCHANGED removals
  BY FileWritersAssumption
     DEF Next, RemoveDestination, PowerLoss, Step, CheckDestination, CreateTemp,
       CreateFails, StatSource, StatSourceFails, WriteSome, WriteRest,
       WriteFails, Sync, Replace, ReplaceFails, Link, LinkFails, UnlinkTemp,
       UnlinkTempFails, Report, ReportFails, Cleanup, CleanupFails, Kill, world
<1>6. QED
  BY <1>2, <1>3, <1>4, <1>5, NameStep DEF vars

(* At most one call without overwrite wins each time the name is free. *)
THEOREM OneWinnerHolds == Spec => []OneWinner
<1> DEFINE WInv == WinnersInv /\ IsFiniteSet(Winners)
<1>1. Init => WInv
  <2> SUFFICES ASSUME Init PROVE WInv
    OBVIOUS
  <2>1. Winners = {}
    BY DEF Init, Winners
  <2>2. QED
    BY <2>1, FS_EmptySet DEF Init, WinnersInv
<1>2. IInv /\ WInv /\ [Next]_vars => WInv'
  BY WinnersStep
<1>3. IInv /\ WInv => OneWinner
  BY FS_CardinalityType DEF IInv, TypeOK, WinnersInv, Winners, OneWinner
<1>4. QED
  BY Invariance, <1>1, <1>2, <1>3, PTL DEF Spec
------------------------------------------------------------------------------
(* Where a call has no temporary file yet, or none any more.               *)
TempInv(w) ==
  /\ pc[w] \in {"check", "create", "report", "ok"} => ~temp[w]
  /\ pc[w] = "stat" => proto[w] = "jls2d" /\ content[w] = "empty"

(* The temporary files that NoResidue counts. *)
Residue == {w \in Writers : /\ pc[w] \in {"ok", "error"} /\ temp[w]
                            /\ ~(proto[w] = "jls2d" /\ content[w] \in {"empty", "lost"})}

(* A call's step leaves the other calls' temporary files alone, and leaves *)
(* one of its own only by a failing unlink.                                *)
LEMMA ResidueStep ==
  ASSUME TypeOK, NEW w \in Writers, TempInv(w), Step(w)
  PROVE  /\ TempInv(w)'
         /\ \A v \in Writers \ {w} :
              UNCHANGED <<proto[v], pc[v], temp[v], content[v]>>
         /\ \/ w \notin Residue' /\ faults' \in {faults, faults + 1}
            \/ w \in Residue' /\ faults' = faults + 1
  <1> USE DEF TypeOK, TempInv, Residue, Goto, args, files, name, world, Phases,
              Terminal
  <1>1. CASE CheckDestination(w)  BY <1>1 DEF CheckDestination
  <1>2. CASE CreateTemp(w)        BY <1>2 DEF CreateTemp
  <1>3. CASE CreateFails(w)       BY <1>3 DEF CreateFails
  <1>4. CASE StatSource(w)        BY <1>4 DEF StatSource
  <1>5. CASE StatSourceFails(w)   BY <1>5 DEF StatSourceFails
  <1>6. CASE WriteSome(w)         BY <1>6 DEF WriteSome
  <1>7. CASE WriteRest(w)         BY <1>7 DEF WriteRest
  <1>8. CASE WriteFails(w)        BY <1>8 DEF WriteFails
  <1>9. CASE Sync(w)              BY <1>9 DEF Sync
  <1>10. CASE Replace(w)          BY <1>10 DEF Replace, AfterPublication
  <1>11. CASE ReplaceFails(w)     BY <1>11 DEF ReplaceFails
  <1>12. CASE Link(w)             BY <1>12 DEF Link
  <1>13. CASE LinkFails(w)        BY <1>13 DEF LinkFails
  <1>14. CASE UnlinkTemp(w)       BY <1>14 DEF UnlinkTemp, AfterPublication
  <1>15. CASE UnlinkTempFails(w)  BY <1>15 DEF UnlinkTempFails
  <1>16. CASE Report(w)           BY <1>16 DEF Report
  <1>17. CASE ReportFails(w)      BY <1>17 DEF ReportFails
  <1>18. CASE Cleanup(w)          BY <1>18 DEF Cleanup
  <1>19. CASE CleanupFails(w)     BY <1>19 DEF CleanupFails
  <1>20. CASE Kill(w)             BY <1>20 DEF Kill
  <1>21. QED
    BY <1>1, <1>2, <1>3, <1>4, <1>5, <1>6, <1>7, <1>8, <1>9, <1>10, <1>11,
       <1>12, <1>13, <1>14, <1>15, <1>16, <1>17, <1>18, <1>19, <1>20 DEF Step

ResidueInv ==
  /\ \A w \in Writers : TempInv(w)
  /\ Cardinality(Residue) <= faults

(* A finite set grows by at most one when an element is added. *)
LEMMA AddOne ==
  ASSUME NEW S, IsFiniteSet(S), NEW x
  PROVE  /\ IsFiniteSet(S \cup {x})
         /\ Cardinality(S \cup {x}) \in Nat
         /\ Cardinality(S \cup {x}) <= Cardinality(S) + 1
<1>1. Cardinality(S) \in Nat
  BY FS_CardinalityType
<1>2. CASE x \in S
  BY <1>1, <1>2, FS_AddElement
<1>3. CASE x \notin S
  BY <1>1, <1>3, FS_AddElement
<1>4. QED
  BY <1>2, <1>3

LEMMA ResidueNext ==
  ASSUME TypeOK, TypeOK', ResidueInv, [Next]_vars
  PROVE  ResidueInv'
<1> USE DEF ResidueInv
<1>1. IsFiniteSet(Residue) /\ IsFiniteSet(Residue')
  BY FS_Subset, FileWritersAssumption DEF Residue
<1>2. /\ Cardinality(Residue) \in Nat /\ Cardinality(Residue') \in Nat
      /\ faults \in Nat /\ faults' \in Nat
  BY <1>1, FS_CardinalityType DEF TypeOK
<1>3. CASE UNCHANGED vars \/ RemoveDestination
  <2>1. UNCHANGED <<proto, pc, temp, content, faults>>
    BY <1>3 DEF vars, RemoveDestination, args, files
  <2>2. QED
    BY <2>1 DEF TempInv, Residue
<1>4. CASE PowerLoss
  <2> USE <1>4 DEF PowerLoss, args, name
  <2>1. \A w \in Writers : content'[w] \in {content[w], "lost"}
    OBVIOUS
  <2>2. \A w \in Writers :
          /\ pc'[w] \in {"ok", "error"} => pc[w] = pc'[w]
          /\ pc'[w] \in Terminal
    BY DEF TypeOK, Terminal
  <2>3. Residue' \subseteq Residue
    BY <2>1, <2>2 DEF Residue
  <2>4. Cardinality(Residue') <= Cardinality(Residue)
    BY <2>3, <1>1, FS_Subset
  <2>5. \A w \in Writers : TempInv(w)'
    BY <2>2 DEF TempInv, Terminal
  <2>6. QED
    BY <2>4, <2>5, <1>2
<1>5. ASSUME NEW w \in Writers, Step(w)
      PROVE  ResidueInv'
  <2> USE ResidueStep, <1>5
  <2>1. \A v \in Writers : TempInv(v)'
    BY DEF TempInv
  <2>2. Residue' \subseteq Residue \cup {w}
    BY DEF Residue
  <2>3. CASE w \notin Residue' /\ faults' \in {faults, faults + 1}
    <3>1. Residue' \subseteq Residue
      BY <2>2, <2>3
    <3>2. Cardinality(Residue') <= Cardinality(Residue)
      BY <3>1, <1>1, FS_Subset
    <3>3. QED
      BY <2>1, <2>3, <3>2, <1>2
  <2>4. CASE faults' = faults + 1
    <3>1. /\ IsFiniteSet(Residue \cup {w})
          /\ Cardinality(Residue \cup {w}) \in Nat
          /\ Cardinality(Residue \cup {w}) <= Cardinality(Residue) + 1
      BY <1>1, AddOne
    <3>2. Cardinality(Residue') <= Cardinality(Residue \cup {w})
      BY <2>2, <3>1, FS_Subset
    <3>3. QED
      BY <2>1, <2>4, <3>1, <3>2, <1>2
  <2>5. QED
    BY <2>3, <2>4
<1>6. QED
  BY <1>3, <1>4, <1>5 DEF Next

(* Only a failing unlink leaves a temporary file behind, for any number of *)
(* calls: decompress_file's early stat of its source is the one exception. *)
THEOREM NoResidueHolds == Spec => []NoResidue
<1>1. Init => ResidueInv
  <2> SUFFICES ASSUME Init PROVE ResidueInv
    OBVIOUS
  <2>1. Residue = {}
    BY DEF Init, Residue
  <2>2. \A w \in Writers : TempInv(w)
    BY DEF Init, TempInv
  <2>3. QED
    BY <2>1, <2>2, FS_EmptySet DEF Init, ResidueInv
<1>2. TypeOK /\ TypeOK' /\ ResidueInv /\ [Next]_vars => ResidueInv'
  BY ResidueNext
<1>3. ResidueInv => NoResidue
  <2>1. Residue = {w \in Writers : pc[w] \in {"ok", "error"} /\ temp[w]}
                  \ {w \in {v \in Writers : pc[v] \in {"ok", "error"} /\ temp[v]} :
                       proto[w] = "jls2d" /\ content[w] \in {"empty", "lost"}}
    BY DEF Residue
  <2>2. QED
    BY <2>1 DEF ResidueInv, NoResidue
<1>4. QED
  BY TypeCorrect, <1>1, <1>2, <1>3, PTL DEF Spec

--------------------------------------------------------------------------------
(* ManifestRun: every set of manifests, files and edits.                   *)

(* Where the run is with respect to the manifest it hashed. *)
Hashed == {"load", "stage", "recheck", "load staged", "trials", "ids",
           "manifest", "write", "ok"}
Loaded == Hashed \ {"load"}
Staged == Loaded \ {"stage"}
Bound == Staged \ {"recheck"}
InTrials == Bound \ {"load staged"}

(* What was loaded and staged is what the hashed manifest lists: as long   *)
(* as that is in place until the check after staging, and ever after the   *)
(* check, unless it was put back meanwhile.                                *)
Reading == {"load", "stage", "recheck"}
ListingIsHashed ==
  putBack \cap Reading = {} =>
    /\ step \in {"stage", "recheck"} /\ manifest = sha => expected = Listing[sha]
    /\ step = "recheck" /\ manifest = sha => staged = Listing[sha]
    /\ step \in Bound => expected = Listing[sha] /\ staged = Listing[sha]
    /\ results # NoResults => corpus = Listing[sha]

(* A manifest that is the hashed one before the last check has not been    *)
(* edited since it was hashed, unless it was put back.                     *)
StoodStill ==
  /\ step = "hash" => edited \subseteq {"hash"} /\ putBack = {}
  /\ putBack \subseteq Unbound =>
       /\ step \in Hashed \ {"write", "ok"} /\ manifest = sha => edited \subseteq {"hash"}
       /\ step \in {"write", "ok"} => edited \subseteq Unbound

(* The corpus is one version's listing, and rows are of its items. *)
CorpusIsListed ==
  /\ step \in Staged => staged \in {Listing[v] : v \in Versions}
  /\ step \in InTrials => corpus = staged
  /\ left \subseteq DOMAIN corpus
  /\ step \notin InTrials \cup {"error"} => left = {} /\ rows = {}
  /\ step \in {"manifest", "write", "ok"} => DOMAIN corpus = DOMAIN expected

RowsMeasureTheCorpus ==
  \A row \in rows : row.roundtrip_ok => row.read = corpus[row.item]

(* Results hold the corpus and rows of this run, and are bound only at its *)
(* end.                                                                    *)
ResultsAreOfRun ==
  \/ results = NoResults
  \/ /\ step \in {"ids", "manifest", "write", "error"}
     /\ results = [schema |-> 4, corpus |-> corpus, trials |-> rows]
  \/ /\ step = "ok"
     /\ results = [schema |-> 5, corpus |-> corpus, trials |-> rows,
                   sha |-> sha, ids |-> DOMAIN expected]

RunIInv ==
  /\ manifest \in Versions /\ file \in [Items -> Digests]
  /\ sha \in Versions /\ ListingIsHashed /\ StoodStill /\ CorpusIsListed
  /\ RowsMeasureTheCorpus /\ ResultsAreOfRun
------------------------------------------------------------------------------
LEMMA InitRunIInv == RunInit => RunIInv
  BY DEF RunInit, RunIInv, ListingIsHashed, StoodStill, CorpusIsListed,
         RowsMeasureTheCorpus, ResultsAreOfRun, Hashed, Loaded, Staged, Bound,
         InTrials

(* The steps before the trials. *)
LEMMA PrepareKeeps ==
  ASSUME RunIInv, HashManifest \/ LoadExpected \/ Stage \/ Recheck \/ LoadStaged
  PROVE  RunIInv'
<1> USE DEF RunIInv, ListingIsHashed, StoodStill, CorpusIsListed, ResultsAreOfRun,
            Reading, Unbound, manifestHistory, RowsMeasureTheCorpus,
            Hashed, Loaded, Staged, Bound, InTrials,
            corpusFiles, runVars
<1>1. CASE HashManifest
  BY <1>1 DEF HashManifest
<1>2. CASE LoadExpected
  BY <1>2 DEF LoadExpected
<1>3. CASE Stage
  BY <1>3 DEF Stage
<1>4. CASE Recheck
  BY <1>4 DEF Recheck
<1>5. CASE LoadStaged
  BY <1>5 DEF LoadStaged
<1>6. QED
  BY <1>1, <1>2, <1>3, <1>4, <1>5

(* A row is exact only if the codec read what the corpus names: what it    *)
(* restores is what it read, or no digest at all.                          *)
LEMMA TrialKeeps ==
  ASSUME RunAssumption, RunIInv, Trial
  PROVE  RunIInv'
<1> DEFINE row(i, restored) ==
      [item |-> i, repetition |-> repetition,
       read |-> file[i], roundtrip_ok |-> restored = corpus[i]]
<1>a. PICK i \in left : \E restored \in {file[i], Garbage} :
      /\ step = "trials"
      /\ left' = left \ {i}
      /\ rows' = IF repetition = 0 THEN rows ELSE rows \cup {row(i, restored)}
      /\ UNCHANGED <<corpusFiles, step, sha, expected, staged, corpus, repetition, results>>
  BY DEF Trial
<1>b. PICK restored \in {file[i], Garbage} :
      /\ step = "trials"
      /\ left' = left \ {i}
      /\ rows' = IF repetition = 0 THEN rows ELSE rows \cup {row(i, restored)}
      /\ UNCHANGED <<corpusFiles, step, sha, expected, staged, corpus, repetition, results>>
  BY <1>a
<1>1. corpus \in {Listing[v] : v \in Versions} /\ i \in DOMAIN corpus
  BY <1>b DEF RunIInv, CorpusIsListed, InTrials, Bound, Staged, Loaded, Hashed
<1>2. corpus[i] \in Digests /\ Garbage \notin Digests
  BY <1>1 DEF RunAssumption
<1>3. restored = corpus[i] => file[i] = corpus[i]
  BY <1>2
<1>4. ASSUME NEW r \in rows', r.roundtrip_ok PROVE r.read = corpus'[r.item]
  <2>1. corpus' = corpus
    BY <1>b
  <2>2. CASE r \in rows
    BY <1>4, <2>1, <2>2 DEF RunIInv, RowsMeasureTheCorpus
  <2>3. CASE r = row(i, restored)
    <3>1. r.item = i /\ r.read = file[i] /\ r.roundtrip_ok = (restored = corpus[i])
      BY <2>3
    <3>2. restored = corpus[i]
      BY <3>1, <1>4
    <3>3. QED
      BY <3>1, <3>2, <1>3, <2>1
  <2>4. r \in rows \/ r = row(i, restored)
    BY <1>b, <1>4
  <2>5. QED
    BY <2>2, <2>3, <2>4
<1>5. QED
  BY <1>4, <1>b DEF RunIInv, ListingIsHashed, StoodStill, CorpusIsListed, ResultsAreOfRun,
              Reading, Unbound, manifestHistory,
              RowsMeasureTheCorpus, Hashed, Loaded, Staged, Bound, InTrials, corpusFiles

(* The other steps of the run. *)
LEMMA FinishKeeps ==
  ASSUME RunIInv,
         NextRepetition \/ TrialsFail \/ WriteLegacy \/ CheckIds
           \/ CheckManifest \/ WriteBound
  PROVE  RunIInv'
<1> USE DEF RunIInv, ListingIsHashed, StoodStill, CorpusIsListed, ResultsAreOfRun,
            Reading, Unbound, manifestHistory, RowsMeasureTheCorpus,
            Hashed, Loaded, Staged, Bound, InTrials,
            corpusFiles, runVars
<1>1. CASE NextRepetition
  BY <1>1 DEF NextRepetition
<1>2. CASE TrialsFail
  BY <1>2 DEF TrialsFail
<1>3. CASE WriteLegacy
  BY <1>3 DEF WriteLegacy
<1>4. CASE CheckIds
  BY <1>4 DEF CheckIds
<1>5. CASE CheckManifest
  BY <1>5 DEF CheckManifest
<1>6. CASE WriteBound
  BY <1>6 DEF WriteBound
<1>7. QED
  BY <1>1, <1>2, <1>3, <1>4, <1>5, <1>6

(* Whoever else edits the manifest or a file of the corpus. *)
LEMMA EditKeeps ==
  ASSUME RunIInv, EditManifest \/ EditFile
  PROVE  RunIInv'
<1> USE DEF RunIInv, ListingIsHashed, StoodStill, CorpusIsListed, ResultsAreOfRun,
            Reading, Unbound, manifestHistory, RowsMeasureTheCorpus,
            Hashed, Loaded, Staged, Bound, InTrials, runVars
<1>1. CASE EditManifest
  BY <1>1 DEF EditManifest
<1>2. CASE EditFile
  BY <1>2 DEF EditFile
<1>3. QED
  BY <1>1, <1>2

LEMMA NextRunIInv == RunAssumption /\ RunIInv /\ [RunNext]_manifestVars => RunIInv'
<1> SUFFICES ASSUME RunAssumption, RunIInv, [RunNext]_manifestVars PROVE RunIInv'
  OBVIOUS
<1>1. CASE Run
  BY <1>1, PrepareKeeps, TrialKeeps, FinishKeeps DEF Run
<1>2. CASE EditManifest \/ EditFile
  BY <1>2, EditKeeps
<1>3. CASE UNCHANGED manifestVars
  BY <1>3 DEF manifestVars, manifestHistory, corpusFiles, runVars, RunIInv, ListingIsHashed,
              StoodStill, CorpusIsListed, ResultsAreOfRun, RowsMeasureTheCorpus,
              Hashed, Loaded, Staged, Bound, InTrials
<1>4. QED
  BY <1>1, <1>2, <1>3 DEF RunNext, Ended

LEMMA RunInvariant == ASSUME RunAssumption PROVE RunSpec => []RunIInv
  BY InitRunIInv, NextRunIInv, PTL DEF RunSpec
------------------------------------------------------------------------------
(* Results score the items and digests of the manifest that was hashed,    *)
(* and version-5 results say that it stood still from the hash to the last *)
(* check, unless it was changed and changed back between the reads: for    *)
(* every manifest and every order of edits, steps and failing trials.      *)
THEOREM ScoreIsBound ==
  ASSUME RunAssumption PROVE RunSpec => []ScoreIsOfRecordedManifest
<1>1. RunIInv => ScoreIsOfRecordedManifest
  <2> SUFFICES ASSUME RunIInv PROVE ScoreIsOfRecordedManifest
    OBVIOUS
  <2>1. results.schema # 0 => results # NoResults /\ results.corpus = corpus
    BY DEF RunIInv, ResultsAreOfRun, NoResults
  <2>2. results.schema = 5 =>
          step = "ok" /\ results.sha = sha /\ results.ids = DOMAIN expected
    BY DEF RunIInv, ResultsAreOfRun, NoResults
  <2>3. putBack \cap Reading = {} /\ results.schema # 0 => results.corpus = Listing[sha]
    BY <2>1 DEF RunIInv, ListingIsHashed
  <2>4. putBack \cap Reading = {} /\ results.schema = 5 => results.ids = DOMAIN Listing[sha]
    BY <2>2 DEF RunIInv, ListingIsHashed, Bound, Staged, Loaded, Hashed
  <2>5. results.schema = 5 => results.ids = DOMAIN results.corpus
    BY <2>1, <2>2 DEF RunIInv, CorpusIsListed
  <2>6. results.schema = 5 /\ putBack \subseteq Unbound => edited \subseteq Unbound
    BY <2>2 DEF RunIInv, StoodStill
  <2>7. QED
    BY <2>2, <2>3, <2>4, <2>5, <2>6 DEF ScoreIsOfRecordedManifest, Reading
<1>2. QED
  BY <1>1, RunInvariant, PTL

(* A valid row was measured on the bytes its corpus entry names, although  *)
(* files are verified once, at the start, and may be edited at any time.   *)
THEOREM ValidRows ==
  ASSUME RunAssumption PROVE RunSpec => []ValidRowsMeasureTheCorpus
<1>1. RunIInv => ValidRowsMeasureTheCorpus
  BY DEF RunIInv, RowsMeasureTheCorpus, ResultsAreOfRun, NoResults,
         ValidRowsMeasureTheCorpus
<1>2. QED
  BY <1>1, RunInvariant, PTL

--------------------------------------------------------------------------------
(* CorpusStore: every set of importers, requests, files and contents, any  *)
(* number of imports, crashes, edits and reads.                            *)

ImporterType ==
  {Store!Idle}
    \cup [pc : {"next", "write"}, request : Requests, todo : SUBSET Relatives,
          items : SUBSET Store!ItemType]
    \cup [pc : {"copy"}, request : Requests, todo : SUBSET Relatives,
          items : SUBSET Store!ItemType, file : Relatives, digest : StoreDigests]

HistoryType ==
  [overlapped : BOOLEAN, edited : BOOLEAN, crossed : BOOLEAN,
   interrupted : SUBSET Requests, imported : SUBSET Store!ItemType]

StoreTypes ==
  /\ source \in [Relatives -> StoreDigests]
  /\ document \in {Absent, Torn} \cup [items : SUBSET Store!ItemType]
  /\ stored \in [Store!Paths -> StoreDigests \cup {Absent, Torn}]
  /\ importer \in [Importers -> ImporterType]
  /\ history \in HistoryType

(* What importers have in hand or the manifest names. *)
Known ==
  (IF Store!IsWhole(document) THEN document.items ELSE {})
    \cup UNION {importer[p].items : p \in Store!Active}

Ids(items) == {i.id : i \in items}

(* Imports that do not overlap take over what earlier ones have imported.  *)
Alone ==
  ~history.overlapped =>
    /\ \A p, q \in Store!Active : p = q
    /\ document = Absent => history.imported = {}
    /\ Store!IsWhole(document) => history.imported \subseteq document.items
    /\ \A p \in Store!Active :
         /\ history.imported \subseteq importer[p].items
         /\ Store!IsWhole(document) => document.items \subseteq importer[p].items

(* The behaviours that RepairedByRepeating is about. *)
Sound == ~history.edited /\ ~history.overlapped /\ ~history.crossed

(* An import has looked at its files in their order, and those behind it   *)
(* have their ids among its items.                                         *)
InOrderOfRank(p) ==
  /\ importer[p].todo \subseteq importer[p].request.files
  /\ importer[p].pc = "write" => importer[p].todo = {}
  /\ \A g \in importer[p].request.files \ importer[p].todo :
       \/ importer[p].pc = "copy" /\ g = importer[p].file
       \/ Store!Id(g, source[g]) \in Ids(importer[p].items)
  /\ importer[p].pc = "copy" =>
       /\ importer[p].file \in importer[p].request.files \ importer[p].todo
       /\ importer[p].digest = source[importer[p].file]
       /\ Store!Id(importer[p].file, importer[p].digest) \notin Ids(importer[p].items)
       /\ \A g \in importer[p].todo : Rank[importer[p].file] < Rank[g]

(* The stored file of i is being copied right now. *)
BeingCopied(i) ==
  \E p \in Store!Active :
    /\ importer[p].pc = "copy"
    /\ i.path = Store!StoredPath(importer[p].request.split, importer[p].file,
                                 importer[p].digest)

(* An interrupted import, once repeated, comes to copy it: to the file f   *)
(* of r, which nobody has an item of.                                      *)
Owes(r, f, i) ==
  /\ f \in r.files
  /\ i.path = Store!StoredPath(r.split, f, source[f])
  /\ Store!Id(f, source[f]) \notin Ids(Known)
  /\ \A g \in r.files :
       Rank[g] < Rank[f] => Store!Id(g, source[g]) # Store!Id(f, source[f])
  /\ \A p \in Store!Active : importer[p].request = r => f \in importer[p].todo

Owed(i) == \E r \in history.interrupted : \E f \in Relatives : Owes(r, f, i)

Described(i) == i.path[3] = i.digest /\ i.size = Size[i.digest]

Repairable ==
  Sound =>
    /\ \A p \in Store!Active :
         /\ InOrderOfRank(p)
         /\ \A r \in history.interrupted : ~Store!Crosses(r, importer[p].request)
    /\ \A i \in Known : Described(i) /\ (Store!Loads(i) \/ BeingCopied(i) \/ Owed(i))

(* What verify_holdout found to be frozen when it began is in what it      *)
(* reads, and then in what it compares.                                    *)
HoldoutOf(items) == Store!Commitment({i \in items : i.split = "holdout"})

Sealed ==
  /\ reader.pc = "read" =>
       \/ reader = [pc |-> "read", task |-> "freeze"]
       \/ /\ reader = [pc |-> "read", task |-> "verify", expected |-> reader.expected,
                       due |-> reader.due]
          /\ ~history.overlapped => reader.due \subseteq HoldoutOf(history.imported)
  /\ reader.pc = "check" =>
       /\ {"pc", "task", "items", "left"} \subseteq DOMAIN reader
       /\ reader.task = "verify" =>
            /\ {"expected", "due"} \subseteq DOMAIN reader
            /\ ~history.overlapped => reader.due \subseteq Store!Commitment(reader.items)
  /\ reader.pc = "verified" /\ reader.verdict /\ ~history.overlapped =>
       reader.due \subseteq reader.expected

StoreInv == StoreTypes /\ Alone /\ Repairable /\ Sealed

(* What an importer's locals are at each place. *)
LEMMA ImporterShape ==
  ASSUME StoreTypes, NEW p \in Importers
  PROVE  /\ importer[p].pc \in {"idle", "next", "write", "copy"}
         /\ importer[p].pc = "idle" => importer[p] = [pc |-> "idle"]
         /\ importer[p].pc \in {"next", "write"} =>
              importer[p] = [pc |-> importer[p].pc, request |-> importer[p].request,
                             todo |-> importer[p].todo, items |-> importer[p].items]
         /\ importer[p].pc = "copy" =>
              /\ importer[p] = [pc |-> "copy", request |-> importer[p].request,
                                todo |-> importer[p].todo, items |-> importer[p].items,
                                file |-> importer[p].file, digest |-> importer[p].digest]
              /\ importer[p].file \in Relatives /\ importer[p].digest \in StoreDigests
         /\ importer[p].pc # "idle" =>
              /\ importer[p].request \in Requests /\ importer[p].todo \subseteq Relatives
              /\ importer[p].items \subseteq Store!ItemType
<1>1. importer[p] \in ImporterType
  BY DEF StoreTypes
<1>2. CASE importer[p] = Store!Idle
  BY <1>2 DEF Store!Idle
<1>3. CASE importer[p] \in [pc : {"next", "write"}, request : Requests,
                            todo : SUBSET Relatives, items : SUBSET Store!ItemType]
  BY <1>3
<1>4. CASE importer[p] \in [pc : {"copy"}, request : Requests, todo : SUBSET Relatives,
                            items : SUBSET Store!ItemType, file : Relatives,
                            digest : StoreDigests]
  BY <1>4
<1>5. QED
  BY <1>1, <1>2, <1>3, <1>4 DEF ImporterType

LEMMA KnownMember ==
  \A i : i \in Known <=>
    \/ Store!IsWhole(document) /\ i \in document.items
    \/ \E p \in Importers : importer[p].pc # "idle" /\ i \in importer[p].items
  BY DEF Known, Store!Active

LEMMA KnownMemberNext ==
  \A i : (i \in Known)' <=>
    \/ Store!IsWhole(document)' /\ i \in document'.items
    \/ \E p \in Importers : importer'[p].pc # "idle" /\ i \in importer'[p].items
  BY DEF Known, Store!Active

LEMMA ActiveMember ==
  /\ \A p : p \in Store!Active <=> p \in Importers /\ importer[p].pc # "idle"
  /\ \A p : (p \in Store!Active)' <=> p \in Importers /\ importer'[p].pc # "idle"
  BY DEF Store!Active

LEMMA InitStoreInv == Store!Init => StoreInv
<1> SUFFICES ASSUME Store!Init PROVE StoreInv
  OBVIOUS
<1>1. /\ source \in StoreContents /\ document = Absent /\ lock = Absent
      /\ stored = [path \in Store!Paths |-> Absent]
      /\ importer = [p \in Importers |-> Store!Idle] /\ reader = Store!Idle
      /\ history = [overlapped |-> FALSE, edited |-> FALSE,
                    crossed |-> FALSE, interrupted |-> {}, imported |-> {}]
  BY DEF Store!Init
<1>2. StoreTypes
  <2>1. source \in [Relatives -> StoreDigests]
    BY <1>1, MCStoreAssumption DEF Store!StoreAssumption
  <2>2. importer \in [Importers -> ImporterType]
    BY <1>1 DEF ImporterType
  <2>3. history \in HistoryType
    BY <1>1 DEF HistoryType
  <2>4. QED
    BY <1>1, <2>1, <2>2, <2>3 DEF StoreTypes
<1>3. Store!Active = {} /\ ~Store!IsWhole(document)
  BY <1>1 DEF Store!Active, Store!Idle, Store!IsWhole
<1>4. Known = {}
  BY <1>3 DEF Known
<1>5. Alone
  BY <1>1, <1>3 DEF Alone
<1>6. Repairable
  BY <1>3, <1>4 DEF Repairable
<1>7. Sealed
  BY <1>1 DEF Sealed, Store!Idle
<1>8. QED
  BY <1>2, <1>5, <1>6, <1>7 DEF StoreInv

LEMMA HistoryShape ==
  ASSUME StoreTypes
  PROVE  /\ history = [overlapped |-> history.overlapped, edited |-> history.edited,
                       crossed |-> history.crossed, interrupted |-> history.interrupted,
                       imported |-> history.imported]
         /\ history.overlapped \in BOOLEAN /\ history.edited \in BOOLEAN
         /\ history.crossed \in BOOLEAN /\ history.interrupted \subseteq Requests
         /\ history.imported \subseteq Store!ItemType
  BY DEF StoreTypes, HistoryType

LEMMA DocumentShape ==
  ASSUME StoreTypes
  PROVE  /\ document = Absent \/ document = Torn \/ Store!IsWhole(document)
         /\ Store!IsWhole(document) => document.items \subseteq Store!ItemType
  BY DEF StoreTypes, Store!IsWhole

LEMMA RequestFiles == \A r \in Requests : r.files \subseteq Relatives /\ r.split \in Store!Splits
  BY MCStoreAssumption DEF Store!StoreAssumption, Store!Splits

(* An import begins with what the manifest says. *)
LEMMA StartKeeps ==
  ASSUME StoreInv, NEW p \in Importers, Store!Start(p)
  PROVE  StoreTypes' /\ Alone' /\ Repairable'
<1> DEFINE taken == IF document = Absent THEN {} ELSE document.items
<1>1. PICK r \in Requests :
        /\ importer[p].pc = "idle" /\ document # Torn
        /\ importer' = [importer EXCEPT ![p] =
             [pc |-> "next", request |-> r, todo |-> r.files, items |-> taken]]
        /\ history' = [history EXCEPT
             !.overlapped = @ \/ Store!Active # {},
             !.crossed = @ \/ \E i \in history.interrupted : Store!Crosses(i, r)]
        /\ UNCHANGED <<source, document, stored>>
  BY DEF Store!Start
<1>2. StoreTypes /\ Alone /\ Repairable
  BY DEF StoreInv
<1>3. taken \subseteq Store!ItemType /\ r.files \subseteq Relatives
  BY <1>1, <1>2, DocumentShape, RequestFiles DEF Store!IsWhole
<1>4. taken = IF Store!IsWhole(document) THEN document.items ELSE {}
  BY <1>1, <1>2, DocumentShape DEF Store!IsWhole
<1> HIDE DEF taken
<1>5. /\ importer'[p] = [pc |-> "next", request |-> r, todo |-> r.files, items |-> taken]
      /\ \A q \in Importers : q # p => importer'[q] = importer[q]
  BY <1>1, <1>2 DEF StoreTypes
<1>6. /\ history'.overlapped = (history.overlapped \/ Store!Active # {})
      /\ history'.crossed = (history.crossed \/ \E i \in history.interrupted : Store!Crosses(i, r))
      /\ history'.edited = history.edited /\ history'.interrupted = history.interrupted
      /\ history'.imported = history.imported /\ history' \in HistoryType
  BY <1>1, <1>2, HistoryShape, Zenon DEF StoreTypes, HistoryType
<1>7. StoreTypes'
  <2>1. importer'[p] \in ImporterType
    BY <1>3, <1>5 DEF ImporterType
  <2>2. importer' \in [Importers -> ImporterType]
    BY <1>1, <1>2, <1>5, <2>1 DEF StoreTypes
  <2>3. QED
    BY <1>1, <1>2, <1>6, <2>2 DEF StoreTypes
<1>8. ASSUME ~history'.overlapped
      PROVE  ~history.overlapped /\ \A q \in Importers : q # p => importer'[q].pc = "idle"
  BY <1>5, <1>6, <1>8, ActiveMember
<1>9. Alone'
  <2> SUFFICES ASSUME ~history'.overlapped
               PROVE  /\ \A q \in Importers, s \in Importers :
                           importer'[q].pc # "idle" /\ importer'[s].pc # "idle" => q = s
                      /\ document' = Absent => history'.imported = {}
                      /\ Store!IsWhole(document)' => history'.imported \subseteq document'.items
                      /\ \A q \in Importers : importer'[q].pc # "idle" =>
                           /\ history'.imported \subseteq importer'[q].items
                           /\ Store!IsWhole(document)' => document'.items \subseteq importer'[q].items
    BY ActiveMember DEF Alone
  <2>1. \A q \in Importers : importer'[q].pc # "idle" => q = p
    BY <1>8
  <2>2. document' = document /\ importer'[p].items = taken /\ history'.imported = history.imported
        /\ (Store!IsWhole(document)' <=> Store!IsWhole(document))
    BY <1>1, <1>5, <1>6 DEF Store!IsWhole
  <2>3. /\ document = Absent => history.imported = {}
        /\ Store!IsWhole(document) => history.imported \subseteq document.items
    BY <1>2, <1>8 DEF Alone
  <2>4. document = Absent \/ Store!IsWhole(document)
    BY <1>1, <1>2, DocumentShape
  <2>5. history.imported \subseteq taken
    BY <1>4, <2>3, <2>4
  <2>6. QED
    BY <1>4, <2>1, <2>2, <2>3, <2>5
<1>10. Repairable'
  <2> SUFFICES ASSUME Sound' PROVE Repairable'
    BY DEF Repairable
  <2>1. /\ Sound /\ ~history'.overlapped /\ ~history.overlapped
        /\ \A i \in history.interrupted : ~Store!Crosses(i, r)
    BY <1>6 DEF Sound
  <2>2. \A i : (i \in Known)' <=> i \in Known
    BY <1>1, <1>4, <1>5, <1>8, <2>1, KnownMember, KnownMemberNext DEF Store!IsWhole
  <2>3. Known' = Known
    BY <2>2
  <2>4. \A q : (q \in Store!Active)' <=> q = p
    BY <1>5, <1>8, <2>1, ActiveMember
  <2>5. InOrderOfRank(p)'
    BY <1>5 DEF InOrderOfRank
  <2>6. \A i \in history'.interrupted : ~Store!Crosses(i, importer'[p].request)
    BY <1>5, <1>6, <2>1
  <2>7. Store!Active = {}
    BY <1>6, <2>1
  <2>8. ASSUME NEW i \in Known
        PROVE  Described(i)' /\ (Store!Loads(i)' \/ Owed(i)')
    <3>1. Described(i) /\ (Store!Loads(i) \/ Owed(i))
      BY <1>2, <2>1, <2>7 DEF Repairable, BeingCopied
    <3>2. Store!Loads(i) => Store!Loads(i)'
      BY <1>1 DEF Store!Loads
    <3>3. ASSUME NEW o \in history.interrupted, NEW f \in Relatives, Owes(o, f, i)
          PROVE  Owes(o, f, i)'
      <4>1. \A q \in Store!Active' : importer'[q].request = o => f \in importer'[q].todo
        BY <1>5, <2>4, <3>3 DEF Owes
      <4>2. QED
        BY <1>1, <2>3, <3>3, <4>1 DEF Owes, Store!StoredPath, Store!Id, Ids
    <3>4. Described(i)'
      BY <3>1 DEF Described
    <3>5. QED
      BY <1>6, <3>1, <3>2, <3>3, <3>4 DEF Owed
  <2>9. QED
    BY <2>3, <2>4, <2>5, <2>6, <2>8 DEF Repairable
<1>11. QED
  BY <1>7, <1>9, <1>10

(* A debt stays when the sources do, nobody gets an item of that id and    *)
(* whoever repeats the import still has the file before it.                *)
LEMMA OwesKept ==
  ASSUME NEW o, NEW f, NEW i, Owes(o, f, i), source' = source,
         Store!Id(f, source[f]) \notin Ids(Known)',
         \A q \in Importers :
           importer'[q].pc # "idle" /\ importer'[q].request = o => f \in importer'[q].todo
  PROVE  Owes(o, f, i)'
  BY ActiveMember DEF Owes, Store!StoredPath, Store!Id

(* A file whose id is among the items is passed over. *)
LEMMA SkipKeeps ==
  ASSUME StoreInv, NEW p \in Importers, Store!Skip(p)
  PROVE  StoreTypes' /\ Alone' /\ Repairable'
<1>1. PICK f \in Store!NextFile(p) :
        /\ Store!Id(f, source[f]) \in Ids(importer[p].items)
        /\ importer' = [importer EXCEPT ![p].todo = @ \ {f}]
        /\ UNCHANGED <<source, document, stored, history>>
  BY DEF Store!Skip, Store!ExistingIds, Ids
<1>2. StoreTypes /\ Alone /\ Repairable
  BY DEF StoreInv
<1>3. importer[p].pc = "next" /\ f \in importer[p].todo
  BY <1>1 DEF Store!NextFile
<1>4. PICK r \in Requests, t \in SUBSET Relatives, s \in SUBSET Store!ItemType :
        /\ importer[p] = [pc |-> "next", request |-> r, todo |-> t, items |-> s]
        /\ importer[p].request = r /\ importer[p].todo = t /\ importer[p].items = s
  BY <1>2, <1>3, ImporterShape
<1>5. /\ importer'[p] = [pc |-> "next", request |-> r, todo |-> t \ {f}, items |-> s]
      /\ \A q \in Importers : q # p => importer'[q] = importer[q]
  BY <1>1, <1>2, <1>4 DEF StoreTypes
<1>6. \A q \in Importers : /\ importer'[q].pc = importer[q].pc
                           /\ importer'[q].request = importer[q].request
                           /\ importer'[q].items = importer[q].items
  BY <1>4, <1>5
<1>7. StoreTypes'
  <2>1. importer'[p] \in ImporterType
    BY <1>5 DEF ImporterType
  <2>2. importer' \in [Importers -> ImporterType]
    BY <1>1, <1>2, <1>5, <2>1 DEF StoreTypes
  <2>3. QED
    BY <1>1, <1>2, <2>2 DEF StoreTypes
<1>8. /\ \A i : (i \in Known)' <=> i \in Known
      /\ Store!Active' = Store!Active /\ (Store!IsWhole(document)' <=> Store!IsWhole(document))
  <2>1. Store!IsWhole(document)' <=> Store!IsWhole(document)
    BY <1>1 DEF Store!IsWhole
  <2>2. \A q : (q \in Store!Active)' <=> q \in Store!Active
    BY <1>6, ActiveMember
  <2>3. \A i : (i \in Known)' <=> i \in Known
    BY <1>1, <1>6, <2>1, KnownMember, KnownMemberNext
  <2>4. QED
    BY <2>1, <2>2, <2>3
<1>9. Known' = Known
  BY <1>8
<1>10. Alone'
  BY <1>1, <1>2, <1>6, <1>8, ActiveMember DEF Alone
<1>11. Repairable'
  <2> SUFFICES ASSUME Sound' PROVE Repairable'
    BY DEF Repairable
  <2>1. Sound
    BY <1>1 DEF Sound
  <2>2. \A q \in Store!Active, o \in history.interrupted : ~Store!Crosses(o, importer'[q].request)
    BY <1>2, <1>6, <2>1, ActiveMember DEF Repairable
  <2>3. ASSUME NEW q \in Store!Active PROVE InOrderOfRank(q)'
    <3>1. InOrderOfRank(q) /\ q \in Importers
      BY <1>2, <2>1, ActiveMember DEF Repairable
    <3>2. CASE q # p
      BY <1>1, <1>5, <3>1, <3>2 DEF InOrderOfRank, Store!Id
    <3>3. CASE q = p
      <4>1. /\ t \subseteq r.files
            /\ \A g \in r.files \ t : Store!Id(g, source[g]) \in Ids(s)
        BY <1>4, <3>1, <3>3 DEF InOrderOfRank
      <4>2. \A g \in r.files \ (t \ {f}) : Store!Id(g, source[g]) \in Ids(s)
        BY <1>1, <1>4, <4>1
      <4>3. /\ importer'[p].pc = "next" /\ importer'[p].request = r
            /\ importer'[p].todo = t \ {f} /\ importer'[p].items = s
        BY <1>5
      <4>4. \A g : Store!Id(g, source'[g]) = Store!Id(g, source[g])
        BY <1>1
      <4>5. QED
        BY <3>3, <4>1, <4>2, <4>3, <4>4 DEF InOrderOfRank, Ids, Store!Id
    <3>4. QED
      BY <3>2, <3>3
  <2>4. ASSUME NEW i \in Known
        PROVE  Described(i)' /\ (Store!Loads(i)' \/ BeingCopied(i)' \/ Owed(i)')
    <3>1. Described(i) /\ (Store!Loads(i) \/ BeingCopied(i) \/ Owed(i))
      BY <1>2, <2>1 DEF Repairable
    <3>2. Store!Loads(i) => Store!Loads(i)'
      BY <1>1 DEF Store!Loads
    <3>3. BeingCopied(i) => BeingCopied(i)'
      BY <1>3, <1>5, <1>6, <1>8, ActiveMember DEF BeingCopied, Store!StoredPath
    <3>4. ASSUME NEW o \in history.interrupted, NEW g \in Relatives, Owes(o, g, i)
          PROVE  Owes(o, g, i)'
      <4>1. Store!Id(g, source[g]) \notin Ids(Known)
        BY <3>4 DEF Owes
      <4>2. ASSUME NEW q \in Importers, importer'[q].pc # "idle", importer'[q].request = o
            PROVE  g \in importer'[q].todo
        <5>1. g \in importer[q].todo
          BY <1>6, <3>4, <4>2, ActiveMember DEF Owes
        <5>2. q = p => g # f
          <6>1. \A k \in s : k \in Known
            BY <1>3, <1>4, KnownMember
          <6>2. Store!Id(f, source[f]) \in Ids(Known)
            BY <1>1, <1>4, <6>1 DEF Ids
          <6>3. QED
            BY <4>1, <6>2
        <5>3. QED
          BY <1>4, <1>5, <5>1, <5>2
      <4>3. Store!Id(g, source[g]) \notin Ids(Known)'
        BY <1>9, <4>1 DEF Ids
      <4>4. QED
        BY <1>1, <3>4, <4>2, <4>3, OwesKept
    <3>5. Described(i)'
      BY <3>1 DEF Described
    <3>6. QED
      BY <1>1, <3>1, <3>2, <3>3, <3>4, <3>5 DEF Owed
  <2>5. QED
    BY <1>1, <1>8, <1>9, <2>2, <2>3, <2>4 DEF Repairable
<1>12. QED
  BY <1>7, <1>10, <1>11

LEMMA KnownTypes == ASSUME StoreTypes PROVE Known \subseteq Store!ItemType
  BY ImporterShape, DocumentShape, KnownMember

LEMMA StoredPaths ==
  ASSUME StoreTypes, NEW r \in Requests, NEW f \in Relatives, NEW d \in StoreDigests
  PROVE  Store!StoredPath(r.split, f, d) \in Store!Paths
  BY RequestFiles DEF Store!StoredPath, Store!Paths

(* The stored file is truncated: whose it is gets it back from the copy,   *)
(* and if that is interrupted, from its repetition.                        *)
LEMMA OpenCopyKeeps ==
  ASSUME StoreInv, NEW p \in Importers, Store!OpenCopy(p)
  PROVE  StoreTypes' /\ Alone' /\ Repairable'
<1>1. PICK f \in Store!NextFile(p) :
        /\ Store!Id(f, source[f]) \notin Ids(importer[p].items)
        /\ stored' = [stored EXCEPT
             ![Store!StoredPath(importer[p].request.split, f, source[f])] = Torn]
        /\ importer' = [importer EXCEPT ![p] =
             [pc |-> "copy", request |-> @.request, todo |-> @.todo \ {f},
              items |-> @.items, file |-> f, digest |-> source[f]]]
        /\ UNCHANGED <<source, document, history>>
  BY DEF Store!OpenCopy, Store!ExistingIds, Ids
<1>2. StoreTypes /\ Alone /\ Repairable
  BY DEF StoreInv
<1>3. importer[p].pc = "next" /\ f \in importer[p].todo
      /\ \A g \in importer[p].todo : Rank[f] <= Rank[g]
  BY <1>1 DEF Store!NextFile
<1>4. PICK r \in Requests, t \in SUBSET Relatives, s \in SUBSET Store!ItemType :
        /\ importer[p] = [pc |-> "next", request |-> r, todo |-> t, items |-> s]
        /\ importer[p].request = r /\ importer[p].todo = t /\ importer[p].items = s
  BY <1>2, <1>3, ImporterShape
<1>5. PICK d \in StoreDigests : d = source[f] /\ f \in Relatives /\ f \in t
  BY <1>2, <1>3, <1>4 DEF StoreTypes
<1>6. PICK path \in Store!Paths : path = Store!StoredPath(r.split, f, d)
  BY <1>2, <1>5, StoredPaths
<1>7. /\ importer'[p] = [pc |-> "copy", request |-> r, todo |-> t \ {f}, items |-> s,
                         file |-> f, digest |-> d]
      /\ \A q \in Importers : q # p => importer'[q] = importer[q]
      /\ importer' \in [Importers -> ImporterType]
  <2>1. importer' = [importer EXCEPT ![p] =
             [pc |-> "copy", request |-> r, todo |-> t \ {f}, items |-> s,
              file |-> f, digest |-> d]]
    BY <1>1, <1>4, <1>5
  <2>2. [pc |-> "copy", request |-> r, todo |-> t \ {f}, items |-> s, file |-> f,
         digest |-> d] \in ImporterType
    BY <1>5 DEF ImporterType
  <2>3. importer \in [Importers -> ImporterType]
    BY <1>2 DEF StoreTypes
  <2>4. QED
    BY <2>1, <2>2, <2>3
<1>8. /\ importer'[p].pc = "copy" /\ importer'[p].request = r /\ importer'[p].todo = t \ {f}
      /\ importer'[p].items = s /\ importer'[p].file = f /\ importer'[p].digest = d
  BY <1>7
<1>9. \A q \in Importers : /\ importer'[q].pc # "idle" <=> importer[q].pc # "idle"
                           /\ importer'[q].request = importer[q].request
                           /\ importer'[q].items = importer[q].items
  BY <1>4, <1>7, <1>8
<1>10. /\ stored' \in [Store!Paths -> StoreDigests \cup {Absent, Torn}]
       /\ \A x \in Store!Paths : x # path => stored'[x] = stored[x]
  <2>1. stored' = [stored EXCEPT ![path] = Torn]
    BY <1>1, <1>4, <1>5, <1>6
  <2>2. QED
    BY <1>2, <2>1 DEF StoreTypes
<1>11. StoreTypes'
  BY <1>1, <1>2, <1>7, <1>10 DEF StoreTypes
<1>12. /\ \A i : (i \in Known)' <=> i \in Known
       /\ Store!Active' = Store!Active /\ (Store!IsWhole(document)' <=> Store!IsWhole(document))
  <2>1. Store!IsWhole(document)' <=> Store!IsWhole(document)
    BY <1>1 DEF Store!IsWhole
  <2>2. \A q : (q \in Store!Active)' <=> q \in Store!Active
    BY <1>9, ActiveMember
  <2>3. \A i : (i \in Known)' <=> i \in Known
    BY <1>1, <1>9, <2>1, KnownMember, KnownMemberNext
  <2>4. QED
    BY <2>1, <2>2, <2>3
<1>13. Known' = Known
  BY <1>12
<1>14. Alone'
  BY <1>1, <1>2, <1>9, <1>12, ActiveMember DEF Alone
<1>15. Repairable'
  <2> SUFFICES ASSUME Sound' PROVE Repairable'
    BY DEF Repairable
  <2>1. Sound /\ p \in Store!Active /\ \A q \in Store!Active : q = p
    BY <1>1, <1>2, <1>3, ActiveMember DEF Sound, Alone
  <2>2. \A o \in history.interrupted : ~Store!Crosses(o, importer'[p].request)
    BY <1>2, <1>9, <2>1 DEF Repairable
  <2>3. InOrderOfRank(p)'
    <3>1. InOrderOfRank(p)
      BY <1>2, <2>1 DEF Repairable
    <3>2. /\ t \subseteq r.files
          /\ \A g \in r.files \ t : Store!Id(g, source[g]) \in Ids(s)
      BY <1>4, <3>1 DEF InOrderOfRank
    <3>3. \A g \in t \ {f} : Rank[f] < Rank[g]
      BY <1>3, <1>4, <1>5, MCStoreAssumption DEF Store!StoreAssumption
    <3>4. \A g \in r.files \ (t \ {f}) : g = f \/ Store!Id(g, source[g]) \in Ids(s)
      BY <3>2
    <3>5. f \in r.files \ (t \ {f}) /\ Store!Id(f, d) \notin Ids(s) /\ source' = source
      BY <1>1, <1>4, <1>5, <3>2
    <3>6. \A x : Ids(x)' = Ids(x)
      BY DEF Ids
    <3>7. QED
      BY <1>5, <1>8, <3>2, <3>3, <3>4, <3>5, <3>6 DEF InOrderOfRank, Store!Id
  <2>4. ASSUME NEW i \in Known
        PROVE  Described(i)' /\ (Store!Loads(i)' \/ BeingCopied(i)' \/ Owed(i)')
    <3>1. Described(i) /\ (Store!Loads(i) \/ BeingCopied(i) \/ Owed(i))
      BY <1>2, <2>1 DEF Repairable
    <3>2. i.path \in Store!Paths
      BY <1>2, KnownTypes DEF Store!ItemType
    <3>3. CASE i.path = path
      <4>1. BeingCopied(i)'
        BY <1>6, <1>8, <1>12, <2>1, <3>3 DEF BeingCopied, Store!StoredPath
      <4>2. QED
        BY <3>1, <4>1 DEF Described
    <3>4. CASE i.path # path
      <4>1. Store!Loads(i) => Store!Loads(i)'
        BY <1>10, <3>2, <3>4 DEF Store!Loads
      <4>2. ~BeingCopied(i)
        BY <1>3, <2>1 DEF BeingCopied
      <4>3. ASSUME NEW o \in history.interrupted, NEW g \in Relatives, Owes(o, g, i)
            PROVE  Owes(o, g, i)'
        <5>1. ASSUME NEW q \in Importers, importer'[q].pc # "idle", importer'[q].request = o
              PROVE  g \in importer'[q].todo
          <6>1. q = p /\ o = r /\ g \in t
            BY <1>4, <1>9, <2>1, <4>3, <5>1, ActiveMember DEF Owes
          <6>2. g # f
            BY <1>5, <1>6, <3>4, <4>3, <6>1 DEF Owes
          <6>3. QED
            BY <1>8, <6>1, <6>2
        <5>2. Store!Id(g, source[g]) \notin Ids(Known)'
          BY <1>13, <4>3 DEF Owes, Ids
        <5>3. QED
          BY <1>1, <4>3, <5>1, <5>2, OwesKept
      <4>4. Owed(i) => Owed(i)'
        BY <1>1, <4>3 DEF Owed
      <4>5. QED
        BY <3>1, <4>1, <4>2, <4>4 DEF Described
    <3>5. QED
      BY <3>3, <3>4
  <2>5. QED
    BY <1>1, <1>12, <1>13, <2>1, <2>2, <2>3, <2>4 DEF Repairable
<1>16. QED
  BY <1>11, <1>14, <1>15

(* The copy is whole, and the import has an item more. *)
LEMMA CopyKeeps ==
  ASSUME StoreInv, NEW p \in Importers, Store!Copy(p)
  PROVE  StoreTypes' /\ Alone' /\ Repairable'
<1>1. StoreTypes /\ Alone /\ Repairable /\ importer[p].pc = "copy"
  BY DEF StoreInv, Store!Copy
<1>2. PICK r \in Requests, t \in SUBSET Relatives, s \in SUBSET Store!ItemType,
           f \in Relatives, d \in StoreDigests :
        /\ importer[p] = [pc |-> "copy", request |-> r, todo |-> t, items |-> s,
                          file |-> f, digest |-> d]
        /\ importer[p].request = r /\ importer[p].todo = t /\ importer[p].items = s
        /\ importer[p].file = f /\ importer[p].digest = d
  <2>1. /\ importer[p] = [pc |-> "copy", request |-> importer[p].request,
                          todo |-> importer[p].todo, items |-> importer[p].items,
                          file |-> importer[p].file, digest |-> importer[p].digest]
        /\ importer[p].file \in Relatives /\ importer[p].digest \in StoreDigests
        /\ importer[p].request \in Requests /\ importer[p].todo \in SUBSET Relatives
        /\ importer[p].items \in SUBSET Store!ItemType
    BY <1>1, ImporterShape
  <2>2. QED
    BY <2>1, Zenon
<1>3. PICK path \in Store!Paths : path = Store!StoredPath(r.split, f, d)
  BY <1>1, StoredPaths
<1>4. source[f] \in StoreDigests
  BY <1>1 DEF StoreTypes
<1>5. PICK new \in Store!ItemType :
        new = [id |-> Store!Id(f, d), path |-> path, split |-> r.split, digest |-> d,
               size |-> Size[source[f]]]
  <2>1. Size[source[f]] \in Nat
    BY <1>4, MCStoreAssumption DEF Store!StoreAssumption
  <2>2. Store!Id(f, d) \in {Slug[g] : g \in Relatives} \X StoreDigests
    BY DEF Store!Id
  <2>3. QED
    BY <1>3, <2>1, <2>2, RequestFiles DEF Store!ItemType
<1>6. /\ stored' = [stored EXCEPT ![path] = source[f]]
      /\ importer' = [importer EXCEPT ![p] =
           [pc |-> "next", request |-> r, todo |-> t, items |-> s \cup {new}]]
      /\ UNCHANGED <<source, document, history>>
  BY <1>2, <1>3, <1>4, <1>5 DEF Store!Copy, Store!Item
<1>7. /\ importer'[p] = [pc |-> "next", request |-> r, todo |-> t, items |-> s \cup {new}]
      /\ \A q \in Importers : q # p => importer'[q] = importer[q]
      /\ importer' \in [Importers -> ImporterType]
  <2>1. [pc |-> "next", request |-> r, todo |-> t, items |-> s \cup {new}] \in ImporterType
    BY DEF ImporterType
  <2>2. importer \in [Importers -> ImporterType]
    BY <1>1 DEF StoreTypes
  <2>3. QED
    BY <1>6, <2>1, <2>2
<1>8. /\ importer'[p].pc = "next" /\ importer'[p].request = r /\ importer'[p].todo = t
      /\ importer'[p].items = s \cup {new}
  BY <1>7
<1>9. \A q \in Importers : /\ importer'[q].pc # "idle" <=> importer[q].pc # "idle"
                           /\ importer'[q].request = importer[q].request
                           /\ importer'[q].todo = importer[q].todo
                           /\ importer[q].items \subseteq importer'[q].items
                           /\ q # p => importer'[q].items = importer[q].items
  BY <1>1, <1>2, <1>7, <1>8
<1>10. /\ stored' \in [Store!Paths -> StoreDigests \cup {Absent, Torn}]
       /\ \A x \in Store!Paths : x # path => stored'[x] = stored[x]
       /\ stored'[path] = source[f]
  BY <1>1, <1>4, <1>6 DEF StoreTypes
<1>11. StoreTypes'
  BY <1>1, <1>6, <1>7, <1>10 DEF StoreTypes
<1>12. /\ \A i : (i \in Known)' <=> i \in Known \/ i = new
       /\ Store!Active' = Store!Active /\ (Store!IsWhole(document)' <=> Store!IsWhole(document))
  <2>1. Store!IsWhole(document)' <=> Store!IsWhole(document)
    BY <1>6 DEF Store!IsWhole
  <2>2. \A q : (q \in Store!Active)' <=> q \in Store!Active
    BY <1>9, ActiveMember
  <2>3. ASSUME NEW i PROVE (i \in Known)' <=> i \in Known \/ i = new
    <3>1. i \in importer'[p].items <=> i \in importer[p].items \/ i = new
      BY <1>2, <1>8
    <3>2. QED
      BY <1>1, <1>6, <1>8, <1>9, <2>1, <3>1, KnownMember, KnownMemberNext
  <2>4. QED
    BY <2>1, <2>2, <2>3
<1>13. Alone'
  BY <1>1, <1>6, <1>9, <1>12, ActiveMember DEF Alone
<1>14. Repairable'
  <2> SUFFICES ASSUME Sound' PROVE Repairable'
    BY DEF Repairable
  <2>1. Sound /\ p \in Store!Active /\ \A q \in Store!Active : q = p
    BY <1>1, <1>6, ActiveMember DEF Sound, Alone
  <2>2. \A o \in history.interrupted : ~Store!Crosses(o, r)
    BY <1>1, <1>2, <2>1 DEF Repairable
  <2>3. InOrderOfRank(p)
    BY <1>1, <2>1 DEF Repairable
  <2>4. /\ d = source[f] /\ f \in r.files \ t /\ \A g \in t : Rank[f] < Rank[g]
        /\ t \subseteq r.files
        /\ \A g \in r.files \ t : g = f \/ Store!Id(g, source[g]) \in Ids(s)
    BY <1>1, <1>2, <2>3 DEF InOrderOfRank
  <2>5. InOrderOfRank(p)'
    <3>1. \A g \in r.files \ t : Store!Id(g, source[g]) \in Ids(s \cup {new})
      BY <1>5, <2>4 DEF Ids
    <3>2. \A x : Ids(x)' = Ids(x)
      BY DEF Ids
    <3>3. QED
      BY <1>6, <1>8, <2>4, <3>1, <3>2 DEF InOrderOfRank, Store!Id
  <2>6. Described(new)' /\ Store!Loads(new)'
    BY <1>3, <1>5, <1>10, <2>4 DEF Described, Store!Loads, Store!StoredPath
  <2>7. ASSUME NEW i \in Known
        PROVE  Described(i)' /\ (Store!Loads(i)' \/ BeingCopied(i)' \/ Owed(i)')
    <3>1. Described(i) /\ (Store!Loads(i) \/ BeingCopied(i) \/ Owed(i))
      BY <1>1, <2>1 DEF Repairable
    <3>2. i.path \in Store!Paths
      BY <1>1, KnownTypes DEF Store!ItemType
    <3>3. i.path = path => Store!Loads(i)'
      <4>1. path[3] = d
        BY <1>3 DEF Store!StoredPath
      <4>2. QED
        BY <1>10, <2>4, <3>1, <4>1 DEF Store!Loads, Described
    <3>4. CASE i.path # path
      <4>1. Store!Loads(i) => Store!Loads(i)'
        BY <1>10, <3>2, <3>4 DEF Store!Loads
      <4>2. ~BeingCopied(i)
        BY <1>2, <1>3, <2>1, <3>4 DEF BeingCopied
      <4>3. ASSUME NEW o \in history.interrupted, NEW g \in Relatives, Owes(o, g, i)
            PROVE  Owes(o, g, i)'
        <5>1. \A q \in Importers : importer'[q].pc # "idle" /\ importer'[q].request = o
                                     => g \in importer'[q].todo
          BY <1>9, <4>3, ActiveMember DEF Owes
        <5>2. Store!Id(g, source[g]) # Store!Id(f, d)
          <6>1. CASE o = r
            <7>1. g \in t
              BY <1>2, <2>1, <4>3, <6>1 DEF Owes
            <7>2. QED
              BY <2>4, <4>3, <6>1, <7>1 DEF Owes
          <6>2. CASE o # r
            <7>1. SUFFICES ASSUME Slug[g] = Slug[f], source[g] = d PROVE FALSE
              BY DEF Store!Id
            <7>2. o.split = r.split /\ Name[g] = Name[f]
              BY <2>2, <2>4, <4>3, <6>2, <7>1 DEF Owes, Store!Crosses
            <7>3. i.path = path
              BY <1>3, <4>3, <7>1, <7>2 DEF Owes, Store!StoredPath
            <7>4. QED
              BY <3>4, <7>3
          <6>3. QED
            BY <6>1, <6>2
        <5>3. Store!Id(g, source[g]) \notin Ids(Known)'
          BY <1>5, <1>12, <4>3, <5>2 DEF Owes, Ids
        <5>4. QED
          BY <1>6, <4>3, <5>1, <5>3, OwesKept
      <4>4. Owed(i) => Owed(i)'
        BY <1>6, <4>3 DEF Owed
      <4>5. QED
        BY <3>1, <4>1, <4>2, <4>4 DEF Described
    <3>5. QED
      BY <3>1, <3>3, <3>4 DEF Described
  <2>8. ASSUME NEW i, (i \in Known)'
        PROVE  Described(i)' /\ (Store!Loads(i)' \/ BeingCopied(i)' \/ Owed(i)')
    BY <1>12, <2>6, <2>7, <2>8
  <2>9. \A o \in history'.interrupted : ~Store!Crosses(o, importer'[p].request)
    BY <1>6, <1>8, <2>2
  <2>10. QED
    BY <1>12, <2>1, <2>5, <2>8, <2>9 DEF Repairable
<1>15. QED
  BY <1>11, <1>13, <1>14

(* The manifest is truncated ... *)
LEMMA OpenManifestKeeps ==
  ASSUME StoreInv, NEW p \in Importers, Store!OpenManifest(p)
  PROVE  StoreTypes' /\ Alone' /\ Repairable'
<1>1. /\ importer[p].pc = "next" /\ importer[p].todo = {} /\ document' = Torn
      /\ importer' = [importer EXCEPT ![p].pc = "write"]
      /\ UNCHANGED <<source, stored, history>>
  BY DEF Store!OpenManifest
<1>2. StoreTypes /\ Alone /\ Repairable
  BY DEF StoreInv
<1>3. PICK r \in Requests, t \in SUBSET Relatives, s \in SUBSET Store!ItemType :
        /\ importer[p] = [pc |-> "next", request |-> r, todo |-> t, items |-> s]
        /\ importer[p].request = r /\ importer[p].todo = t /\ importer[p].items = s
  BY <1>1, <1>2, ImporterShape
<1>4. /\ importer'[p] = [pc |-> "write", request |-> r, todo |-> t, items |-> s]
      /\ \A q \in Importers : q # p => importer'[q] = importer[q]
      /\ importer' \in [Importers -> ImporterType]
  <2>1. importer \in [Importers -> ImporterType]
    BY <1>2 DEF StoreTypes
  <2>2. /\ importer'[p] = [importer[p] EXCEPT !.pc = "write"]
        /\ \A q \in Importers : q # p => importer'[q] = importer[q]
    BY <1>1, <2>1
  <2>3. importer'[p] = [pc |-> "write", request |-> r, todo |-> t, items |-> s]
    BY <1>3, <2>2
  <2>4. importer'[p] \in ImporterType
    BY <2>3 DEF ImporterType
  <2>5. DOMAIN importer' = Importers /\ importer' = [q \in Importers |-> importer'[q]]
    BY <1>1, <2>1
  <2>6. \A q \in Importers : importer'[q] \in ImporterType
    BY <2>1, <2>2, <2>4
  <2>7. QED
    BY <2>2, <2>3, <2>5, <2>6
<1>5. /\ importer'[p].pc = "write" /\ importer'[p].request = r /\ importer'[p].todo = t
      /\ importer'[p].items = s
  BY <1>4
<1>6. \A q \in Importers : /\ importer'[q].pc # "idle" <=> importer[q].pc # "idle"
                           /\ importer'[q].request = importer[q].request
                           /\ importer'[q].todo = importer[q].todo
                           /\ importer'[q].items = importer[q].items
  BY <1>1, <1>3, <1>4, <1>5
<1>7. StoreTypes'
  BY <1>1, <1>2, <1>4 DEF StoreTypes
<1>8. ~Store!IsWhole(document)' /\ document' # Absent
  BY <1>1, MCStoreAssumption DEF Store!IsWhole, Store!StoreAssumption
<1>9. Store!Active' = Store!Active
  <2>1. \A q : (q \in Store!Active)' <=> q \in Store!Active
    BY <1>6, ActiveMember
  <2>2. QED
    BY <2>1
<1>10. Alone'
  BY <1>1, <1>2, <1>6, <1>8, <1>9, ActiveMember DEF Alone
<1>11. Repairable'
  <2> SUFFICES ASSUME Sound' PROVE Repairable'
    BY DEF Repairable
  <2>1. Sound /\ p \in Store!Active /\ \A q \in Store!Active : q = p
    BY <1>1, <1>2, ActiveMember DEF Sound, Alone
  <2>2. Store!IsWhole(document) => document.items \subseteq s
    BY <1>2, <1>3, <2>1 DEF Sound, Alone
  <2>3. Known' = Known
    <3>1. ASSUME NEW i PROVE (i \in Known)' <=> i \in Known
      BY <1>1, <1>3, <1>6, <1>8, <2>2, KnownMember, KnownMemberNext
    <3>2. QED
      BY <3>1
  <2>4. InOrderOfRank(p)'
    <3>1. InOrderOfRank(p)
      BY <1>2, <2>1 DEF Repairable
    <3>2. /\ t \subseteq r.files /\ t = {}
          /\ \A g \in r.files \ t : Store!Id(g, source[g]) \in Ids(s)
      BY <1>1, <1>3, <3>1 DEF InOrderOfRank
    <3>3. \A x : Ids(x)' = Ids(x)
      BY DEF Ids
    <3>4. QED
      BY <1>1, <1>5, <3>2, <3>3 DEF InOrderOfRank, Store!Id
  <2>5. ASSUME NEW i \in Known
        PROVE  Described(i)' /\ (Store!Loads(i)' \/ Owed(i)')
    <3>1. Described(i) /\ (Store!Loads(i) \/ BeingCopied(i) \/ Owed(i))
      BY <1>2, <2>1 DEF Repairable
    <3>2. Store!Loads(i) => Store!Loads(i)'
      BY <1>1 DEF Store!Loads
    <3>3. ~BeingCopied(i)
      BY <1>1, <2>1 DEF BeingCopied
    <3>4. ASSUME NEW o \in history.interrupted, NEW g \in Relatives, Owes(o, g, i)
          PROVE  Owes(o, g, i)'
      <4>1. \A q \in Importers : importer'[q].pc # "idle" /\ importer'[q].request = o
                                   => g \in importer'[q].todo
        BY <1>6, <3>4, ActiveMember DEF Owes
      <4>2. Store!Id(g, source[g]) \notin Ids(Known)'
        BY <2>3, <3>4 DEF Owes, Ids
      <4>3. QED
        BY <1>1, <3>4, <4>1, <4>2, OwesKept
    <3>5. Owed(i) => Owed(i)'
      BY <1>1, <3>4 DEF Owed
    <3>6. QED
      BY <3>1, <3>2, <3>3, <3>5 DEF Described
  <2>6. \A o \in history'.interrupted : ~Store!Crosses(o, importer'[p].request)
    BY <1>1, <1>2, <1>6, <2>1 DEF Repairable
  <2>7. QED
    BY <1>9, <2>1, <2>3, <2>4, <2>5, <2>6 DEF Repairable
<1>12. QED
  BY <1>7, <1>10, <1>11

(* ... and written: the import is over, nothing is owed for it.            *)
LEMMA WriteManifestKeeps ==
  ASSUME StoreInv, NEW p \in Importers, Store!WriteManifest(p)
  PROVE  StoreTypes' /\ Alone' /\ Repairable'
<1>1. StoreTypes /\ Alone /\ Repairable /\ importer[p].pc = "write"
  BY DEF StoreInv, Store!WriteManifest
<1>2. PICK r \in Requests, s \in SUBSET Store!ItemType :
        importer[p].request = r /\ importer[p].items = s
  BY <1>1, ImporterShape
<1>3. /\ document' = [items |-> s] /\ importer' = [importer EXCEPT ![p] = Store!Idle]
      /\ history' = [history EXCEPT !.interrupted = @ \ {r}, !.imported = @ \cup s]
      /\ UNCHANGED <<source, stored>>
  BY <1>2 DEF Store!WriteManifest
<1>4. /\ importer'[p].pc = "idle"
      /\ \A q \in Importers : q # p => importer'[q] = importer[q]
      /\ importer' \in [Importers -> ImporterType]
  BY <1>1, <1>3 DEF StoreTypes, ImporterType, Store!Idle
<1>5. /\ history'.overlapped = history.overlapped /\ history'.crossed = history.crossed
      /\ history'.edited = history.edited
      /\ history'.interrupted = history.interrupted \ {r}
      /\ history'.imported = history.imported \cup s /\ history' \in HistoryType
  BY <1>1, <1>3 DEF StoreTypes, HistoryType
<1>6. document'.items = s /\ Store!IsWhole(document)' /\ document' \in [items : SUBSET Store!ItemType]
  <2>1. document'.items = s /\ document' \in [items : SUBSET Store!ItemType]
    BY <1>3
  <2>2. QED
    BY <2>1, MCStoreAssumption DEF Store!StoreAssumption, Store!IsWhole
<1>7. StoreTypes'
  BY <1>1, <1>3, <1>4, <1>5, <1>6 DEF StoreTypes
<1>8. ASSUME ~history'.overlapped
      PROVE  /\ \A q \in Importers : importer'[q].pc = "idle"
             /\ history.imported \subseteq s /\ p \in Store!Active
             /\ \A q \in Store!Active : q = p
             /\ Store!IsWhole(document) => document.items \subseteq s
  <2>1. p \in Store!Active /\ ~history.overlapped
    BY <1>1, <1>5, <1>8, ActiveMember
  <2>2. /\ \A q \in Store!Active : q = p /\ history.imported \subseteq s
        /\ Store!IsWhole(document) => document.items \subseteq s
    BY <1>1, <1>2, <2>1 DEF Alone
  <2>3. QED
    BY <1>4, <2>1, <2>2, ActiveMember
<1>9. Alone'
  <2> SUFFICES ASSUME ~history'.overlapped
               PROVE  /\ \A q \in Importers : importer'[q].pc = "idle"
                      /\ document' # Absent
                      /\ history'.imported \subseteq document'.items
    BY ActiveMember DEF Alone
  <2>1. document' # Absent
    BY <1>6 DEF Store!IsWhole
  <2>2. QED
    BY <1>5, <1>6, <1>8, <2>1
<1>10. Repairable'
  <2> SUFFICES ASSUME Sound' PROVE Repairable'
    BY DEF Repairable
  <2>1. Sound /\ ~history'.overlapped
    BY <1>5 DEF Sound
  <2>2. \A i : (i \in Known)' <=> i \in s
    BY <1>6, <1>8, <2>1, KnownMemberNext
  <2>3. \A i \in s : i \in Known
    BY <1>1, <1>2, KnownMember
  <2>4. \A q : ~(q \in Store!Active)'
    BY <1>8, <2>1, ActiveMember
  <2>5. importer[p].todo = {}
    BY <1>1, <1>8, <2>1 DEF Repairable, InOrderOfRank
  <2>6. ASSUME NEW i \in s
        PROVE  Described(i)' /\ (Store!Loads(i)' \/ Owed(i)')
    <3>1. Described(i) /\ (Store!Loads(i) \/ BeingCopied(i) \/ Owed(i))
      BY <1>1, <2>1, <2>3 DEF Repairable
    <3>2. Store!Loads(i) => Store!Loads(i)'
      BY <1>3 DEF Store!Loads
    <3>3. ~BeingCopied(i)
      BY <1>1, <1>8, <2>1 DEF BeingCopied
    <3>4. ASSUME NEW o \in history.interrupted, NEW g \in Relatives, Owes(o, g, i)
          PROVE  Owes(o, g, i)' /\ o \in history'.interrupted
      <4>1. o # r
        BY <1>2, <1>8, <2>1, <2>5, <3>4 DEF Owes
      <4>2. Store!Id(g, source[g]) \notin Ids(Known)'
        BY <2>2, <2>3, <3>4 DEF Owes, Ids
      <4>3. \A q \in Importers : importer'[q].pc # "idle" /\ importer'[q].request = o
                                   => g \in importer'[q].todo
        BY <1>8, <2>1
      <4>4. QED
        BY <1>3, <1>5, <3>4, <4>1, <4>2, <4>3, OwesKept
    <3>5. Owed(i) => Owed(i)'
      BY <3>4 DEF Owed
    <3>6. QED
      BY <3>1, <3>2, <3>3, <3>5 DEF Described
  <2>7. QED
    BY <2>2, <2>4, <2>6 DEF Repairable
<1>11. QED
  BY <1>7, <1>9, <1>10

(* A crash leaves the file that was being copied to the repetition.        *)
LEMMA CrashKeeps ==
  ASSUME StoreInv, NEW p \in Importers, Store!Crash(p)
  PROVE  StoreTypes' /\ Alone' /\ Repairable'
<1>1. StoreTypes /\ Alone /\ Repairable /\ importer[p].pc # "idle"
  BY DEF StoreInv, Store!Crash
<1>2. PICK r \in Requests : importer[p].request = r
  BY <1>1, ImporterShape
<1>3. /\ importer' = [importer EXCEPT ![p] = Store!Idle]
      /\ history' = [history EXCEPT !.interrupted = @ \cup {r}]
      /\ UNCHANGED <<source, document, stored>>
  BY <1>2 DEF Store!Crash
<1>4. /\ importer'[p].pc = "idle"
      /\ \A q \in Importers : q # p => importer'[q] = importer[q]
      /\ importer' \in [Importers -> ImporterType]
  BY <1>1, <1>3 DEF StoreTypes, ImporterType, Store!Idle
<1>5. /\ history'.overlapped = history.overlapped /\ history'.crossed = history.crossed
      /\ history'.edited = history.edited
      /\ history'.interrupted = history.interrupted \cup {r}
      /\ history'.imported = history.imported /\ history' \in HistoryType
  BY <1>1, <1>3 DEF StoreTypes, HistoryType
<1>6. StoreTypes'
  BY <1>1, <1>3, <1>4, <1>5 DEF StoreTypes
<1>7. ASSUME ~history'.overlapped
      PROVE  /\ \A q \in Importers : importer'[q].pc = "idle"
             /\ ~history.overlapped /\ p \in Store!Active
             /\ \A q \in Store!Active : q = p
             /\ Store!IsWhole(document) => document.items \subseteq importer[p].items
  <2>1. p \in Store!Active /\ ~history.overlapped
    BY <1>1, <1>5, <1>7, ActiveMember
  <2>2. /\ \A q \in Store!Active : q = p
        /\ Store!IsWhole(document) => document.items \subseteq importer[p].items
    BY <1>1, <2>1 DEF Alone
  <2>3. QED
    BY <1>4, <2>1, <2>2, ActiveMember
<1>8. Store!IsWhole(document)' <=> Store!IsWhole(document)
  BY <1>3 DEF Store!IsWhole
<1>9. Alone'
  BY <1>1, <1>3, <1>5, <1>7, <1>8, ActiveMember DEF Alone
<1>10. Repairable'
  <2> SUFFICES ASSUME Sound' PROVE Repairable'
    BY DEF Repairable
  <2>1. Sound /\ ~history'.overlapped
    BY <1>5 DEF Sound
  <2>2. \A i : (i \in Known)' => i \in Known
    BY <1>3, <1>7, <1>8, <2>1, KnownMember, KnownMemberNext
  <2>3. \A q : ~(q \in Store!Active)'
    BY <1>7, <2>1, ActiveMember
  <2>4. \A o, g : g \in Relatives /\ Store!Id(g, source[g]) \notin Ids(Known)
                    => Store!Id(g, source[g]) \notin Ids(Known)'
    BY <2>2 DEF Ids
  <2>5. ASSUME NEW i, (i \in Known)'
        PROVE  Described(i)' /\ (Store!Loads(i)' \/ Owed(i)')
    <3>1. Described(i) /\ (Store!Loads(i) \/ BeingCopied(i) \/ Owed(i))
      BY <1>1, <2>1, <2>2, <2>5 DEF Repairable
    <3>2. Store!Loads(i) => Store!Loads(i)'
      BY <1>3 DEF Store!Loads
    <3>3. ASSUME NEW o \in history.interrupted, NEW g \in Relatives, Owes(o, g, i)
          PROVE  Owes(o, g, i)'
      <4>1. Store!Id(g, source[g]) \notin Ids(Known)'
        BY <2>4, <3>3 DEF Owes
      <4>2. \A q \in Importers : importer'[q].pc # "idle" /\ importer'[q].request = o
                                   => g \in importer'[q].todo
        BY <1>7, <2>1
      <4>3. QED
        BY <1>3, <3>3, <4>1, <4>2, OwesKept
    <3>4. ASSUME BeingCopied(i) PROVE \E f \in Relatives : Owes(r, f, i)'
      <4>1. /\ importer[p].pc = "copy"
            /\ i.path = Store!StoredPath(r.split, importer[p].file, importer[p].digest)
        BY <1>2, <1>7, <2>1, <3>4 DEF BeingCopied
      <4>2. PICK f \in Relatives : f = importer[p].file
        BY <1>1, <4>1, ImporterShape
      <4>3. InOrderOfRank(p)
        BY <1>1, <1>7, <2>1 DEF Repairable
      <4>4. /\ importer[p].digest = source[f] /\ f \in r.files
            /\ Store!Id(f, source[f]) \notin Ids(importer[p].items)
            /\ \A g \in importer[p].todo : Rank[f] < Rank[g]
            /\ \A g \in r.files \ importer[p].todo :
                 g = f \/ Store!Id(g, source[g]) \in Ids(importer[p].items)
        BY <1>2, <4>1, <4>2, <4>3 DEF InOrderOfRank
      <4>5. \A g \in r.files : Rank[g] < Rank[f] =>
              g \notin importer[p].todo /\ g # f
        <5>1. \A g \in r.files : g \in Relatives /\ Rank[g] \in Nat /\ Rank[f] \in Nat
          BY RequestFiles, MCStoreAssumption DEF Store!StoreAssumption
        <5>2. QED
          BY <4>4, <5>1
      <4>6. \A g \in r.files : Rank[g] < Rank[f] => Store!Id(g, source[g]) # Store!Id(f, source[f])
        BY <4>4, <4>5
      <4>7. Store!Id(f, source[f]) \notin Ids(Known)'
        <5>1. \A k : (k \in Known)' => k \in importer[p].items
          BY <1>3, <1>7, <1>8, <2>1, KnownMemberNext
        <5>2. QED
          BY <4>4, <5>1 DEF Ids
      <4>8. Owes(r, f, i)'
        <5>1. i.path = Store!StoredPath(r.split, f, source[f])
          BY <4>1, <4>2, <4>4
        <5>2. QED
          BY <1>3, <2>3, <4>4, <4>6, <4>7, <5>1 DEF Owes, Store!StoredPath, Store!Id
      <4>9. QED
        BY <4>8
    <3>5. Owed(i)' \/ Store!Loads(i)'
      BY <1>5, <3>1, <3>2, <3>3, <3>4 DEF Owed
    <3>6. QED
      BY <3>1, <3>5 DEF Described
  <2>6. QED
    BY <2>3, <2>5 DEF Repairable
<1>11. QED
  BY <1>6, <1>9, <1>10

(* Sources are edited while nobody imports and nothing is owed.            *)
LEMMA EditSourceKeeps ==
  ASSUME StoreInv, Store!EditSource
  PROVE  StoreTypes' /\ Alone' /\ Repairable'
<1>1. PICK f \in Relatives, d \in StoreDigests :
        /\ source' = [source EXCEPT ![f] = d]
        /\ history' = [history EXCEPT !.edited =
                         @ \/ Store!Active # {} \/ history.interrupted # {}]
        /\ UNCHANGED <<document, stored, importer>>
  BY DEF Store!EditSource
<1>2. StoreTypes /\ Alone /\ Repairable
  BY DEF StoreInv
<1>3. /\ history'.overlapped = history.overlapped /\ history'.crossed = history.crossed
      /\ history'.edited = (history.edited \/ Store!Active # {} \/ history.interrupted # {})
      /\ history'.interrupted = history.interrupted
      /\ history'.imported = history.imported /\ history' \in HistoryType
  BY <1>1, <1>2, HistoryShape, Zenon DEF StoreTypes, HistoryType
<1>4. StoreTypes'
  BY <1>1, <1>2, <1>3 DEF StoreTypes
<1>5. /\ Store!Active' = Store!Active /\ Known' = Known
      /\ (Store!IsWhole(document)' <=> Store!IsWhole(document))
  BY <1>1 DEF Store!Active, Known, Store!IsWhole
<1>6. Alone'
  BY <1>1, <1>2, <1>3, <1>5 DEF Alone
<1>7. Repairable'
  <2> SUFFICES ASSUME Sound' PROVE Repairable'
    BY DEF Repairable
  <2>1. Sound /\ Store!Active = {} /\ history.interrupted = {}
    BY <1>3 DEF Sound
  <2>2. \A i \in Known : Described(i) /\ Store!Loads(i)
    BY <1>2, <2>1 DEF Repairable, BeingCopied, Owed
  <2>3. \A i \in Known : Described(i)' /\ Store!Loads(i)'
    BY <1>1, <2>2 DEF Described, Store!Loads
  <2>4. QED
    BY <1>5, <2>1, <2>3 DEF Repairable
<1>8. QED
  BY <1>4, <1>6, <1>7

(* A reader changes nothing that an importer has to do with.               *)
LEMMA ReadersKeepTheStore ==
  ASSUME StoreInv, UNCHANGED <<source, document, stored, importer, history>>
  PROVE  StoreTypes' /\ Alone' /\ Repairable'
<1>1. StoreTypes /\ Alone /\ Repairable
  BY DEF StoreInv
<1>2. StoreTypes'
  BY <1>1 DEF StoreTypes
<1>3. /\ Store!Active' = Store!Active /\ Known' = Known
      /\ (Store!IsWhole(document)' <=> Store!IsWhole(document))
  BY DEF Store!Active, Known, Store!IsWhole
<1>4. Alone'
  BY <1>1, <1>3 DEF Alone
<1>5. \A p \in Importers : InOrderOfRank(p) => InOrderOfRank(p)'
  BY DEF InOrderOfRank, Ids, Store!Id
<1>6. \A i : /\ Store!Loads(i)' <=> Store!Loads(i)
             /\ Described(i)' <=> Described(i)
  BY DEF Store!Loads, Described
<1>7. \A i : BeingCopied(i)' <=> BeingCopied(i)
  BY <1>3 DEF BeingCopied, Store!StoredPath
<1>8. \A i, r, f : Owes(r, f, i)' <=> Owes(r, f, i)
  BY <1>3 DEF Owes, Store!StoredPath, Store!Id, Ids
<1>9. \A i : Owed(i)' <=> Owed(i)
  BY <1>8 DEF Owed
<1>10. Repairable'
  <2> SUFFICES ASSUME Sound' PROVE Repairable'
    BY DEF Repairable
  <2>1. Sound /\ \A p \in Store!Active : p \in Importers
    BY ActiveMember DEF Sound
  <2>2. \A p \in Store!Active : /\ InOrderOfRank(p)'
                                /\ \A r \in history.interrupted :
                                     ~Store!Crosses(r, importer[p].request)
    BY <1>1, <1>5, <2>1 DEF Repairable
  <2>3. \A i \in Known : Described(i)'
                           /\ (Store!Loads(i)' \/ BeingCopied(i)' \/ Owed(i)')
    BY <1>1, <1>6, <1>7, <1>9, <2>1 DEF Repairable
  <2>4. QED
    BY <1>3, <2>2, <2>3 DEF Repairable
<1>11. QED
  BY <1>2, <1>4, <1>10

LEMMA HoldoutGrows ==
  ASSUME NEW small, NEW large, small \subseteq large
  PROVE  HoldoutOf(small) \subseteq HoldoutOf(large)
  BY DEF HoldoutOf, Store!Commitment

(* What importers and editors do leaves the reader alone, and what was     *)
(* imported stays imported.                                                *)
LEMMA SealKept ==
  ASSUME StoreInv, reader' = reader, history.overlapped => history'.overlapped,
         history.imported \subseteq history'.imported
  PROVE  Sealed'
<1>1. HoldoutOf(history.imported) \subseteq HoldoutOf(history'.imported)
  BY HoldoutGrows
<1>2. \A x : Store!Commitment(x)' = Store!Commitment(x') /\ HoldoutOf(x)' = HoldoutOf(x')
  BY DEF Store!Commitment, HoldoutOf
<1>3. QED
  BY <1>1, <1>2 DEF StoreInv, Sealed

LEMMA ImportersKeepTheSeal ==
  ASSUME StoreInv, NEW p \in Importers, Store!Import(p)
  PROVE  Sealed'
<1>1. reader' = reader
  BY DEF Store!Import, Store!Start, Store!Skip, Store!OpenCopy, Store!Copy,
         Store!OpenManifest, Store!WriteManifest, Store!Crash
<1>2. StoreTypes
  BY DEF StoreInv
<1>3. /\ history.overlapped => history'.overlapped
      /\ history.imported \subseteq history'.imported
  <2>1. CASE Store!Start(p)
    <3>1. PICK x : history' = [history EXCEPT !.overlapped = @ \/ Store!Active # {},
                                              !.crossed = x]
      BY <2>1 DEF Store!Start
    <3>2. QED
      BY <1>2, <3>1, HistoryShape, Zenon
  <2>2. CASE Store!Skip(p) \/ Store!OpenCopy(p) \/ Store!Copy(p) \/ Store!OpenManifest(p)
    BY <2>2 DEF Store!Skip, Store!OpenCopy, Store!Copy, Store!OpenManifest
  <2>3. CASE Store!WriteManifest(p)
    <3>1. history' = [history EXCEPT !.interrupted = @ \ {importer[p].request},
                                     !.imported = @ \cup importer[p].items]
      BY <2>3 DEF Store!WriteManifest
    <3>2. /\ history'.overlapped = history.overlapped
          /\ history'.imported = history.imported \cup importer[p].items
      BY <1>2, <3>1 DEF StoreTypes, HistoryType
    <3>3. QED
      BY <3>2
  <2>4. CASE Store!Crash(p)
    <3>1. history' = [history EXCEPT !.interrupted = @ \cup {importer[p].request}]
      BY <2>4 DEF Store!Crash
    <3>2. QED
      BY <1>2, <3>1 DEF StoreTypes, HistoryType
  <2>5. QED
    BY <2>1, <2>2, <2>3, <2>4 DEF Store!Import
<1>4. QED
  BY <1>1, <1>3, SealKept

(* Each step of the reader: what it is due to find it takes along.         *)
LEMMA ReadersKeepTheSeal ==
  ASSUME StoreInv, Store!Read
  PROVE  Sealed'
<1> USE DEF Store!Idle
<1>1. StoreTypes /\ Alone /\ Sealed
  BY DEF StoreInv
<1>2. history' = history
  BY DEF Store!Read, Store!Freeze, Store!Verify, Store!ReadManifest, Store!CheckItem,
         Store!OpenLock, Store!WriteLock, Store!EndVerify, Store!Report, Store!ReaderCrash,
         Store!ReaderFails
<1>3. \A x : Store!Commitment(x)' = Store!Commitment(x') /\ HoldoutOf(x)' = HoldoutOf(x')
  BY DEF Store!Commitment, HoldoutOf
<1>4. CASE reader' = [pc |-> "idle"] \/ reader'.pc = "write"
  BY <1>4 DEF Sealed
<1>5. CASE Store!Freeze
  <2>1. reader' = [pc |-> "read", task |-> "freeze"]
    BY <1>5 DEF Store!Freeze
  <2>2. QED
    BY <2>1 DEF Sealed
<1>6. CASE Store!Verify
  <2>1. reader' = [pc |-> "read", task |-> "verify", expected |-> lock.items,
                   due |-> HoldoutOf(history.imported)]
    BY <1>6 DEF Store!Verify, HoldoutOf
  <2>2. reader'.due = HoldoutOf(history'.imported) /\ reader'.pc = "read"
        /\ reader'.expected = lock.items
    BY <1>2, <2>1
  <2>3. QED
    BY <1>3, <2>1, <2>2 DEF Sealed
<1>7. CASE Store!ReadManifest
  <2> DEFINE holdout == IF Store!IsWhole(document)
                        THEN {i \in document.items : i.split = "holdout"} ELSE {}
  <2>1. CASE holdout = {}
    BY <1>4, <1>7, <2>1 DEF Store!ReadManifest, Store!ReaderFails
  <2>2. CASE holdout # {}
    <3>1. /\ reader.pc = "read"
          /\ reader' = [item \in DOMAIN reader \cup {"items", "left"} |->
                          CASE item = "pc" -> "check"
                            [] item \in {"items", "left"} -> holdout
                            [] OTHER -> reader[item]]
      BY <1>7, <2>2 DEF Store!ReadManifest
    <3>2. /\ Store!IsWhole(document)
          /\ holdout = {i \in document.items : i.split = "holdout"}
      BY <2>2
    <3>3. Store!Commitment(holdout) = HoldoutOf(document.items)
      BY <3>2 DEF HoldoutOf
    <3> HIDE DEF holdout
    <3>4. DOMAIN reader' = DOMAIN reader \cup {"items", "left"}
      BY <3>1
    <3>5. \/ DOMAIN reader = {"pc", "task"} /\ reader.task = "freeze"
          \/ /\ DOMAIN reader = {"pc", "task", "expected", "due"} /\ reader.task = "verify"
             /\ ~history.overlapped => reader.due \subseteq HoldoutOf(history.imported)
      BY <1>1, <3>1 DEF Sealed
    <3>6. /\ reader'.pc = "check" /\ reader'.items = holdout /\ reader'.task = reader.task
          /\ {"pc", "task", "items", "left"} \subseteq DOMAIN reader'
      BY <3>1, <3>4, <3>5
    <3>7. ASSUME reader'.task = "verify"
          PROVE  /\ {"expected", "due"} \subseteq DOMAIN reader'
                 /\ ~history.overlapped => reader'.due \subseteq Store!Commitment(holdout)
      <4>1. /\ DOMAIN reader = {"pc", "task", "expected", "due"}
            /\ ~history.overlapped => reader.due \subseteq HoldoutOf(history.imported)
        BY <3>5, <3>6, <3>7
      <4>2. "due" \in DOMAIN reader' /\ "expected" \in DOMAIN reader'
        BY <3>4, <4>1
      <4>3. reader'.due = reader.due
        BY <3>1, <4>1
      <4>4. ~history.overlapped => HoldoutOf(history.imported) \subseteq Store!Commitment(holdout)
        <5>1. ~history.overlapped => history.imported \subseteq document.items
          BY <1>1, <3>2 DEF Alone
        <5>2. QED
          BY ONLY <3>3, <5>1, HoldoutGrows
      <4>5. QED
        BY <4>1, <4>2, <4>3, <4>4
    <3>8. QED
      BY <1>2, <1>3, <3>6, <3>7 DEF Sealed
  <2>3. QED
    BY <2>1, <2>2
<1>8. CASE Store!CheckItem
  <2>1. CASE reader' = [pc |-> "idle"]
    BY <1>4, <2>1
  <2>2. CASE reader' # [pc |-> "idle"]
    <3>1. PICK i : reader.pc = "check" /\ reader' = [reader EXCEPT !.left = @ \ {i}]
      BY <1>8, <2>2 DEF Store!CheckItem, Store!ReaderFails
    <3>2. {"pc", "task", "items", "left"} \subseteq DOMAIN reader
      BY <1>1, <3>1 DEF Sealed
    <3>3. /\ DOMAIN reader' = DOMAIN reader /\ reader'.pc = "check"
          /\ reader'.task = reader.task /\ reader'.items = reader.items
      BY <3>1, <3>2
    <3>4. reader'.task = "verify" => /\ {"expected", "due"} \subseteq DOMAIN reader
                                     /\ reader'.due = reader.due
      BY <1>1, <3>1, <3>3 DEF Sealed
    <3>5. QED
      BY <1>1, <1>2, <1>3, <3>1, <3>2, <3>3, <3>4 DEF Sealed
  <2>3. QED
    BY <2>1, <2>2
<1>9. CASE Store!OpenLock
  <2>1. reader.pc = "check" /\ reader' = [reader EXCEPT !.pc = "write"]
    BY <1>9 DEF Store!OpenLock, Store!Checked
  <2>2. reader'.pc = "write"
    BY <1>1, <2>1 DEF Sealed
  <2>3. QED
    BY <1>4, <2>2
<1>10. CASE Store!WriteLock \/ Store!Report \/ Store!ReaderCrash
  BY <1>4, <1>10 DEF Store!WriteLock, Store!Report, Store!ReaderCrash, Store!ReaderFails
<1>11. CASE Store!EndVerify
  <2>1. /\ reader.pc = "check" /\ reader.task = "verify"
        /\ reader' = [pc |-> "verified",
                      verdict |-> reader.expected = Store!Commitment(reader.items),
                      expected |-> reader.expected, due |-> reader.due]
    BY <1>11 DEF Store!EndVerify, Store!Checked, Store!Matches
  <2>2. /\ reader'.pc = "verified" /\ reader'.due = reader.due
        /\ reader'.expected = reader.expected
        /\ reader'.verdict = (reader.expected = Store!Commitment(reader.items))
    BY <2>1
  <2>3. ~history.overlapped => reader.due \subseteq Store!Commitment(reader.items)
    BY <1>1, <2>1 DEF Sealed
  <2>4. QED
    BY <1>2, <2>2, <2>3 DEF Sealed
<1>12. QED
  BY <1>5, <1>6, <1>7, <1>8, <1>9, <1>10, <1>11 DEF Store!Read

LEMMA NextStoreInv ==
  ASSUME StoreInv, Store!Next \/ UNCHANGED storeVars
  PROVE  StoreInv'
<1>1. ASSUME NEW p \in Importers, Store!Import(p) PROVE StoreInv'
  <2>1. StoreTypes' /\ Alone' /\ Repairable'
    BY <1>1, StartKeeps, SkipKeeps, OpenCopyKeeps, CopyKeeps, OpenManifestKeeps,
       WriteManifestKeeps, CrashKeeps DEF Store!Import
  <2>2. QED
    BY <1>1, <2>1, ImportersKeepTheSeal DEF StoreInv
<1>2. CASE Store!EditSource
  <2>1. StoreTypes' /\ Alone' /\ Repairable'
    BY <1>2, EditSourceKeeps
  <2>2. reader' = reader /\ (history.overlapped => history'.overlapped)
          /\ history.imported \subseteq history'.imported
    <3>1. PICK x : history' = [history EXCEPT !.edited = x]
      BY <1>2 DEF Store!EditSource
    <3>2. QED
      BY <1>2, <3>1 DEF Store!EditSource, StoreInv, StoreTypes, HistoryType
  <2>3. QED
    BY <2>1, <2>2, SealKept DEF StoreInv
<1>3. CASE Store!Read
  <2>1. UNCHANGED <<source, document, stored, importer, history>>
    BY <1>3 DEF Store!Read, Store!Freeze, Store!Verify, Store!ReadManifest,
       Store!CheckItem, Store!OpenLock, Store!WriteLock, Store!EndVerify, Store!Report,
       Store!ReaderCrash, Store!ReaderFails
  <2>2. StoreTypes' /\ Alone' /\ Repairable'
    BY <2>1, ReadersKeepTheStore
  <2>3. QED
    BY <1>3, <2>2, ReadersKeepTheSeal DEF StoreInv
<1>4. CASE UNCHANGED storeVars
  BY <1>4, ReadersKeepTheStore, SealKept DEF StoreInv, storeVars
<1>5. QED
  BY <1>1, <1>2, <1>3, <1>4 DEF Store!Next

(* When nothing is in hand and every interrupted import has been repeated, *)
(* no copy is under way and none is owed.                                  *)
LEMMA StoreInvSuffices ==
  ASSUME StoreInv
  PROVE  Store!RepairedByRepeating /\ Store!SealCoversHoldout
<1>1. Store!RepairedByRepeating
  <2> SUFFICES ASSUME Store!IsWhole(document), Store!Active = {},
                      history.interrupted = {}, Sound,
                      NEW i \in document.items
               PROVE  Store!Loads(i)
    BY DEF Store!RepairedByRepeating, Sound
  <2>1. i \in Known
    BY DEF Known
  <2>2. ~BeingCopied(i) /\ ~Owed(i)
    BY DEF BeingCopied, Owed
  <2>3. QED
    BY <2>1, <2>2 DEF StoreInv, Repairable
<1>2. Store!SealCoversHoldout
  BY DEF StoreInv, Sealed, Store!SealCoversHoldout
<1>3. QED
  BY <1>1, <1>2

(* StoreRecovers: an import that was killed is undone by repeating it to   *)
(* its end (import_corpus), and verify_holdout passes no holdout with an   *)
(* item that was not frozen, whatever was imported, killed, edited or      *)
(* frozen before.                                                          *)
THEOREM StoreRecoversHolds == AnySpec => []StoreRecovers
<1> DEFINE Inv == which = "store" => StoreInv
<1>1. AnyInit => Inv
  BY InitStoreInv DEF AnyInit
<1>2. ASSUME Inv, [AnyNext]_<<which, vars, manifestVars, storeVars>> PROVE Inv'
  <2> SUFFICES ASSUME which' = "store" PROVE StoreInv'
    OBVIOUS
  <2>1. CASE which = "writers" /\ Next /\ UNCHANGED <<which, manifestVars, storeVars>>
    BY <2>1
  <2>2. CASE which = "run" /\ RunNext /\ UNCHANGED <<which, vars, storeVars>>
    BY <2>2
  <2>3. CASE which = "store" /\ Store!Next
    BY <1>2, <2>3, NextStoreInv
  <2>4. CASE UNCHANGED <<which, vars, manifestVars, storeVars>>
    <3>1. which = "store" /\ UNCHANGED storeVars
      BY <2>4
    <3>2. QED
      BY <1>2, <3>1, NextStoreInv
  <2>5. QED
    BY <1>2, <2>1, <2>2, <2>3, <2>4 DEF AnyNext
<1>3. Inv => StoreRecovers
  BY StoreInvSuffices DEF StoreRecovers
<1>4. QED
  BY <1>1, <1>2, <1>3, PTL DEF AnySpec

(* The same of the store's own specification.                              *)
THEOREM StoreIsRepaired ==
  Store!Spec => [](Store!RepairedByRepeating /\ Store!SealCoversHoldout)
<1>1. Store!Init => StoreInv
  BY InitStoreInv
<1>2. StoreInv /\ [Store!Next]_storeVars => StoreInv'
  BY NextStoreInv
<1>3. Store!Spec => Store!Init /\ [][Store!Next]_storeVars
  BY DEF Store!Spec, Store!vars, storeVars
<1>4. QED
  BY <1>1, <1>2, <1>3, StoreInvSuffices, PTL
================================================================================
