----------------------------- MODULE EvidenceImport -----------------------------
(***************************************************************************)
(* The importers of a first score (import-clue-jls2-public-validation.py   *)
(* and its -v2): they verify a downloaded evidence directory, copy it      *)
(* beside its destination, verify the copy, write a receipt under a        *)
(* temporary name, and rename both into place.                             *)
(*                                                                         *)
(* Of the evidence a version is kept: that of its files and that of the    *)
(* SHA256SUMS that lists them, which differ while somebody seals it anew.  *)
(* Importers may overlap, fail at any step, and be killed at any step.     *)
(* The temporary receipt has one name for all of them; open files outlive  *)
(* a rename, so a file is known by the importer that created it.           *)
(***************************************************************************)
EXTENDS Naturals

CONSTANTS Importers, None, Torn, MaxSeals, MaxFaults

(* What the constants must be. *)
ImportAssumption ==
  /\ MaxSeals \in Nat /\ MaxFaults \in Nat
  /\ None \notin Importers /\ Torn # None
  /\ None \notin [files : Nat \cup {None}, sums : Nat \cup {None}]

VARIABLES
  files,    \* version of the files of the evidence directory
  sums,     \* version its SHA256SUMS lists
  pc,       \* where each importer is
  verified, \* what validate_evidence returned for the evidence
  staging,  \* each importer's copy, by part; None when there is none
  output,   \* the imported evidence, or None
  temp,     \* the file called .<receipt>.tmp, or None
  receipt,  \* the file that is the import receipt, or None
  text,     \* what each file holds
  open,     \* the file each importer has open for writing
  faults,   \* failures and kills so far
  disturbed \* the evidence was sealed anew while an importer ran

importVars == <<files, sums, pc, verified, staging, output, temp, receipt,
                text, open, faults, disturbed>>

Ended == {"idle", "refused", "failed", "killed", "done"}

ImportInit ==
  /\ files = 1 /\ sums = 1
  /\ pc = [i \in Importers |-> "idle"]
  /\ verified = [i \in Importers |-> [count |-> 1, sums |-> 1]]
  /\ staging = [i \in Importers |-> None]
  /\ output = None /\ temp = None /\ receipt = None
  /\ text = [i \in Importers |-> Torn] /\ open = [i \in Importers |-> None]
  /\ faults = 0 /\ disturbed = FALSE

Goes(i, from, to) == pc[i] = from /\ pc' = [pc EXCEPT ![i] = to]
------------------------------------------------------------------------------
(* Somebody replaces the evidence, and seals it in a second step. *)
Replaced ==
  /\ files = sums /\ files <= MaxSeals
  /\ files' = files + 1 /\ UNCHANGED sums

Sealed == files # sums /\ sums' = files /\ UNCHANGED files

Seal ==
  /\ Replaced \/ Sealed
  /\ disturbed' = (disturbed \/ \E i \in Importers : pc[i] \notin Ended)
  /\ UNCHANGED <<pc, verified, staging, output, temp, receipt, text, open, faults>>

(* Neither the destination nor the receipt may be there. *)
Check(i) ==
  /\ Goes(i, "idle", IF output # None \/ receipt # None THEN "refused" ELSE "validate")
  /\ UNCHANGED <<files, sums, verified, staging, output, temp, receipt, text,
                 open, faults, disturbed>>

(* validate_evidence of the source: every listed digest, then the content. *)
Validate(i) ==
  /\ Goes(i, "validate", IF files = sums THEN "digest" ELSE "refused")
  /\ verified' = [verified EXCEPT ![i].count = sums]
  /\ UNCHANGED <<files, sums, staging, output, temp, receipt, text, open,
                 faults, disturbed>>

(* It hashes SHA256SUMS once more for its caller; mkdtemp. *)
Digest(i) ==
  /\ Goes(i, "digest", "pending")
  /\ verified' = [verified EXCEPT ![i].sums = sums]
  /\ staging' = [staging EXCEPT ![i] = [files |-> None, sums |-> None]]
  /\ UNCHANGED <<files, sums, output, temp, receipt, text, open, faults, disturbed>>

Pending(i) ==
  /\ Goes(i, "pending", IF temp # None THEN "refused" ELSE "copy")
  /\ staging' = IF temp # None THEN [staging EXCEPT ![i] = None] ELSE staging
  /\ UNCHANGED <<files, sums, verified, output, temp, receipt, text, open,
                 faults, disturbed>>

(* copytree, in any order. *)
Copy(i, part) ==
  /\ pc[i] = "copy" /\ staging[i][part] = None
  /\ staging' = [staging EXCEPT ![i][part] = IF part = "files" THEN files ELSE sums]
  /\ UNCHANGED <<files, sums, pc, verified, output, temp, receipt, text, open,
                 faults, disturbed>>

Valid(copy) == copy.files = copy.sums

Revalidate(i) ==
  /\ pc[i] = "copy" /\ None \notin {staging[i].files, staging[i].sums}
  /\ Goes(i, "copy", IF Valid(staging[i]) /\ staging[i].sums = verified[i].sums
                     THEN "open" ELSE "cleanup")
  /\ UNCHANGED <<files, sums, verified, staging, output, temp, receipt, text,
                 open, faults, disturbed>>

(* write_text of the temporary receipt truncates whatever has its name. *)
OpenReceipt(i) ==
  /\ Goes(i, "open", "write")
  /\ LET file == IF temp = None THEN i ELSE temp
     IN  /\ temp' = file
         /\ open' = [open EXCEPT ![i] = file]
         /\ text' = [text EXCEPT ![file] = Torn]
  /\ UNCHANGED <<files, sums, verified, staging, output, receipt, faults, disturbed>>

WriteReceipt(i) ==
  /\ Goes(i, "write", "install")
  /\ text' = [text EXCEPT ![open[i]] = verified[i]]
  /\ open' = [open EXCEPT ![i] = None]
  /\ UNCHANGED <<files, sums, verified, staging, output, temp, receipt, faults, disturbed>>

(* staging.rename(output) fails on a directory that is not empty. *)
Install(i) ==
  /\ Goes(i, "install", IF output = None THEN "replace" ELSE "cleanup")
  /\ IF output = None
     THEN output' = staging[i] /\ staging' = [staging EXCEPT ![i] = None]
     ELSE UNCHANGED <<output, staging>>
  /\ UNCHANGED <<files, sums, verified, temp, receipt, text, open, faults, disturbed>>

(* temporary_receipt.replace(import_receipt); another importer's cleanup   *)
(* may have removed the file.                                              *)
Replace(i) ==
  /\ Goes(i, "replace", IF temp = None THEN "rollback" ELSE "done")
  /\ receipt' = IF temp = None THEN receipt ELSE temp
  /\ temp' = None
  /\ UNCHANGED <<files, sums, verified, staging, output, text, open, faults, disturbed>>

(* Mutant: the output stays when its receipt could not be put in place. *)
NoRollback(i) ==
  /\ Goes(i, "rollback", "cleanup")
  /\ UNCHANGED <<files, sums, verified, staging, output, temp, receipt, text,
                 open, faults, disturbed>>

Rollback(i) ==
  /\ Goes(i, "rollback", "cleanup")
  /\ staging' = [staging EXCEPT ![i] = output]
  /\ output' = None
  /\ UNCHANGED <<files, sums, verified, temp, receipt, text, open, faults, disturbed>>

Cleanup(i) ==
  /\ Goes(i, "cleanup", "unlink")
  /\ staging' = [staging EXCEPT ![i] = None]
  /\ UNCHANGED <<files, sums, verified, output, temp, receipt, text, open,
                 faults, disturbed>>

Unlink(i) ==
  /\ Goes(i, "unlink", "failed")
  /\ temp' = None
  /\ UNCHANGED <<files, sums, verified, staging, output, receipt, text, open,
                 faults, disturbed>>

(* An operation of the try block fails; the rename of the receipt has its  *)
(* own handler.                                                            *)
Fails(i) ==
  /\ pc[i] \in {"copy", "open", "write", "install", "replace"}
  /\ faults < MaxFaults
  /\ pc' = [pc EXCEPT ![i] = IF @ = "replace" THEN "rollback" ELSE "cleanup"]
  /\ open' = [open EXCEPT ![i] = None]
  /\ faults' = faults + 1
  /\ UNCHANGED <<files, sums, verified, staging, output, temp, receipt, text, disturbed>>

Kill(i) ==
  /\ pc[i] \notin Ended /\ faults < MaxFaults
  /\ pc' = [pc EXCEPT ![i] = "killed"]
  /\ open' = [open EXCEPT ![i] = None]
  /\ faults' = faults + 1
  /\ UNCHANGED <<files, sums, verified, staging, output, temp, receipt, text, disturbed>>

Import(i) ==
  \/ Check(i) \/ Validate(i) \/ Digest(i) \/ Pending(i)
  \/ (\E part \in {"files", "sums"} : Copy(i, part)) \/ Revalidate(i)
  \/ OpenReceipt(i) \/ WriteReceipt(i) \/ Install(i) \/ Replace(i)
  \/ Rollback(i) \/ Cleanup(i) \/ Unlink(i) \/ Fails(i) \/ Kill(i)

ImportNext == Seal \/ \E i \in Importers : Import(i)

ImportSpec == ImportInit /\ [][ImportNext]_importVars
------------------------------------------------------------------------------
(* Import receipt and imported evidence come as a pair.  A receipt that    *)
(* can be read stands for evidence that is in place and whole, and, if the *)
(* evidence did not change under the importers, for just that evidence;    *)
(* and when all importers have ended and none was killed, there are both   *)
(* or neither, and nothing temporary, however they overlapped and failed.  *)
ImportIsWhole ==
  /\ receipt # None /\ text[receipt] # Torn =>
       /\ output # None /\ Valid(output)
       /\ ~disturbed => text[receipt] = [count |-> output.files, sums |-> output.sums]
  /\ (\A i \in Importers : pc[i] \in Ended \ {"killed"}) =>
       /\ \A i \in Importers : staging[i] = None
       /\ temp = None
       /\ output # None <=> receipt # None
==============================================================================
