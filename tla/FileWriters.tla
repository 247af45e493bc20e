----------------------------- MODULE FileWriters -----------------------------
(***************************************************************************)
(* The five ways a compression-lab call turns a temporary file into its    *)
(* destination, run concurrently against one destination path:             *)
(*                                                                         *)
(*   api     api._atomic_write: looks at the destination first, writes,    *)
(*           fsyncs, then os.replace or os.link + unlink                   *)
(*   jls2c   json_log_codec.compress_file: mkstemp first, no fsync, and a  *)
(*           stat of the destination after publication                     *)
(*   jls2d   json_log_codec.decompress_file: mkstemp, then a stat of the   *)
(*           source that the cleanup handler does not cover; a stat of the *)
(*           source again after publication                                *)
(*   tbl1    tabular_transform.compress_stream / decompress_stream: always *)
(*           os.replace                                                    *)
(*   rust    clab-jls2 decompress: looks first, rename or hard_link +      *)
(*           remove_file, cleanup by Drop                                  *)
(*                                                                         *)
(* A file is named by the call that created it: dest = w says that the     *)
(* destination name and w's temporary name refer (or referred) to the same *)
(* inode, which is what os.link and os.replace make true.                  *)
(***************************************************************************)
EXTENDS Naturals, FiniteSets

CONSTANTS
  Writers,      \* the concurrent calls
  None,         \* no file
  Old,          \* the file that was at the destination before
  MaxRemovals,  \* bound: how often the destination is deleted by its owner
  MaxFaults     \* bound: how often an unlink fails

ASSUME FileWritersAssumption ==
  /\ IsFiniteSet(Writers)
  /\ None \notin Writers /\ Old \notin Writers
  /\ None # Old
  /\ MaxRemovals \in Nat /\ MaxFaults \in Nat

Protocols == {"api", "jls2c", "jls2d", "tbl1", "rust"}

VARIABLES
  proto,      \* proto[w]: the entry point w runs
  overwrite,  \* overwrite[w]: its overwrite argument (--force); tbl1 has
              \* none and always replaces
  pc,         \* pc[w]: where w is
  temp,       \* temp[w]: w's temporary name exists
  content,    \* content[w]: what the inode w created holds
  synced,     \* synced[w]: that inode was fsynced
  dest,       \* what the destination name refers to
  published,  \* history: the calls that ever owned the destination name
  removals,   \* how often the destination was deleted
  faults,     \* how often an unlink of a temporary name failed
  powerLost   \* the machine lost power

vars == <<proto, overwrite, pc, temp, content, synced, dest, published,
          removals, faults, powerLost>>

Terminal == {"ok", "error", "dead"}
Phases == {"check", "create", "stat", "write", "sync", "publish", "unlink",
           "report", "cleanup"} \cup Terminal
Contents == {"absent", "empty", "partial", "complete", "lost"}

(* The calls that look for the destination before they start. *)
LooksFirst(w) == proto[w] \in {"api", "rust"}

(* The calls that read a file size after the destination is published. *)
StatsAfterwards(w) == proto[w] \in {"jls2c", "jls2d"}

Init ==
  /\ proto \in [Writers -> Protocols]
  /\ overwrite \in [Writers -> BOOLEAN]
  /\ \A w \in Writers : proto[w] = "tbl1" => overwrite[w]
  /\ pc = [w \in Writers |-> IF LooksFirst(w) THEN "check" ELSE "create"]
  /\ temp = [w \in Writers |-> FALSE]
  /\ content = [w \in Writers |-> "absent"]
  /\ synced = [w \in Writers |-> FALSE]
  /\ dest \in {None, Old}
  /\ published = {}
  /\ removals = 0
  /\ faults = 0
  /\ powerLost = FALSE

Goto(w, phase) == pc' = [pc EXCEPT ![w] = phase]

args == <<proto, overwrite>>
files == <<temp, content, synced>>
name == <<dest, published>>
world == <<removals, faults, powerLost>>
------------------------------------------------------------------------------
(* if destination.exists() and not overwrite: raise FileExistsError *)
CheckDestination(w) ==
  /\ pc[w] = "check"
  /\ Goto(w, IF dest # None /\ ~overwrite[w] THEN "error" ELSE "create")
  /\ UNCHANGED <<args, files, name, world>>

(* mkstemp / NamedTemporaryFile / create_new in the destination directory. *)
CreateTemp(w) ==
  /\ pc[w] = "create"
  /\ temp' = [temp EXCEPT ![w] = TRUE]
  /\ content' = [content EXCEPT ![w] = "empty"]
  /\ Goto(w, IF proto[w] = "jls2d" THEN "stat" ELSE "write")
  /\ UNCHANGED <<args, synced, name, world>>

(* The source cannot be read (api, rust, tbl1 read or stat it before this  *)
(* point) or no temporary file can be made.                                *)
CreateFails(w) ==
  /\ pc[w] = "create"
  /\ Goto(w, "error")
  /\ UNCHANGED <<args, files, name, world>>

(* encoded_size = source_path.stat().st_size, ahead of the try block. *)
StatSource(w) ==
  /\ pc[w] = "stat"
  /\ Goto(w, "write")
  /\ UNCHANGED <<args, files, name, world>>

(* The source is missing: the exception leaves the call before any handler *)
(* that would unlink the temporary file is in place.                       *)
StatSourceFails(w) ==
  /\ pc[w] = "stat"
  /\ Goto(w, "error")
  /\ UNCHANGED <<args, files, name, world>>

(* One of the writes that do not finish the output. *)
WriteSome(w) ==
  /\ pc[w] = "write" /\ content[w] = "empty"
  /\ content' = [content EXCEPT ![w] = "partial"]
  /\ UNCHANGED <<args, pc, temp, synced, name, world>>

(* The last write: the patched header, or the last restored segment, after *)
(* which every size and digest check has passed.                           *)
WriteRest(w) ==
  /\ pc[w] = "write"
  /\ content' = [content EXCEPT ![w] = "complete"]
  /\ Goto(w, IF proto[w] = "api" THEN "sync" ELSE "publish")
  /\ UNCHANGED <<args, temp, synced, name, world>>

(* A codec error, a failed check, a full disk: control goes to the handler *)
(* (except BaseException, finally, Drop).                                  *)
WriteFails(w) ==
  /\ pc[w] \in {"write", "sync"}
  /\ Goto(w, "cleanup")
  /\ UNCHANGED <<args, files, name, world>>

(* Mutant: the flush reaches the operating system but not the disk. *)
FlushOnly(w) ==
  /\ pc[w] = "sync"
  /\ Goto(w, "publish")
  /\ UNCHANGED <<args, files, name, world>>

(* os.fsync(handle.fileno()) *)
Sync(w) ==
  /\ pc[w] = "sync"
  /\ synced' = [synced EXCEPT ![w] = TRUE]
  /\ Goto(w, "publish")
  /\ UNCHANGED <<args, temp, content, name, world>>
------------------------------------------------------------------------------
(* Mutant: _atomic_write does not forget the temporary name it renamed. *)
CleansUpAfterwards(w) ==
  IF StatsAfterwards(w) THEN "report"
  ELSE IF proto[w] = "api" THEN "cleanup" ELSE "ok"

(* What follows a publication that went through. *)
AfterPublication(w) == IF StatsAfterwards(w) THEN "report" ELSE "ok"

(* os.replace / fs::rename: the temporary name becomes the destination. *)
Replace(w) ==
  /\ pc[w] = "publish" /\ overwrite[w]
  /\ dest' = w
  /\ published' = published \cup {w}
  /\ temp' = [temp EXCEPT ![w] = FALSE]
  /\ Goto(w, AfterPublication(w))
  /\ UNCHANGED <<args, content, synced, world>>

ReplaceFails(w) ==
  /\ pc[w] = "publish" /\ overwrite[w]
  /\ Goto(w, "cleanup")
  /\ UNCHANGED <<args, files, name, world>>

(* Mutant: os.rename in the place of os.link. *)
LinkByRename(w) ==
  /\ pc[w] = "publish" /\ ~overwrite[w]
  /\ dest' = w
  /\ published' = published \cup {w}
  /\ Goto(w, "unlink")
  /\ UNCHANGED <<args, files, world>>

(* os.link / fs::hard_link: an atomic create-if-absent. *)
Link(w) ==
  /\ pc[w] = "publish" /\ ~overwrite[w]
  /\ dest = None
  /\ dest' = w
  /\ published' = published \cup {w}
  /\ Goto(w, "unlink")
  /\ UNCHANGED <<args, files, world>>

(* FileExistsError, or a file system that cannot link. *)
LinkFails(w) ==
  /\ pc[w] = "publish" /\ ~overwrite[w]
  /\ Goto(w, "cleanup")
  /\ UNCHANGED <<args, files, name, world>>

(* The second name of the published inode goes. *)
UnlinkTemp(w) ==
  /\ pc[w] = "unlink"
  /\ temp' = [temp EXCEPT ![w] = FALSE]
  /\ Goto(w, AfterPublication(w))
  /\ UNCHANGED <<args, content, synced, name, world>>

(* The unlink raises after the destination is already published; the       *)
(* handler then tries to remove the temporary name once more.              *)
UnlinkTempFails(w) ==
  /\ pc[w] = "unlink" /\ faults < MaxFaults
  /\ faults' = faults + 1
  /\ Goto(w, "cleanup")
  /\ UNCHANGED <<args, files, name, removals, powerLost>>

(* destination_path.stat() / source_path.stat() for the returned sizes;    *)
(* neither is inside the try block.  compress_file's stat fails exactly    *)
(* when the destination is gone, decompress_file's when its source is.     *)
Report(w) ==
  /\ pc[w] = "report"
  /\ proto[w] = "jls2c" => dest # None
  /\ Goto(w, "ok")
  /\ UNCHANGED <<args, files, name, world>>

ReportFails(w) ==
  /\ pc[w] = "report"
  /\ proto[w] = "jls2c" => dest = None
  /\ Goto(w, "error")
  /\ UNCHANGED <<args, files, name, world>>

(* Mutant: the handler raises without unlinking. *)
RaiseOnly(w) ==
  /\ pc[w] = "cleanup"
  /\ Goto(w, "error")
  /\ UNCHANGED <<args, files, name, world>>

(* temporary_path.unlink(missing_ok=True); raise *)
Cleanup(w) ==
  /\ pc[w] = "cleanup"
  /\ temp' = [temp EXCEPT ![w] = FALSE]
  /\ Goto(w, "error")
  /\ UNCHANGED <<args, content, synced, name, world>>

(* That unlink fails too; the Rust Drop ignores it, the others raise. *)
CleanupFails(w) ==
  /\ pc[w] = "cleanup" /\ faults < MaxFaults
  /\ faults' = faults + 1
  /\ Goto(w, "error")
  /\ UNCHANGED <<args, files, name, removals, powerLost>>
------------------------------------------------------------------------------
(* SIGKILL, abort on panic (the release profile of the Rust binary), or an *)
(* interpreter that dies: no handler runs.                                 *)
Kill(w) ==
  /\ pc[w] \notin Terminal
  /\ Goto(w, "dead")
  /\ UNCHANGED <<args, files, name, world>>

(* The owner of the directory deletes the destination. *)
RemoveDestination ==
  /\ dest # None /\ removals < MaxRemovals /\ ~powerLost
  /\ dest' = None
  /\ removals' = removals + 1
  /\ UNCHANGED <<args, pc, files, published, faults, powerLost>>

(* Power fails: every call ends, and any set of inodes that were never     *)
(* fsynced comes back without the data written to them.  Names are assumed *)
(* to be journalled.                                                       *)
PowerLoss ==
  /\ ~powerLost
  /\ powerLost' = TRUE
  /\ pc' = [w \in Writers |-> IF pc[w] \in Terminal THEN pc[w] ELSE "dead"]
  /\ \E gone \in SUBSET {w \in Writers : ~synced[w]} :
       content' = [w \in Writers |->
                     IF w \in gone /\ content[w] # "absent"
                     THEN "lost" ELSE content[w]]
  /\ UNCHANGED <<args, temp, synced, name, removals, faults>>

Step(w) ==
  \/ CheckDestination(w) \/ CreateTemp(w) \/ CreateFails(w)
  \/ StatSource(w) \/ StatSourceFails(w)
  \/ WriteSome(w) \/ WriteRest(w) \/ WriteFails(w) \/ Sync(w)
  \/ Replace(w) \/ ReplaceFails(w) \/ Link(w) \/ LinkFails(w)
  \/ UnlinkTemp(w) \/ UnlinkTempFails(w) \/ Report(w) \/ ReportFails(w)
  \/ Cleanup(w) \/ CleanupFails(w) \/ Kill(w)

Next == RemoveDestination \/ PowerLoss \/ \E w \in Writers : Step(w)

Spec == Init /\ [][Next]_vars
------------------------------------------------------------------------------
TypeOK ==
  /\ proto \in [Writers -> Protocols]
  /\ overwrite \in [Writers -> BOOLEAN]
  /\ pc \in [Writers -> Phases]
  /\ temp \in [Writers -> BOOLEAN]
  /\ content \in [Writers -> Contents]
  /\ synced \in [Writers -> BOOLEAN]
  /\ dest \in Writers \cup {None, Old}
  /\ published \subseteq Writers
  /\ removals \in Nat /\ faults \in Nat
  /\ powerLost \in BOOLEAN
------------------------------------------------------------------------------
(* The destination never shows anything but the complete output of one     *)
(* call (or the file that was there), whatever fails or dies; only a loss  *)
(* of power can damage it, and never one that _atomic_write published,     *)
(* which fsyncs before it publishes.                                       *)
DestinationComplete ==
  dest \in Writers =>
    \/ content[dest] = "complete"
    \/ content[dest] = "lost" /\ powerLost /\ proto[dest] # "api"

(* A call without overwrite never takes the name away from another file,   *)
(* even when the file appeared between its exists() check and the link.    *)
NoClobber ==
  [][dest' # dest /\ dest # None /\ dest' # None => overwrite[dest']]_vars

(* Each time the name is free, at most one of the calls that may not       *)
(* overwrite gets it: test_no_clobber_write_is_atomic_under_contention.    *)
OneWinner ==
  Cardinality({w \in published : ~overwrite[w]}) <= removals + 1

(* A call that ends, normally or by an exception, leaves no temporary file *)
(* behind, except when the unlink itself failed or when decompress_file    *)
(* could not stat its source after it had made the temporary file.         *)
NoResidue ==
  LET left == {w \in Writers : pc[w] \in {"ok", "error"} /\ temp[w]}
      unhandled == {w \in left : /\ proto[w] = "jls2d"
                                 /\ content[w] \in {"empty", "lost"}}
  IN  Cardinality(left \ unhandled) <= faults

(* An exception means that the destination was left alone, for every call  *)
(* that replaces and does not stat a file after the replace.               *)
FailureIsClean ==
  \A w \in Writers :
    pc[w] = "error" /\ w \in published => ~overwrite[w] \/ StatsAfterwards(w)

(* Only these steps change what the destination name refers to. *)
Abstract == INSTANCE PublishOnce
ImplementsPublishOnce == Abstract!AbsSpec
==============================================================================
