----------------------------- MODULE CorpusStore -----------------------------
(***************************************************************************)
(* The private corpus on disk (corpus.py): import_corpus copies source     *)
(* files and rewrites manifest.json, freeze_holdout writes the commitment  *)
(* to the holdout split, verify_holdout compares it.  Importers run as     *)
(* separate processes; any of them may be killed between two steps, and    *)
(* source files may be edited.                                             *)
(*                                                                         *)
(* A content is its digest.  All imports name one dataset and category, so *)
(* that an item is named by the slug of its relative path and its digest,  *)
(* and stored by split, digest and the slug of its file name.              *)
(***************************************************************************)
EXTENDS Naturals, FiniteSets

CONSTANTS Importers,
          Relatives,             \* relative paths of source files
          Slug, Name,            \* of a relative path, of its last part
          Rank,                  \* of a relative path in the sorted listing
          Digests, Size,
          Contents,              \* what the source files may hold at first
          Requests,              \* what imports are asked for: [split, files]
          Absent, Torn,          \* a file that is not there, or half written
          MaxImports, MaxCrashes, MaxEdits, MaxReads

Splits == {r.split : r \in Requests}
Paths == Splits \X {Name[f] : f \in Relatives} \X Digests

(* An entry of manifest["items"]. *)
ItemType ==
  [id : {Slug[f] : f \in Relatives} \X Digests, path : Paths, split : Splits,
   digest : Digests, size : Nat]

StoreAssumption ==
  /\ Contents \subseteq [Relatives -> Digests]
  /\ Size \in [Digests -> Nat]
  /\ \A r \in Requests : r.files \subseteq Relatives /\ r.files # {}
  /\ {Absent, Torn} \cap Digests = {} /\ Absent # Torn
  /\ \A none \in {Absent, Torn} : none \notin [items : SUBSET ItemType]
  /\ Rank \in [Relatives -> Nat]
  /\ \A f, g \in Relatives : Rank[f] = Rank[g] => f = g

VARIABLES
  source,      \* what each source file holds
  manifest,    \* manifest.json: Absent, Torn or [items |-> ...]
  stored,      \* what each stored path holds
  lock,        \* the holdout lock: Absent, Torn or [items |-> ...]
  importer,    \* each importer's locals
  reader,      \* the process that freezes or verifies the holdout
  used,        \* imports, crashes, edits and reads so far
  history      \* what the properties remember

vars == <<source, manifest, stored, lock, importer, reader, used, history>>

Id(f, d) == <<Slug[f], d>>
StoredPath(split, f, d) == <<split, Name[f], d>>
Idle == [pc |-> "idle"]
Active == {p \in Importers : importer[p].pc # "idle"}
IsWhole(document) == document \notin {Absent, Torn}
Use(counter) == used' = [used EXCEPT ![counter] = @ + 1]

Init ==
  /\ source \in Contents
  /\ manifest = Absent /\ lock = Absent
  /\ stored = [path \in Paths |-> Absent]
  /\ importer = [p \in Importers |-> Idle]
  /\ reader = Idle
  /\ used = [imports |-> 0, crashes |-> 0, edits |-> 0, reads |-> 0]
  /\ history = [overlapped |-> FALSE, edited |-> FALSE,
                crossed |-> FALSE, interrupted |-> {}, imported |-> {}]
------------------------------------------------------------------------------
(* Two requests name files that have one id but are stored at two places,  *)
(* of two splits or under two names ("a/x" and "a-x" have one slug).       *)
Crosses(r1, r2) ==
  r1 # r2 /\ \E f \in r1.files, g \in r2.files :
    Slug[f] = Slug[g] /\ (r1.split # r2.split \/ Name[f] # Name[g])

(* An import reads the manifest before anything else; a torn one, which is *)
(* not JSON, ends it.                                                      *)
Start(p) ==
  \E r \in Requests :
    /\ importer[p].pc = "idle" /\ used.imports < MaxImports
    /\ manifest # Torn
    /\ importer' = [importer EXCEPT ![p] =
         [pc |-> "next", request |-> r, todo |-> r.files,
          items |-> IF manifest = Absent THEN {} ELSE manifest.items]]
    /\ history' = [history EXCEPT
         !.overlapped = @ \/ Active # {},
         !.crossed = @ \/ \E i \in history.interrupted : Crosses(i, r)]
    /\ Use("imports")
    /\ UNCHANGED <<source, manifest, stored, lock, reader>>

(* What the manifest says of a file with the digest d whose copy holds c.  *)
Item(p, f, d, c) ==
  [id |-> Id(f, d), path |-> StoredPath(importer[p].request.split, f, d),
   split |-> importer[p].request.split, digest |-> d,
   size |-> IF c \in Digests THEN Size[c] ELSE 0]

(* existing_ids, with those of the items this import has appended *)
ExistingIds(p) == {i.id : i \in importer[p].items}

(* The candidates in their order: what the import p looks at next, while   *)
(* it is between two files.                                                *)
NextFile(p) ==
  IF importer[p].pc # "next" THEN {}
  ELSE {f \in importer[p].todo : \A g \in importer[p].todo : Rank[f] <= Rank[g]}

(* An item of that id is not imported again. *)
Skip(p) ==
  \E f \in NextFile(p) :
    /\ Id(f, source[f]) \in ExistingIds(p)
    /\ importer' = [importer EXCEPT ![p].todo = @ \ {f}]
    /\ UNCHANGED <<source, manifest, stored, lock, reader, used, history>>

(* Mutant: a stored file that is there is not copied again. *)
OpenCopyOnce(p) ==
  \E f \in NextFile(p) :
    LET d == source[f]
        path == StoredPath(importer[p].request.split, f, d)
    IN  /\ Id(f, d) \notin ExistingIds(p)
        /\ stored' = [stored EXCEPT ![path] = IF @ = Absent THEN Torn ELSE @]
        /\ importer' = [importer EXCEPT ![p] =
             [pc |-> IF stored[path] = Absent THEN "copy" ELSE "next",
              request |-> @.request, todo |-> @.todo \ {f},
              items |-> IF stored[path] = Absent THEN @.items
                        ELSE @.items \cup {Item(p, f, d, stored[path])},
              file |-> f, digest |-> d]]
        /\ UNCHANGED <<source, manifest, lock, reader, used, history>>

(* Any other is hashed, and copyfile truncates the stored file, which may  *)
(* be an earlier item's ...                                                *)
OpenCopy(p) ==
  \E f \in NextFile(p) :
    LET d == source[f] IN
    /\ Id(f, d) \notin ExistingIds(p)
    /\ stored' = [stored EXCEPT ![StoredPath(importer[p].request.split, f, d)] = Torn]
    /\ importer' = [importer EXCEPT ![p] =
         [pc |-> "copy", request |-> @.request, todo |-> @.todo \ {f},
          items |-> @.items, file |-> f, digest |-> d]]
    /\ UNCHANGED <<source, manifest, lock, reader, used, history>>

(* ... writes what the source holds by then, and the item gets its size.   *)
Copy(p) ==
  LET f == importer[p].file
      d == importer[p].digest
  IN  /\ importer[p].pc = "copy"
      /\ stored' = [stored EXCEPT
                      ![StoredPath(importer[p].request.split, f, d)] = source[f]]
      /\ importer' = [importer EXCEPT ![p] =
           [pc |-> "next", request |-> @.request, todo |-> @.todo,
            items |-> @.items \cup {Item(p, f, d, source[f])}]]
      /\ UNCHANGED <<source, manifest, lock, reader, used, history>>

(* write_text truncates the manifest and then writes it. *)
OpenManifest(p) ==
  /\ importer[p].pc = "next" /\ importer[p].todo = {}
  /\ manifest' = Torn
  /\ importer' = [importer EXCEPT ![p].pc = "write"]
  /\ UNCHANGED <<source, stored, lock, reader, used, history>>

WriteManifest(p) ==
  /\ importer[p].pc = "write"
  /\ manifest' = [items |-> importer[p].items]
  /\ importer' = [importer EXCEPT ![p] = Idle]
  /\ history' = [history EXCEPT !.interrupted = @ \ {importer[p].request},
                                !.imported = @ \cup importer[p].items]
  /\ UNCHANGED <<source, stored, lock, reader, used>>

Crash(p) ==
  /\ importer[p].pc # "idle" /\ used.crashes < MaxCrashes
  /\ importer' = [importer EXCEPT ![p] = Idle]
  /\ history' = [history EXCEPT !.interrupted = @ \cup {importer[p].request}]
  /\ Use("crashes")
  /\ UNCHANGED <<source, manifest, stored, lock, reader>>

EditSource ==
  \E f \in Relatives : \E d \in Digests \ {source[f]} :
    /\ used.edits < MaxEdits
    /\ source' = [source EXCEPT ![f] = d]
    /\ history' = [history EXCEPT !.edited =
                     @ \/ Active # {} \/ history.interrupted # {}]
    /\ Use("edits")
    /\ UNCHANGED <<manifest, stored, lock, importer, reader>>
------------------------------------------------------------------------------
Loads(item) == stored[item.path] = item.digest /\ Size[item.digest] = item.size

Commitment(items) == {<<i.id, i.size, i.digest>> : i \in items}

(* freeze_holdout: the lock may be there only if it is to be overwritten.  *)
Freeze ==
  \E overwrite \in BOOLEAN :
    /\ reader.pc = "idle" /\ used.reads < MaxReads
    /\ lock = Absent \/ overwrite
    /\ reader' = [pc |-> "read", task |-> "freeze"]
    /\ Use("reads")
    /\ UNCHANGED <<source, manifest, stored, lock, importer, history>>

Verify ==
  /\ reader.pc = "idle" /\ used.reads < MaxReads
  /\ IsWhole(lock)
  /\ reader' = [pc |-> "read", task |-> "verify", expected |-> lock.items,
                due |-> Commitment({i \in history.imported : i.split = "holdout"})]
  /\ Use("reads")
  /\ UNCHANGED <<source, manifest, stored, lock, importer, history>>

ReaderFails ==
  /\ reader' = Idle
  /\ UNCHANGED <<source, manifest, stored, lock, importer, used, history>>

(* holdout_commitment loads the corpus: the manifest first ... *)
ReadManifest ==
  LET holdout == IF IsWhole(manifest)
                 THEN {i \in manifest.items : i.split = "holdout"} ELSE {} IN
  /\ reader.pc = "read"
  /\ IF holdout = {} THEN ReaderFails
     ELSE /\ reader' = [item \in DOMAIN reader \cup {"items", "left"} |->
                          CASE item = "pc" -> "check"
                            [] item \in {"items", "left"} -> holdout
                            [] OTHER -> reader[item]]
          /\ UNCHANGED <<source, manifest, stored, lock, importer, used, history>>

(* ... then each of its files. *)
CheckItem ==
  \E i \in IF reader.pc = "check" THEN reader.left ELSE {} :
    IF ~Loads(i) THEN ReaderFails
    ELSE /\ reader' = [reader EXCEPT !.left = @ \ {i}]
         /\ UNCHANGED <<source, manifest, stored, lock, importer, used, history>>

Checked == reader.pc = "check" /\ reader.left = {}

OpenLock ==
  /\ Checked /\ reader.task = "freeze"
  /\ lock' = Torn
  /\ reader' = [reader EXCEPT !.pc = "write"]
  /\ UNCHANGED <<source, manifest, stored, importer, used, history>>

WriteLock ==
  /\ reader.pc = "write"
  /\ lock' = [items |-> Commitment(reader.items)]
  /\ reader' = Idle
  /\ UNCHANGED <<source, manifest, stored, importer, used, history>>

(* Mutant: the frozen items must still be there; others are not looked at. *)
FrozenStillThere == reader.expected \subseteq Commitment(reader.items)

(* verify_holdout compares the whole commitments. *)
Matches == reader.expected = Commitment(reader.items)

EndVerify ==
  /\ Checked /\ reader.task = "verify"
  /\ reader' = [pc |-> "verified", verdict |-> Matches,
                expected |-> reader.expected, due |-> reader.due]
  /\ UNCHANGED <<source, manifest, stored, lock, importer, used, history>>

Report ==
  /\ reader.pc = "verified"
  /\ ReaderFails

ReaderCrash ==
  /\ reader.pc \in {"read", "check", "write"} /\ used.crashes < MaxCrashes
  /\ reader' = Idle
  /\ Use("crashes")
  /\ UNCHANGED <<source, manifest, stored, lock, importer, history>>

Import(p) ==
  \/ Start(p) \/ Skip(p) \/ OpenCopy(p) \/ Copy(p)
  \/ OpenManifest(p) \/ WriteManifest(p) \/ Crash(p)

Read ==
  \/ Freeze \/ Verify \/ ReadManifest \/ CheckItem \/ OpenLock \/ WriteLock
  \/ EndVerify \/ Report \/ ReaderCrash

Next == (\E p \in Importers : Import(p)) \/ EditSource \/ Read

Spec == Init /\ [][Next]_vars
------------------------------------------------------------------------------
(* An interrupted import is undone by running it again: when every one has *)
(* been repeated to its end, every item of the manifest loads, also those  *)
(* of earlier imports whose stored file the interrupted one truncated.     *)
(* Imports did not overlap, no source was edited under an import, and no   *)
(* file of an interrupted import was imported for another split, nor one   *)
(* of its slug under another name, before it was repeated: its id would be *)
(* found, and its copy skipped.                                            *)
RepairedByRepeating ==
  /\ IsWhole(manifest) /\ Active = {}
  /\ history.interrupted = {}
  /\ ~history.edited /\ ~history.overlapped /\ ~history.crossed
  => \A i \in manifest.items : Loads(i)

(* A holdout that verifies has nothing that was not frozen: the items that *)
(* completed imports had added when the verification began are all in the  *)
(* lock, whatever import, freeze or crash came in between.                 *)
SealCoversHoldout ==
  reader.pc = "verified" /\ reader.verdict /\ ~history.overlapped
    => reader.due \subseteq reader.expected
==============================================================================
