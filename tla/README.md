# compression-lab: verification project

TLA+ models of compression-lab, the TLC runs that check them and proofs about
them. Python paths below are relative to `src/src/compresslab/` and, where they
contain a dash, to `src/scripts/`; Rust paths to `src/native/src/`.
`PROJECT.json` maps every definition to the lines it translates.

1. [The system](#1-the-system)
2. [Modules](#2-modules)
3. [How the models relate to the code](#3-how-the-models-relate-to-the-code)
4. [Runs](#4-runs)
5. [Fairness](#5-fairness)
6. [Proofs](#6-proofs)
7. [Disagreements between code and documents](#7-disagreements-between-code-and-documents)
8. [What is not modelled](#8-what-is-not-modelled)
9. [Plan](#9-plan)

## 1. The system

compression-lab is a library and a command line of experimental lossless
codecs, two stream formats meant for use (JLS2 for JSON lines, TBL1 for
delimited tables), and a benchmark that measures codecs on a corpus whose bytes
are pinned by digests. Payload transforms are pure functions of bytes. What can
go wrong in ways a unit test hardly reaches is around them: files that must be
published whole, threads that compress segments of one stream, two readers of
one format, worker processes that hang, and evidence that must belong to the
bytes it names.

| Component | State | Operations | Hard behaviour |
|---|---|---|---|
| File publication (`api._atomic_write`, the writers in `json_log_codec.py` and `tabular_transform.py`, `bin/clab-jls2.rs`) | temporary file, destination name, whether it was fsynced | check, create, write, sync, replace or link, unlink, report, clean up | two calls on one destination, an exception or a kill between any two steps, power loss |
| JLS2 encoder (`json_log_codec.compress_file`) | deque of futures, thread pool, two digests, file position | read a segment, submit, write the oldest frame, patch the header, publish | tasks end in any order, one of them raises, bounded memory |
| JLS2 segmenter (`_segments`, `_file_segments`) | buffer, end-of-file flag | fill, cut, read on | end of file seen only by an empty read; lines longer than a segment |
| JLS2 decoder (`decompress_file`, `decompress`, `inspect`) | stream position, declared and restored sizes, deque, digests | header, next segment, restore, write, totals, publish | three readers that check in different orders must agree |
| JLS2 native decoder (`jls2.rs`) | batch, channel, reorder map, output digest | build the table, spawn a batch, receive, write, check | results in any order, a thread that panics, a writer that fails |
| TBL1 stream (`compress_stream`, `inspect_stream`, `decompress_stream`) | measured size, suspended generator with a pool, header, deque | inspect, read, submit, write, check totals, patch, replace | the source or the stream changes while it is read |
| Worker pool (`runner.py`, `worker._serve`) | processes, pipes, queues, the dictionary of workers | start, poll, send, wait, time out, close, terminate, kill | late answers, deaths between poll and write, timeouts at every wait |
| Benchmark run (`benchmark_runner.py`, `runner.run_benchmark`) | manifest digest, expected and loaded items, rows, results file | hash, load, stage, trial, write, compare | manifest and files edited between reads |
| Corpus store (`corpus.py`) | manifest, stored files, holdout lock | import, load, freeze, verify | crash in a copy, overlapping imports, sources edited after hashing |
| Moon run budget (`moon-prescreen-runner.py`, `moon-h1-decomposition-run.py`, `moon-c1-residual-diagnostic-run.py`) | `run-budget.json`, kernel receipts and clean-RSS reports of an output directory, lock file, attempt ref, published reports | read and write the ledger, run a kernel, classify it, charge, publish | ledger written after the kernel, files of an earlier sweep, power loss, one attempt for ever |
| Text/source benchmarks (`benchmark-text-source-baselines.py`, `-structural-transform.py`, `-record-neighborhood-screen.py`, `-long-range-screen.py`, `-bwt-screen.py`, `-wk-c1-screen.py`, their `publish-` and `verify-` scripts) | attempt, trial receipts, results, publication directory | bind, resume, measure, summarise, gate, publish, verify | resumed and overlapping runs, failures that leave no receipt, evidence read twice |
| Public validations and their evidence (`benchmark-clue-jls2-`, `-tbl1-`, `-dms2-`, `-jls2-public-validation*.py`, `benchmark-pbc-competitor.py`, their `evaluate-` scripts, `publish-` and `import-clue-jls2-public-validation*.py`) | an output directory with attempt, results and receipt, one result file of JLS2, the result of PBC, a decision, a publication, imported evidence and its receipt | verify, attempt, measure, prove, bind, decide, publish, copy, rename, roll back | one attempt for ever, runners that overlap, files of different attempts given to one evaluator, a second rename that fails |
| Public API and adaptive frames (`api.py`, `worker.py`, `adaptive_v3.py`, the loaders of `native.py`) | libraries loaded on first use, shared by the threads of a process | try candidates, keep the smallest, frame, inspect, decode | fallbacks, limits, versions 1 to 3, two parsers, first calls that overlap |
| Byte transforms (`json_columnar.py`, `log_transform.py`, `splice_transform.py`, `structured_text.py`, `text_source_transform.py`, the tables of `tabular_transform.py`, `lib.rs`, `jls2.rs`) | none; the reader of chunks keeps header, dictionary, half a token, a pending marker | encode, read, split and join channels, feed a chunk | two or three readers of one format, buffers of a fixed size, chunks that end anywhere |
| Gates and evidence (`gates.py`, `metrics.py`, `stability.py`, `release_evidence.py`) | none | evaluate results against thresholds | missing rows, ties, empty groups |
| Numeric tables (`dense_matrix_transform.py`, `dense_native.py`, `native-dense/src/lib.rs`) | none; the segmenter of a stream keeps what is pending | take runs apart, index, pack or code them, choose a form, cut a stream | two implementations that must write one form, threads that look up rows, an arithmetic coder, bounds only readers apply |
| Numeric AR5 transform, codec registry, CLI | none | transform bytes, parse arguments | arithmetic |
| Research kernels (`s0/`, `moon/`) | none | predict and code bytes | arithmetic |
| The other research scripts, workflows | files of an experiment | fetch, build, screen, publish | receipts and publications in further variants |

How they interact. The API and the CLI call the stream codecs; each stream
codec segments its source, hands segments to a `ThreadPoolExecutor`, takes the
results in submission order through a deque, and publishes through one of the
file protocols. `decompress_file` in Python and `decode_to_writer` in Rust read
the same streams. The benchmark loads a manifest through the corpus store,
starts one worker process per codec and talks to it by JSON lines over pipes;
the manifest-bound runner wraps the older runner and compares identities before
and after it. The research scripts meet only in files: three of them in one
ledger of kernel runs, the runs of one benchmark in its directory of receipts,
which its publisher reads and its verifier never sees, a validation in the files
its evaluator, publisher and importer pass on. Apart from files, pipes,
the pools, the channel and the libraries a process has loaded nothing is shared.

What makes each of them correct:

- *publication*: the destination is always absent, an older file or one whole
  output; without `overwrite` nothing is ever replaced; no temporary file stays;
- *encoders*: frames in source order, none lost, a header that describes
  exactly what follows, memory bounded by the pool, no task left running;
- *decoders*: the verdict depends on the stream alone, not on the schedule or
  the reader; the output stays within what was declared; the call ends;
- *worker pool*: an answer belongs to its request, no process is forgotten, a
  hanging codec does not hang the benchmark, and beside a measured operation only
  the codecs of failed ones run;
- *benchmark*: results describe the manifest whose digest they carry, which stood
  still while they were measured, valid rows the bytes it names;
- *corpus*: interrupted imports can be repaired, a verified holdout is the one
  that was frozen;
- *moon ledger*: every kernel run is counted, what the diagnostic dispatched
  stays charged through kills and power losses, it has one attempt, a cell is
  measured by its own kernel;
- *text/source benchmarks*: results come from receipts of one binding, a
  publication can be verified from itself, a failure is not measured away;
- *public validations*: a candidate passes only on what one attempt measured on
  one corpus; imported evidence is whole and comes with its receipt;
- *adaptive frames*: every frame that can be chosen is read back on every host
  that has what it needs, both parsers of frames agree, no choice makes a frame
  longer than its source and one header;
- *byte transforms*: lossless in every reader, for every source and every way of
  cutting the form into chunks; on a damaged form the readers of one format give
  the same bytes or all refuse.

## 2. Modules

```
PublishOnce <-implements- FileWriters

OrderedStream <-implements- Jls2CompressFile (EXTENDS Executor)
              <-implements- Jls2DecompressFile (EXTENDS Executor, Jls2Stream)
              <-implements- Jls2NativeDecode (EXTENDS Jls2Stream)
              <-implements- TabularDecompressStream (EXTENDS Executor, TabularStream)

Jls2RoundTrip    EXTENDS Jls2CompressFile
                 INSTANCE Jls2DecompressFile (EXTENDS Executor, Jls2Stream)
                 INSTANCE Jls2NativeDecode
TabularRoundTrip EXTENDS TabularCompressStream (EXTENDS Executor, TabularStream)
                 INSTANCE TabularDecompressStream (EXTENDS Executor, TabularStream)
MoonRuns         EXTENDS MoonSweep
TextSourcePublishers EXTENDS TextSourceTrials
AdaptiveCalls    EXTENDS AdaptiveFrame
TransformCalls   EXTENDS LogTransforms, StructuredText, ColumnTransforms,
                 SourceTransform, DenseMatrix (all EXTEND ByteStrings)
Segmenter, WorkerPool, ManifestRun, CorpusStore, PublicValidation and
EvidenceImport stand alone

Theorems about
  FileWriters, ManifestRun, CorpusStore            are in DurableFilesProofs
  Jls2RoundTrip and the three modules it joins     in Jls2Proofs
  Segmenter, AdaptiveFrame, AdaptiveCalls          in FramesProofs
  TabularRoundTrip and the two modules it joins    in TabularProofs
  WorkerPool, EvidenceImport, PublicValidation     in BenchmarksProofs
  TextSourceTrials, TextSourcePublishers, MoonRuns in ScriptRunsProofs
  ByteStrings, LogTransforms, ColumnTransforms     in TransformProofs
```

| Module | What it is |
|---|---|
| `PublishOnce` | the promise of every file-writing call: the name changes in one step to one call's whole output |
| `FileWriters` | the five file protocols step by step, any two of them on one destination |
| `OrderedStream` | the promise of every segmented codec: the output is at any time segments 1, 2, ... of the input in this order, published only when complete |
| `Executor` | `ThreadPoolExecutor` as it is used here: a FIFO of tasks, at most `workers` running, `shutdown(wait=True)` |
| `Jls2CompressFile` | the encoder of JLS2 files |
| `Segmenter` | the two ways of cutting a source at line ends, one as a function and one as a generator |
| `Jls2Stream` | a JLS2 stream as a reader finds it, and what the readers without threads make of it |
| `Jls2DecompressFile` | the decoder of JLS2 files |
| `Jls2NativeDecode` | the Rust decoder |
| `Jls2RoundTrip` | encoder, Python reader and Rust reader on one file |
| `TabularStream` | a TBL1 stream and the bounds its readers apply |
| `TabularCompressStream`, `TabularDecompressStream` | the TBL1 file encoder and decoder |
| `TabularRoundTrip` | both on one file, with a source and a stream that others change |
| `WorkerPool` | the persistent worker processes, their pool and the thread that uses it |
| `ManifestRun` | a manifest-bound benchmark run while manifest and files are edited |
| `CorpusStore` | imports, freezing and verifying of a corpus on disk |
| `MoonSweep` | `run-budget.json` and what every run that uses it keeps; the prescreen and the decomposition: kernel first, count afterwards |
| `MoonRuns` | the one-attempt diagnostic: charge first, kernel afterwards, then publication; and any runs of the three scripts, with kills, power losses and kernels left running |
| `TextSourceTrials` | the six text/source benchmarks: bindings, schedule, receipts, summary, results; how the census and the structural probe, and the four screens, bind, resume, measure, gate and finish |
| `TextSourcePublishers` | the six runners with their publishers on one directory, and the offline verifiers as predicates |
| `PublicValidation` | the runners of four suites, PBC, the evaluators and the publisher on the files they share |
| `EvidenceImport` | overlapping importers of sealed evidence: copy, verify, two renames, rollback |
| `AdaptiveFrame` | `.clab` frames of versions 1 to 3, what can be wrong with one, `inspect_frame` and the decoders |
| `AdaptiveCalls` | threads that write and read frames, the choice among candidates, and the lazily loaded libraries |
| `ByteStrings` | lines, escaped markers, numbers of variable length and their four readers |
| `LogTransforms` | LWX1, LWX2 and LWS1: lines coded against earlier lines |
| `StructuredText` | STX1: tokens and codes in one piece, as two channels, and read in chunks |
| `ColumnTransforms` | the columns of JSON records with their three readers, and of delimited rows |
| `SourceTransform` | AXTS1: bundles of files and of Wikimedia pages |
| `DenseMatrix` | DMT1, DMI1, DMP1, DMC1, DMA1, DMA2: numeric tables as indices, planes and arithmetic codes, by Python and by Rust; the selector DMS2 and the stream DSS1 |
| `TransformCalls` | a source of any of these formats, its form, damage to it, and all who read it |
| `MC*` | instances for TLC: streams with faults, manifests, requests, schedules, symmetry. `MCFrames`, `MCDurableFiles`, `MCScriptRuns` and `MCBenchmarks` put components that share nothing into one run: the initial state chooses one |
| `*Proofs` | theorems, checked by TLAPS |
| `Sums` | what the theorems need of recursive sums, of least elements, of induction and of recursion |

Mutants (operators whose comment begins with "Mutant") are plausible bugs in
the definition that follows them. No action uses them; each shows that a
property would notice.

## 3. How the models relate to the code

**Publication.** A file is named by the call that made it. `proto[w]` says which
of the five protocols call `w` runs: `api` (`_atomic_write`: look, mkstemp,
write, flush and fsync, replace or link, unlink), `jls2c` and `jls2d` (no look,
no fsync; a stat after publication, and for `jls2d` one of the source before the
`try`), `tbl1` (always replaces) and `rust` (look, create, rename or hard link,
cleanup by `Drop`). Each system call is an action with a failing twin.
`Kill` ends a call at any step, `RemoveDestination` is the owner deleting the
file, `PowerLoss` ends every call and may lose the content of any file that was not fsynced. `published`
and `removals` are history variables.

**Pools.** A task is the number of its segment. `Executor` starts tasks in the
order of submission, finishes them in any order, successfully or not, and
`AllFinished` is what leaving the `with` block waits for. The caller's thread is
a program counter; `pending` is its deque, and `future.result()` is a guard
on the oldest task. An exception sets `raised` and goes through the same
`join` the `with` block forces on it before `cleanup`.

**Streams.** A segment is a record of what its header and frame say. A digest is
the sequence that was fed to it, so that equal digests mean equal input: that
SHA-256 does not collide is assumed. `MemoryDecodes` and `InspectAccepts` are
translated from `decompress()` and `inspect()`, in the order they check, and
serve as the reference the threaded readers are compared with.

**Segmenter.** A source is a length and the set of its newline offsets.
`_file_segments` is the state machine: a buffer `start..taken`, refilled by
reads of at most `Chunk` past the target, with end of file known only after an
empty read. `_segments` is a function of the source.

**TBL1.** The source has a size that other processes may change; a chunk is the
size its reads returned. Where records end is not modelled: a full chunk is
prolonged by any number of bytes up to the slack. The generator that owns the
pool is suspended while the caller writes, and is closed by the exception path.
The decoder inspects the header in one open and walks the segments in another;
another file may take the place in between.

**Worker pool.** A pipe and the queue its reader thread fills are one sequence
of lines. A worker boots, announces itself, takes a line, works (perhaps with
an external child process), answers. A timeout may expire whenever the thing
waited for is not there. The runner's thread is a program counter through
`_PersistentWorker.run`, `close` and `_PersistentWorkerPool.run`, `close`; the
place to resume after `close()` is `then`. `Dies` ends a worker at any time.

**Benchmark run.** A manifest is a version, its items come from `Listing`. The
reads of the manifest (hash, load, stage, recheck, check) are separate actions,
with edits of manifest and files between any two; `edited` and `putBack` remember
the steps before which the manifest was edited, and before which the hashed
version came back. The names of `ManifestRun`
(`RunInit`, `RunNext`, `RunSpec`, `step`) leave those of `FileWriters` free, so
that `MCDurableFiles` can extend both.

**Corpus.** An item id is the slug of the relative path and the digest, a stored
path is split, digest and file name, so that different items can share a file,
as in the code. A write truncates first: manifest, lock and stored file pass
through `Torn`. An id test and the hashing and truncation that follow it are one
step; nothing that happens between them could be told from its happening before
or after. The size of a copy is taken with the copy, which only overlapping
imports could tell apart. An import copies its files in the order of their names
(`Rank`); `Crosses` says of two imports that they name files of one id which are stored at
two places.

**Round trips.** `turn` says who is called. When the encoder has returned, what
it published becomes the reader's stream: in JLS2 the header it wrote, with the
source as a sequence of segments; in TBL1 the chunks it read. A reader may also
be called on a stream of its own, sound or with any one fault; the two ways
share the reader's actions. In TBL1 the file may be exchanged for another
stream between the inspection and the walk.

**Moon ledger.** `ledger` is the content of `run-budget.json`, `durable` the set
of contents a power loss may leave there. A sweep reads it once, runs a kernel
per cell, writes the row and then the ledger by `write_text`, which truncates
first; the diagnostic replaces the file and syncs the directory before each of
its kernels. Report and receipt of a cell are named by the run whose kernel
wrote them, which is what the code does not record. Checks of configuration,
toolchain, snapshots and kernel reports are one nondeterministic verdict each.
A timed out kernel is orphaned and may write its files later. `Dispatches` is the
set of kernels that were started, which the ledger ought to count.

**Text/source benchmarks.** A binding is the pair of commit and configuration.
Times, sizes and peaks of a receipt are stood for by the run that measured them
and a member of a small set of artifacts, so a receipt of another run can be
told from one's own, and a codec that does not reproduce its artifact from one
that does. The tree is edited and committed between any two steps. The six
scripts differ in what they bind first, which receipts they accept when they
resume, whether a failed process leaves a receipt, which gate they put on the
summary, and whether `results.json` is replaced or must be equal; each of these
is a disjunct of its own module. The publishers read results and
configuration, read the receipts one by one, four of them a second time, and
validate as the code does; of a first reading they keep only what the code
keeps.

**Public validations.** Of a corpus only versions are kept: of its files, of
the manifest a runner is given and of the manifest in the corpus root, which
`run_benchmark` takes where it is given none (`Listed`). A run is a program
counter through preflight, attempt and the stages of its suite; a stage reads the
files as they are then and leaves a result that remembers who made it and of
what. A digest is the content, so that "the receipt binds the results" compares
results. What a gate wants of speed, memory and exactness is one Boolean; the
sizes of the candidate and of PBC are kept per family, since decision and
properties compute with them. An evaluator reads its files in one step and binds
them in another. `by` and `basis` are history: no evaluator sees who measured.

**Evidence import.** An importer is a program counter through
`import_evidence`. The evidence directory has a version of its files and one of
its `SHA256SUMS`, copied in any order, and may be replaced and sealed anew at any
time. The temporary receipt has one name for all importers; writing it truncates
whatever file has that name, a rename moves the file and not the name, and an
importer that has the file open goes on writing into it.

**Adaptive frames.** A source is a sequence of different units, its digests are
the units themselves, and a frame is a header and a sequence of units: one per
segment header, as many as its size for a payload. How large a part gets when
it is coded, and what the samples of versions 1 and 2 select, are
parameters; the choice among the candidates is the code's. A frame is carried to
a host with other libraries, whole or with one field, unit or length changed.
`Inspect` and `Decode` are translated from the two parsers, each with its own
order of checks. The libraries are loaded by the first call that asks: a flag,
then the library, two steps. `raced` is history: whether a call met a library
another thread was loading.

**Byte transforms.** Here the bytes themselves are modelled, since what a reader
makes of them is the question. A byte is a number, a number of variable length
has few values per byte and few bytes, a magic is one byte, and the sizes that
bound a line, a token, a sample or a channel are small constants. A reader is an
operator that returns the set of what it reads, empty where the code raises. Of
a JSON line the model has what the tokenizer finds in it. The dictionary of a
text is any sequence of tokens of its sample, a superset of what counting and
weighing select. Where Python and Rust differ in a check, the operator has the
reader as an argument (`ReadVarint`, `Plausible`, the end of `ReadSkeleton`);
elsewhere both were read and one operator stands for both, which is why `Readers`
lists Python alone for a text: its native reader differs in nothing but the order
of checks. `Update` is the reader of chunks as a state machine, fed until libzstd
has no more. A damaged form has one byte lost, doubled or replaced, or another
size in its frame.

**Numeric tables.** Digits are their own values, and what else a table is made
of are a few bytes more: two separators, one of them the line end, both signs, a
point and a letter. Writers and readers have the implementation as an argument
where the two differ: in the order of decimal numbers (`DecimalLess`,
`NativeLess`), in the rows a thread looks up (`Chunks`), in what is checked
before the symbols are read (`CountsPlausible`), in the bound on counts
(`CellsFit`) and in what may be left over (`WovenInLanes`). The arithmetic coder
is the code's, step by step, with an interval of six bits and counts halved at
seven. Whether compression makes the chosen form or the source itself the
shorter is not known here, so that `SelectorFrames` has both. A stream is
written segment by segment and read back under the digests of its frames, which
are stood for by what was written.

## 4. Runs

| Run | Bounds | What it shows |
|---|---|---|
| `durable_files` | the writers: 2 calls, 5 protocols each, 1 deletion, 2 failing unlinks, 1 power loss. The store: 2 importers (symmetric), 3 imports, 1 crash, 1 edit, 2 reads. The run: 3 manifests of up to 2 items, 2 repetitions, 2 edits of each kind | `DestinationComplete`, `OneWinner`, `NoResidue`, `FailureIsClean`, the five protocols implement `PublishOnce`; `StoreRecovers`; `ScoreIsOfRecordedManifest`, `ValidRowsMeasureTheCorpus` |
| `jls2_round_trip` | up to 5 segments, 1 to 3 threads; other streams for the Python reader of up to 3 segments, for the Rust reader of up to 4, with one fault; one fault of a reader's own | `PublishedDecodes`, `BoundedPending`, `SameVerdictAsMemory`, `NativeVerdict`, `ReadsBack`, `EveryCallEnds`; encoder and both decoders implement `OrderedStream` |
| `frames` | sources of up to 4 units, segments of 2; 5 hosts; limits none, 2, 4; 2 threads (symmetric) that write and 2 that read; one thing wrong with a damaged frame. The segmenter: every source of up to 9 bytes, targets 1 to 5, chunk 2. The transforms: see below | `FramesReadBack`, `InspectAcceptsDecodable`, `BoundedExpansion`; `Partition`, `SameUnlessExactFit`; `TransformsReadBack`, `ReadersAgree` |
| `frames_overlap` | the same | violated: section 7 |
| `text_transform_aborts` | the same | violated: section 7 |
| `dense_stream_overruns` | the same | violated: section 7 |
| `tabular_round_trip` | sources of up to 5 units, target 2, slack 1, 1 or 2 threads, 2 changes; other streams of up to 3 segments, sound, faulty or exchanged | `BoundedInFlight`, `ReaderVerdict`, `ReadsBack`, `EveryCallEnds` |
| `tabular_source_changed` | the same | violated: section 7 |
| `benchmarks` | the pool: 2 codecs, 3 requests, 2 processes. Validations: 2 runs of each suite, 2 families, a candidate that passes, misses one family or fails otherwise, 2 sizes of PBC, 1 fault (an edit, a kill, a replaced result) in clue, 2 in the others. Imports: 2 importers, 2 failures or kills, 1 resealing | `OwnAnswers`, `NoStrayWorkers`, `MeasuredApart`, `RunnerEnds`; `PassIsEarned`, `EvidenceIsOneAttempt`; `ImportIsWhole` |
| `moon_stale_receipt` | 2 runs, 1 cell, no fault | violated: section 7 |
| `script_runs` | moon: 2 runs of any of the 3 scripts, a cap of 4, 2 cells, 2 snapshots charged from 2, 1 fault, a ledger that is absent, at 2 or at 3. Text/source: six scripts, 2 runs, one codec and item, 2 repetitions and, where the script has one, a warm-up; gates that admit and reject; 1 edit, 1 misbehaving process | `DispatchedStaysCharged`, `OneWholeAttempt`, `SweepsAccount`; `ResultsOfOneBinding`, `EvidenceReproduces`, `FailureReceiptsAreFinal` |
| `census_failed_trial` | 2 runs, two codecs, one of them with redirected output, a warm-up and 1 repetition | violated: section 7 |

Each property is stated beside the specification it is about, with a comment.
Three have two parts, stated there by name: `StoreRecovers` is
`RepairedByRepeating` and `SealCoversHoldout`, `OneWholeAttempt` is `OneAttempt`
and `ManifestIsWhole`, `SweepsAccount` is `LedgerCounts` and `MeasuredMeansRan`.

Why the bounds are enough. Two calls contain every race on one name: a third
only repeats what the second can do to the first, and the theorems of section 6
drop the bound. With five segments and up to three threads the deque fills,
wraps and drains, and both the loop that writes while reading and the loop that
drains run more than once; whoever reads it back is given as many. In the
decoders a fault can be in the first, the
middle or the last segment, before or after a segment still in the pool, and the
native decoder has a full and a partial batch. Nine bytes with a chunk of two
contain a line longer than the target, an exact fit, and a refill in the middle
of a search. In TBL1 a source of five units is two full segments and a short one;
two changes are what it takes to shrink and grow back. The worker pool needs a
second request to meet a late answer and a second process to replace the first;
with two codecs one `close()` can fail before another. Three imports are an
import, another that truncates a file of the first and crashes, and its repeat.
A manifest that is changed twice can be changed back. In the moon runs two
scripts meet in every order, before, after and inside each other; the cap is
what a diagnostic needs after its frozen count, and a sweep that starts at 3 has
a cell left over. The text/source benchmarks have two repetitions of a pair, the
least that can disagree; two runs overlap, or resume over one edit and commit.
Two runs of a validation share a directory or have one each, so that an evaluator
can be given files of both; two edits change a corpus and change it back, or
replace two results. Two importers overlap in every order, and two failures
stop both, or stop one and kill the other.
Four units are two whole segments, three a whole and a short one; the five hosts
lack each engine and each library once, and one lacks all; two threads are what
it takes to meet a library half loaded. A damaged frame is read once, since its
reading depends on nothing another reader does. Amid a payload a parser may find
what looks like a segment header (`Foreign`). The transforms have every source of
up to four bytes over two letters and a line end, and longer ones in which lines
repeat with a difference; texts of up to three bytes over letter, digit, space
and marker, and of six over letter and space, with a sample of four, so that its
three parts meet, miss or split a token; JSON records of up to two lines and two
fields, over three keys of which two fit; bundles of up to two records, sound or
not. A number has two bits per byte and at most three bytes, for a word of five
bits: the shortest that overflow it. Every byte of a form is replaced in turn,
and every way of cutting a form into chunks is taken. Numeric tables are every
string of up to three bytes over two digits and two separators, and longer ones
with more rows than there are lanes, counts that are halved, more distinct
numbers than a dictionary or the counts of the Rust may have, signs, points,
numbers around zero and fields that are none; streams are every string of up to
six bytes of ones and line ends, cut into segments of three. `ManifestRun` allows
any edit of manifest and files at any time, an importer's among them, so that
nothing is gained from running store and run together; nor from two writers
beside them, which have a destination of their own.

`CHECK_DEADLOCK FALSE` is set for `durable_files` (every call may have been
killed; the bounds of the store may be used up, or a manifest be torn, which no
import gets past), `frames` (all calls have returned), and the moon and
text/source runs and `benchmarks` (every run has ended or was killed; of the
pool, `RunnerEnds` says that the runner is never kept waiting). The other specifications
end in an explicit `Ended` step, so that a state in which everyone waits would
be reported.

### What the conditions in the properties say

Some properties name an exception; each is a behaviour of the code:

- `NoResidue`: `decompress_file` stats its source after it has made the
  temporary file and before its `try`; a source that cannot be statted leaves
  the temporary file behind. An unlink that fails leaves one too.
- `FailureIsClean`: a link-based call whose unlink fails raises after it
  published; the JLS2 calls stat a file after they published, and may raise
  though the work is done.
- `DestinationComplete`: only `_atomic_write` fsyncs; after a power loss the
  destination of the other four may be damaged.
- `ReadsBack` of TBL1: a source that both shrank and
  grew is the finding of section 7.
- `NativeVerdict`: Rust compares the digests nested in a frame, Python does not;
  on the other streams of the model the two decoders agree. What a frame decodes
  to is a parameter there; how the readers of one frame differ is the matter of
  `ReadersAgree`.
- `ReadersAgree`: a number beyond the machine's word, which Python refuses later
  on and Rust reads modulo the word (section 7); a separator after the last row
  of lanes, which the Rust ignores; a table with more counts than the Rust has
  room for. Nothing else tells the readers of a damaged form apart. The Rust
  writes what Python writes but where zero is among numbers below a tenth
  (section 7).
- `TransformsReadBack`: `AXTS1` refuses what is no bundle, and pages whose ids
  are further apart than a signed word; the formats of tables refuse what is no
  rectangle of numbers; every other source has a form. Some forms are never read
  back: with more than 2^20 distinct runs, with more counts than the Rust has
  room for, or in a stream with a segment that overruns (section 7).
- `SameUnlessExactFit`: the two segmenters cut differently when exactly
  `segment_size` bytes are left, with a newline inside and none at the end;
  section 7.
- `NoStrayWorkers`: a process that survives `kill()` for a second, and a run
  that an exception out of `pool.close()` ends before the remaining workers are
  closed. Such an exception is possible: `BrokenPipeError`, when closing a
  stdin that still holds an unsent line, and `TimeoutExpired` after `kill()`.
- `MeasuredApart`: `terminate()` ends a worker but not the external codec below
  it (`runner.py:141`), and nothing else does. After an operation that failed,
  its codec may run on beside the operations that are measured next and take
  their time and memory. The property says that nothing but such codecs runs
  beside a measured operation, and that none is below a worker of the pool: up to
  the first failure every operation is measured alone.
- `ScoreIsOfRecordedManifest`: a manifest that is changed and changed back. Put
  back between the hash and the check after staging, it lets another version be
  loaded and scored under the digest of the original; put back before the last
  check, it only hides that it did not stand still. `putBack` records the steps
  before which that happened. Of an edit that is not undone nothing is excepted:
  if it comes before the check after staging, no results of another version
  exist, not even version-4 ones (`benchmark_runner.py:89`), and if it comes
  before the last check, no version-5 ones (line 118).
- `RepairedByRepeating`: overlapping imports, a source edited under an import,
  or a file of an interrupted import that is imported for another split, or
  under another name with the same slug, before the repeat (`Crosses`). An item
  id names neither split nor file, so the repeat would find the id and skip the
  damaged copy.
- `SealCoversHoldout`: overlapping imports, of which the last to write the
  manifest forgets the items of the other.
- `DispatchedStaysCharged`, `LedgerCounts`: a sweep looks for no lock, writes the
  count it read at its start and writes it after its kernel; one that runs
  beside another run, or is killed between kernel and ledger, loses counts. The
  cap of "160 arm-run cycles" the prescreen names in its lines 17-18 holds only
  for sweeps that neither overlap nor die.
- `MeasuredMeansRan`: a kernel that was never started is the finding of
  section 7; one that was orphaned by a timeout writes its files late.
- `FailureReceiptsAreFinal`: a run that overlaps another may replace a receipt
  that failed by one that passed.
- `EvidenceReproduces`: three publishers compare nothing with their first
  reading, so that an overlapping run, or an edit of the configuration, gets
  between the two; section 7.
- `PassIsEarned`, `EvidenceIsOneAttempt` (`Excluded`): a file replaced between
  being read and being hashed by an evaluator, which reads every file twice
  (`evaluate-clue-jls2-public-validation-v2.py:372-383`); a result replaced
  before the receipt binds it; in clue a result replaced at any time, since its
  evaluator never compares `performance_results_sha256` of the receipt, which
  those of tbl1 and dms2 do. The proof of tbl1 names no corpus: a corpus that is
  changed and changed back is proved in one state and measured in another, and
  `PassIsEarned` does not speak of the proof's bytes. Evaluator and publisher of
  clue take receipt and results of different directories; that the importer
  does not is what `EvidenceIsOneAttempt` says.
- `ImportIsWhole`: an importer that was killed may leave evidence without a
  receipt, its staging directory or the temporary receipt, which then refuses
  every later import until somebody removes it; evidence that is sealed anew under an importer may be
  counted (`file_count`) in one version and copied in another.
- `FramesReadBack`: a limit the caller set, an engine the host lacks, the native
  library a channelized frame needs, or a library another thread is loading.
- `InspectAcceptsDecodable` speaks of the codec, which decodes without looking
  first; `decompress` runs both parsers, so that it can only refuse more.

## 5. Fairness

- `FairRoundTrip` of JLS2 and of TBL1: weak fairness of the calling thread of
  encoder and reader (`Main`), of starting queued tasks and of finishing running
  ones. The operating system schedules the threads, a pool thread takes the next
  task when it is free, and frame codecs are loops over bounded input that block
  on nothing. Exceptions are part of `Main` or of the end of a task; termination
  does not depend on one happening, since the successful step is there too.
  External faults and changes of files are outside `Main`. For the Rust decoder:
  its calling thread and each scoped thread's send, none on panics. Last,
  somebody hands a published file to a reader; without that step
  `EveryCallEnds` would only have to speak of the encoder.
- `WorkerPool`: weak fairness of the runner's thread only. A worker may hang for
  ever, so may an external codec; what ends every wait is a timeout of the
  runner itself, which is one of its steps.
  In `MCBenchmarks` this is `PoolRuns`: the validations and imports of the same
  run have no fairness.
- The other specifications claim safety only: their programs run once, may be
  killed, and nobody repeats them.

## 6. Proofs

Checked by TLAPS for all values of the constants that satisfy the named
assumptions: eight modules, with about 28 000 obligations.

| Module | About | Assumptions |
|---|---|---|
| `Sums` | library: sums of declared sizes, least elements, induction, recursion | none |
| `DurableFilesProofs` | `FileWriters`, `ManifestRun`, `CorpusStore` | `FileWritersAssumption`, `RunAssumption`, `StoreAssumption` |
| `Jls2Proofs` | `Jls2CompressFile`, `Jls2DecompressFile`, `Jls2NativeDecode`, `Jls2RoundTrip` | `CompressAssumption`, `ReadersAssumption` |
| `FramesProofs` | `Segmenter`, `AdaptiveFrame`, `AdaptiveCalls` | `SegmenterAssumption`, `CallsAssumption` |
| `TabularProofs` | `TabularCompressStream`, `TabularDecompressStream`, `TabularRoundTrip` | `CompressStreamAssumption`, `ReaderAssumption` |
| `BenchmarksProofs` | `WorkerPool`, `EvidenceImport`, `PublicValidation` | `PoolAssumption`, `ImportAssumption`, `ValidationAssumption` |
| `TransformProofs` | `ByteStrings`, `LogTransforms`, `ColumnTransforms` | `BytesAssumption`, `LogAssumption`, `TableAssumption`, `ColumnsAssumption` |
| `ScriptRunsProofs` | `TextSourceTrials`, `TextSourcePublishers`, `MoonRuns` | `ScheduleAssumption`, `RunsAssumption` |

Each specification has an inductive invariant, one lemma per action or group of
actions, and its theorems as consequences. The assumptions type the constants
and keep apart what the code keeps apart (no content is the mark of a torn file,
two relative paths are two places in the order of an import); TLC evaluates each
of them on a run. Where several components share a run (section 2), the theorem
is about the specification of the run, under the initial choice.

The induction rules of the library take an operator as a parameter, which the
provers cannot instantiate. What a recursive function computes is proved from a
least counterexample instead: the naturals below a bound are well-founded, so
that if the claim failed somewhere it would fail first somewhere. `Sums` does
this once for the sums of declared and of restored sizes, and once for sets of
numbers: `Induction` and `FiniteInduction` say that a set with 0 and with the
successor of each of its elements is all of them, `RecursionExists` and
`FiniteRecursion` that a recursive definition defines something. `FramesProofs`
has its own for the cuts of the memory segmenter, for the loops of both parsers,
and for the packing of a frame.

**FileWriters**, any finite set of calls, any deletions and failures. `IInv` adds
to the types one conjunction per call, `CallInv(w)`: what a place in a protocol
implies about the call's content and its publication (a call about to publish
has a complete file, for `api` a synced one, and has not published before; which
calls may still fail after they published; a power loss leaves no call running).
`DestinationComplete` alone is not inductive, as it says nothing of a call that
is about to publish.

- `TypeCorrect`, `DestinationSafe`, `FailuresAreClean` follow from `IInv`;
  `NoResidueHolds` needs to know besides which places own a temporary file.
- `NeverClobbers` (`NoClobber`: an action property) and `Refinement` (it
  implements `PublishOnce`) follow from `NameStep`, which says of every step
  that it leaves the name alone, removes it, or publishes one call.
- `OneWinnerHolds` needs a second invariant, `WinnersInv`: the number of winners
  is at most the deletions so far, and one more only while the name is taken.

**ManifestRun**, any manifests, items, digests, edits and repetitions:
`ScoreIsBound`, `ValidRows`. Unless the hashed version was put back while it was
read, what is loaded and staged is its listing as long as it is in place, and
whatever happens to it once the check after staging has found it there
(`ListingIsHashed`); unless it was put back, a manifest that is the hashed one
has not been edited since (`StoodStill`); rows are of the corpus that was loaded.
Neither check can be left out of this argument.

**CorpusStore**, any files, contents, imports, crashes, edits and reads:
`StoreRecoversHolds`. `StoreInv` is `Alone` (an import that overlaps no other has
taken over what earlier ones imported), `Repairable` (every item anybody knows is
intact, is being copied, or is owed by an interrupted import that has not been
repeated, which will come to it before anything it could hide) and `Sealed`
(what a reader has in hand covers what was frozen when it began). That an import
goes through its files in the order of their names matters: an import that stops
has finished what comes before the file it stopped in, and nothing after it.
`StoreIsRepaired` states the same of `CorpusStore` alone.

**Jls2CompressFile**, any number of segments and threads. `IInv` says that frames
and digest are the first segments in order; that frames and deque together are
what was hashed (`DequeInv`); that a queued or running task belongs to a segment
still in the deque, and is queued once (`PoolInv`); and what each place of the
program implies (`PhaseInv`). `PublishedDecodes` speaks of the last state only
and needs all four to get there.

- `TypeCorrect`, `InOrder` (`NothingLost`), `Published`, `MemoryBounded`,
  `NoTaskOutlives`, `FailureClean`; `MemoryBounded` puts the active tasks into
  the interval of segments hashed and not yet written.
- `Refinement`: it implements `OrderedStream`, with the frames in its file as the
  segments emitted: each frame appended is that of the next segment, which is
  the head of the deque (`DequeInv`), whichever task finishes first.

**Its readers**, any stream, sound or not, any threads. `AllInv` is the encoder's
invariant, one of each reader, and that a reader called after the encoder has
what was published.

- `SameVerdict` (`SameVerdictAsMemory`) rests on `PythonInv`: the segments read
  so far stay within the header, as the memory reader would have it (`Walked`); a
  task has succeeded only on a frame that restores (`Tasked`); what was written
  is a prefix that restores, and the deque what follows (`Restored`); each place
  in the program says which checks have passed (`Placed`); and a call gives up
  only for a failure of its own or a stream that does not decode (`Justified`).
- `NativeVerdictCorrect` (`NativeVerdict`) rests on `NativeInv`: whoever has sent
  a result finds it written, in the reorder map or in the channel (`Accounted`);
  what is held decodes and belongs to a batch that was begun (`Held`); an error
  is the stream's, the writer's, or that of a panicked thread (`Answered`).
- `RoundTrips` (`ReadsBack`): both readers restore what the encoder published.
- `ReadersRefinement` (`ReadersImplementOrderedStream`): both implement
  `OrderedStream`, with the segments written as those emitted. The Python decoder
  writes the head of its deque, and checks its totals when the deque is empty, so
  that no segment of the header is missing; the Rust decoder writes out of the
  reorder map what its cursor names. A decoder that wrote segments as they
  arrive and left it to the digest to refuse them would not implement it.

**Segmenter**, any source, target and chunk. `IInv` adds to `Partition` what the
two places know: at `fill` the end of the source has been seen only where the
buffer ends with it, and a search goes on from a buffer of at least one target.
`SameCuts` (`SameUnlessExactFit`) compares with the recursive `EndsFrom`: until
the last segment, what was cut followed by the cuts of the memory segmenter from
there is what the memory segmenter makes of the source (`Same`), or the one
exact fit has happened (`Parted`), after which only one cut is left.

**Adaptive frames**, any sources, sizes of coded parts, hosts, limits, threads,
and damage to one place. Both parsers are loops over the segments of a frame; a
loop is a walk, a function of the number of turns, and what it keeps is shown
turn by turn (`DecodeWalk`, `InspectWalk`).

- `InspectAgrees` (`InspectAcceptsDecodable`) is a fact about frames alone,
  damaged or not: as long as the decoder goes on, the inspector is at the same
  offset with the same total, and every check it makes is one the decoder has
  made or is implied by what the decoder restored (`ParsersAgree`).
- `FramesAreReadBack` (`FramesReadBack`): every candidate of versions 0 to 3 is a
  frame whose segments cover the source (`Packed`, `Legacy`), and a packed
  segment is found in place by the decoder, whatever lies behind it
  (`PackPrefix`, `SegmentInPlace`). A damaged frame has the shape of a frame, and
  its digest is the source's or that of no source (`DamagedShape`,
  `ZeroDigest`). `Carried` and `Reads` keep this while threads load libraries.
- `ExpansionIsBounded` (`BoundedExpansion`): a stored segment is always among the
  candidates, and none is chosen that is longer (`Fits`, `LegacyFits`).

**TBL1**, any sizes, any changes of the source, any stream, any exchange of the
file. `MemoryBounded` (`BoundedInFlight`): the deque is what was read less what
was written, a full deque is flushed before the next read, and every chunk has at
least a byte.

- `RestoresWhatWasRead` (`ReadsBack`) has to explain why a stream with a short
  chunk in its middle is never published unless the source both grew and shrank:
  a read below the target met the end of the source, what follows it was grown,
  and without a shrink in between more than the measured bytes have been read
  (`Measuring`), which the last check sees.
- `VerdictHolds` (`ReaderVerdict`): as for JLS2, with two files: what inspection
  saw and what the walk reads, which are equal unless the file was exchanged.
- `ReaderRefinement`: `decompress_stream` implements `OrderedStream` for as many
  segments as the header it inspected has: those of the file it walks, in their
  order there. `compress_stream` is not compared with
  it: how many segments there will be is not settled when the call begins, since
  the source may change.

**WorkerPool**, any codecs, requests and processes: `AnswersAreOwn`
(`OwnAnswers`), `NoneIsForgotten` (`NoStrayWorkers`), `MeasurementsAreApart`
(`MeasuredApart`). `OwnAnswers` speaks of the line the runner is about to
take, and needs to know of every process which lines can be in its pipes:
`IInv` says that the worker in hand is starting, quiet, or asked; that any other
worker of the pool is quiet; that a closed one is dead or has survived a kill;
that a request still in a pipe has no answer, and the current request is only at
the worker in hand; that no external codec is below a worker that is starting or
quiet; and that a request is open until its operation has ended, and those before
it are answered or failed.

**EvidenceImport**, any importers, seals and faults: `ImportsAreWhole`
(`ImportIsWhole`). One importer at a time is between its two renames, since the
first of them needs the destination free (`Installed`); whatever is temporary
belongs to somebody who will remove it or was killed (`Accounted`); and while
nobody seals the evidence anew, what anybody verified, copied or wrote about is
the version that is there (`Undisturbed`).

**PublicValidation**, any runs, items, outcomes, kills and edits:
`PassesAreEarned` (`PassIsEarned`), `EvidenceOfOneAttempt`
(`EvidenceIsOneAttempt`). A directory is one run's, which writes its receipt last
(`Owned`); outside the excluded behaviours of section 4 the results in it are
that run's and of the corpus it loaded (`Measuring`), a receipt binds results of
one origin (`Receipts`), and what an evaluator has read is still so when it
decides (`Held`); a decision of clue says for each of its three sources what the
importer will compare (`Judged`).

**Text/source benchmarks**, any runs, schedules and gates, six scripts:

- `OneBinding` (`ResultsOfOneBinding`): a run that may change its binding has no
  rows yet, where runs share an attempt one run is live unless two overlapped,
  and `None` is no binding.
- `PublicationsReproduce` (`EvidenceReproduces`): of each of the publishers, what
  it has checked at each of its places (`CensusReads`, `StructuralReads`,
  `TwiceReads`, `OnceReads`), and that what it has seen is still there as long as
  no runs overlap (`Reads`).
- `FailuresAreFinal` (`FailureReceiptsAreFinal`): without overlaps a receipt is
  measured only where there is none (`Undisturbed`).

**MoonRuns**, any runs of the three scripts, kills and power losses. `MoonInv`
says where each diagnostic is in its loop (`Positions`), that one run holds the
ledger at a time unless two overlap (`Exclusive`), that whatever the diagnostic
dispatched is counted in every content a power loss may leave and in what a later
sweep has read (`Charged`), that every kernel is in the ledger or in the count of
the run that holds it (`Counted`), that what is published is the attempt's
(`OfTheAttempt`), and where the reports a sweep reads came from (`Honest`).

- `ChargesLast` (`DispatchedStaysCharged`), `OneAttemptIsWhole`
  (`OneWholeAttempt`), `SweepsAccountFor` (`SweepsAccount`).

**LogTransforms and ColumnTransforms**, any source shorter than `Word`, any window, number of slots
and limits. The run `frames` takes every source of up to four bytes and some
longer ones (`TransformsReadBack`); here the length is unbounded. The modules
say what they compute by recursive functions, and exclusive or is a constant of
which `LogAssumption` says what the proof needs (it undoes itself, and gives zero
for equal bytes only); the run gives it the operator of `Bitwise`.

- `ReadsVarint`: each of the readers makes of the code of a number that number.
  A code has no byte below the base before its last (`VarintIsNumber`), so that
  there is one place to end it, and at most `VarintLimit` bytes; the Rust loses
  nothing, since the number is below the word, and the strict reader finds no
  zero at the end.
- `LinesMake`: the lines of a source make it again, byte by byte.
- `ReadsCommands`: a reader that knows a line up to a command knows it after the
  command up to the next. Commands are counted from the end of the line, by the
  writer as by the proof; the reader takes at most as many as the line has bytes,
  and stays where it is when the line is complete.
- `LogsReadBack`: LWX1 and LWX2 read back. A reader's state after n lines has one
  element, given by the writer's lines (`NextIsRead`). That both sides find the
  same line for an index needs `AgeOrders`: of the lines of one place, no two
  have one age, so that the reader's choice is the writer's, although the window
  lists lines of one length and the slot whatever fell into it last.
- `SplicesReadBack`: LWS1 reads back. The common end is sought in what the common
  beginning leaves of the shorter line, so that they overlap in neither; the three
  parts add up to the line, which keeps the reader within its limits
  (`EdgesMake`).
- `TablesReadBack`: the transform of TBL1 gives back every file with any delimiter
  and any line ends, with either reader, provided the written form is shorter than
  2^63 bytes. A row is its fields with the delimiters between them (`FieldsMake`),
  and each field is put to what its column has so far (`WithFieldByteIs`). After n
  rows a reader has one state, which is what the rows from n on put into each
  column (`ReadsNextRow`); after the last it has nothing left over, as the program
  requires. The parts before the columns are numbers and sized strings, read in the
  order in which they were written (`ReadsVarints`, `ReadsAllSized`), and no count
  in them is implausible for the bytes that follow (`PartsFit`).
- `ColumnsReadBack`: the columns of JSON records give back the bytes of the
  records, with each of the three readers, whatever the parser made of a record:
  which bytes it took for values, which keys it gave them, that it is no JSON, or
  that its keys are too many. What the writer has made so far is laid out
  (`IsLaidOut`) as a sequence of parts, each a byte of no value or a value of a
  channel, and every part adds to three strands: to the record, to the skeleton, and
  to its channel if it has one. More keys widen the layout with empty channels
  (`WiderIsLaidOut`), a field adds its bytes and its value (`AddsField`), a record
  its fields (`AddsRecord`). A reader takes the parts from the skeleton one by one,
  and can take each in one way only (`ReadsOne`); after the last no channel has
  anything left, by the count in the Rust of JLS2 too (`OneIsRead`). The numbers of
  channels have to fit a word, and the bound of the writer's buffer has to be within
  that of the readers, as 2 and 4 are (`ColumnsAssumption`).

What attempts at proofs showed of the models: an interrupted import can be
hidden from its repeat not only by another split but by another name with the
same slug (`Crosses`), and that a repeat comes to the torn file at all depends on
the order in which an import goes through its files (`Rank`);
the exit of a scope in the Rust decoder, the plausibility of counts and the
meaning of a code in a text had overlapping cases, of which TLC took the first;
what the TBL1 reader publishes after the file was exchanged is what the inspected
header promises, of which segments the inspection saw none
(`PublishesInspected`); and a call that met a library half loaded has to be
remembered as such (`raced`), since the library may be there when it returns.

**Checked by TLC only**:

- `EveryCallEnds` of JLS2 and of TBL1 and `RunnerEnds`: the prover has neither
  fairness nor ENABLED;
- `TransformsReadBack` and `ReadersAgree`, which speak of all transforms at once:
  of the lines' transforms `LogsReadBack` and `SplicesReadBack`, of the rows of
  TBL1 `TablesReadBack` and of the columns of JSON records `ColumnsReadBack` prove
  the first for every source. Left to TLC are what readers make of forms no writer
  makes, and the writers and readers of texts, bundles and numeric tables, which are
  RECURSIVE operators, in modules the prover has no arithmetic for;
- the six properties of section 7, which do not hold.

Every other property of a passing run is a theorem.

## 7. Disagreements between code and documents

- **`tabular_source_changed`** (a bug). `compress_stream` raises "TBL1 stream
  source changed while being compressed" (`tabular_transform.py:637`) only if
  the number of bytes read differs from the size measured first. A source
  truncated while it is read and extended to its old size passes; the read at
  the temporary end returned a short chunk in the middle, and the published
  stream is one that `decompress_stream` refuses ("TBL1 stream has an undersized
  interior segment", line 819).
- **`moon_stale_receipt`** (a bug). `execute_encode` of the prescreen is said to
  return "the kernel receipt (None if it was not written)"
  (`moon-prescreen-runner.py:338`). Neither it nor the clean-RSS report is
  removed before the kernel runs. A sweep whose kernel cannot be started, in a
  directory an earlier sweep filled, reads both files of that sweep and records
  the cell as measured; `validate_kernel_receipt` binds a receipt to arm and
  snapshot only.
- **`census_failed_trial`** (a bug). "Timeouts, missing tools, nonzero exits, ...
  remain visible and cannot be counted as wins"
  (`src/docs/benchmarks/2026-07-17-text-source-baseline-census-protocol.md:57`).
  When compression fails while `artifact.bin` exists, always so for a codec
  whose output is redirected there, the row reads `artifact_size`, assigned only
  after success (`benchmark-text-source-baselines.py:740`). The
  `UnboundLocalError` ends the run without a receipt, the resumed run measures
  the trial again, and the census is published as all passed.

- **`frames_overlap`** (code and document differ). "The format is lossless and
  deterministic for a fixed package and dependency version"
  (`src/docs/file-format.md:10-12`). `_load_library` sets its flag before it has
  loaded anything and takes no lock (`native.py:182`): of two threads whose
  first calls overlap one is told that there is no native library, and packs a
  JSON document with another recipe (`structured_text.py:216`). Both frames
  decode.
- **`text_transform_aborts`** (a bug). The native dictionary of a text is tested
  to be that of the Python reference
  (`src/tests/test_structured_text.py:120-137`). A text longer than the sample
  is sampled in three parts, whose edges are moved off identifiers
  (`lib.rs:867-896`). When one run of identifier bytes covers the middle part, as
  400 KB of hexadecimal digits in a text of 1.3 MB do, its start moves behind
  its end; Python takes the empty slice, `&data[range_start..range_end]` panics
  (`lib.rs:901`), and with `panic = "abort"` (`native/Cargo.toml:30`) the process
  that called `compress()` ends.

- **`dense_stream_overruns`** (a bug). A stream of tables is tested to be exact
  (`src/tests/test_dense_matrix_transform.py:176-195`) and its segments are
  "16 MiB, LF-aligned when available"
  (`src/docs/benchmarks/2026-07-17-dms2-public-validation-readiness.md:17`).
  `_stream_segments` looks for the last line end among `segment_size + 1` bytes
  (`dense_matrix_transform.py:1468`); one in the last of them gives a segment a
  byte longer than the size the stream declares. The writer says nothing,
  `selector_stream_decompress` refuses ("DSS1 segment exceeds declared bound",
  line 1553). Rows of eight bytes in segments of 511 do it.

Behaviour that was met while modelling:

- The Python writers of tables look at none of the bounds their readers apply:
  a table with more than 2^20 distinct numbers is written and read by nobody
  (`dense_matrix_transform.py:108`). The Rust has one more bound, 2^26 counts
  (`native-dense/src/lib.rs:607-612`), and refuses what Python wrote beyond it.
- Without digits of its own, zero has no exponent in `dense_decimal_cmp`
  (`native-dense/src/lib.rs:117`) and comes after 0.01, which Python has the
  other way round. Both forms are read by both.
- `decode_dense_parallel` ignores a separator after the last row where tokens
  come first (`native-dense/src/lib.rs:943-983`); Python refuses it.

- `compress_file()` is tested to write the bytes `compress()` returns
  (`src/tests/test_json_log_codec.py:104`). It does not when exactly
  `segment_size` bytes are left, with a newline inside and none at the end:
  `_segments` makes one segment of them, `_file_segments` two. Both decode to
  the same source. `SameUnlessExactFit` shows that this is the only case.

- The varint of the Rust readers shifts the high bits of a tenth byte away
  (`lib.rs:69`, `jls2.rs:78-98`), so that on a form no writer makes they read a
  number beyond 64 bits modulo 2^64 where Python refuses. The protocols ask for
  the validation of every varint
  (`src/docs/benchmarks/2026-07-16-json-log-columnar-protocol.md:57`) and for the
  rejection of integer-overflow-shaped lengths
  (`src/docs/benchmarks/2026-07-17-jls2-native-decoder-protocol.md:77`). What is
  read must still have the right length and digest. `ReadersAgree` names it.
- The docstring of `compress_stream` says "memory bounded by one TBL1 segment"
  (`tabular_transform.py:559`); the deque holds as many as there are threads,
  two by default. `BoundedInFlight` is the bound that holds.
- The version-4 results are already in the output directory when the
  manifest-bound runner refuses the run (`benchmark_runner.py:118`).
- A crash inside the write of `manifest.json` leaves a corpus no import or load
  accepts until the file is restored by hand.
- A source edited between hashing and copying gives a manifest entry that never
  loads again, and repeating the import adds a second entry.
- `freeze_holdout` tests for an existing lock and writes later: of two that race
  the later one wins.
- A benchmark run in which no trial passed raises after its last trial
  (`metrics.py:130`) and leaves no results at all.
- A thread that decompresses a channelized frame while another one loads the
  native library is told that the host has none.
- The census hashes its configuration after the preflight
  (`benchmark-text-source-baselines.py:910`) and reads the commit before it: an
  edit in between gives a binding of a commit and a configuration that were
  never together. `ResultsOfOneBinding` speaks of the pair as it was read.
- A resumed census mixes hosts and tools, which no receipt names; the derived
  comparison says `"same_host_and_runner": True`
  (`publish-text-source-baseline-census.py:959`) whatever happened.
- The publisher's own digest of the raw receipts is of its first reading, the
  evidence of the second: a warm-up receipt replaced between the two leaves both
  valid and the digest of other bytes.
- A publisher that is killed leaves a staging directory and nothing else.
- The structural probe and the record screen do not resume a directory with a
  failed receipt (`benchmark-text-source-structural-transform.py:537`), while
  the protocol asks for receipts that make the run resumable and for failures
  that remain publishable
  (`src/docs/benchmarks/2026-07-17-text-source-structural-transform-protocol.md:143`
  and `:151`): a probe that fails must be finished by the run that failed.
- A record, long-range or BWT screen that admits a candidate cannot be published;
  their publishers know rejections only.
- Running a finished WK-C1 screen again is always refused: its results hold fresh
  timings, which are compared with the ones on disk. When its frame inspection
  fails the run ends without a receipt.
- The record and long-range publishers read results, configuration and receipts
  again after they verified them, and compare nothing. After an edit in between
  the long-range verifier refuses what was published; the record verifier does
  not notice. A structural publication made while runs overlap can count other
  failures than its evidence has.

## 8. What is not modelled

- *Columnar JSON*: the tokenizer; the JLC1 frame around the compressed streams,
  in which Python ignores three reserved bytes (`json_columnar.py:29`) that Rust
  compares with zero (`jls2.rs:287`); the threads that code the streams. In
  `Jls2Stream` a frame decodes or not, for both readers alike.
- *Gates, metrics, stability, release evidence*: functions of result files
  without state.
- *Numeric tables*: zstd below the frames, headers and digests as bytes, what a C
  ABI can be given wrong, and damage to the frames of a stream (its digests and
  lengths are checked by `DecodeSegments`, its sources are taken whole).
- *Numeric AR5 transform* (`numeric_ar5_numr.py`), delta and transpose of the
  native library, `experimental.py`: arithmetic on bytes without state between
  calls.
  What the rest relies on is that they are reversible, or equal to a Python
  reference, which the tests compare.
- *Byte transforms*: how the tokens of a dictionary are counted and weighed, the
  limits on records, lanes and path lengths, the frame of `log_codec.py` except
  its bound, counts that are only reported. Strict UTF-8 is stood for by the
  absence of one byte. In LWS1 a carriage return ends a line, too; here a line
  end is one byte. What a C ABI can be given wrong is left out.
- *Codec registry, external codecs, CLI*: tables and argument parsing. The
  outcome of an external codec is nondeterministic in `WorkerPool`.
- *Research kernels, the remaining scripts, workflows, configuration, recorded
  evidence*: experiments around the components above, most of them sequential
  programs that run once: research-ceiling, frontier-headroom, championship.
- *Public validations*: the worker script and the publisher of dms2, the
  fetchers, the lock verifiers and the workflow that seals the evidence; how the
  checks before an attempt decide (`ChecksRefuse`); the Brotli gates of jls2; the
  gates of speed and memory, one by one.
- *Generator of the synthetic corpus* (`corpus.py:1-168`): writes fixed bytes.
- Inside modelled components: the contents of payloads (a frame decodes or does
  not), the collision of digests, the wording of errors, metrics and reports,
  two concurrent freezes of one holdout.
- In the adaptive frames: which engine coded a payload does not change its size;
  a transform undone gives its source, which `TransformsReadBack` shows; a source
  of 4 GiB or more, whose whole-source candidate raises `struct.error`
  (`adaptive_v3.py:115`); a corrupt zstd payload raises `RuntimeError` under
  libzstd and `ValueError` under python-zstandard, of which `decompress`
  converts neither; both are "refused" here.
- In the text/source benchmarks: tool resolution, dependency checks, limits on
  times and peaks inside a decision, edits of inputs other than the
  configuration (the structural probe's baseline file), rendering. A screen's
  publisher reads results and configuration in one step.
- In `FileWriters` the directory entry is not subject to power loss, only file
  contents are.

## 9. Plan

Done in this order: publication, the JLS2 encoder with its proof, segmenter,
JLS2 decoders, TBL1, worker pool, benchmark run, corpus store, the moon ledger,
the text/source benchmarks, adaptive frames; then the proofs of segmenter, TBL1
encoder, worker pool, benchmark run and text/source benchmarks; the byte
transforms and those of numeric tables; the public validations and the import of
their evidence; then the proofs of everything a run checks as an invariant:
readers and round trips, corpus store, moon ledger, publishers, validations,
frames, the transforms of lines.

Left, models:

1. Gates over small result sets against a reference definition.
2. `StreamCall`: `Jls2CompressFile` composed with one `FileWriters` call, so
   that the `Publish` step of the encoder is the protocol and not one action.
3. The research-ceiling pipeline with its second host.

Left, proofs: action properties of the moon ledger and of the corpus store (what
a step may never take back), of which only the state invariants are stated; and
an abstract specification of a publication, which the six text/source publishers
and that of the public validations would implement. The transforms of columns,
bundles and texts could be written and proved as those of lines are.
