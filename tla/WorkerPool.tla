----------------------------- MODULE WorkerPool -----------------------------
(***************************************************************************)
(* The persistent workers of the benchmark runner (runner.py, worker.py):  *)
(* one child process per codec that answers requests line by line, the     *)
(* pool that starts, times out, closes and forgets them, and the runner's  *)
(* thread that uses the pool and closes it.                                *)
(*                                                                         *)
(* A line is a message: the request or the answer with a number, ready,    *)
(* shutdown, or at the end of a worker's output None in the queue.  A pipe *)
(* and the queue its reader thread fills are one sequence.  A timeout may  *)
(* expire whenever the thing waited for is not there yet.                  *)
(***************************************************************************)
EXTENDS Naturals, Sequences

CONSTANTS Codecs, MaxRequests, MaxSpawns

ASSUME PoolAssumption == MaxRequests \in Nat /\ MaxSpawns \in Nat

Requests == 1..MaxRequests
Procs == 1..MaxSpawns
None == 0

ReadyLine == <<"ready">>
Shutdown == <<"shutdown">>
EndOfOutput == <<"None">>
Ask(r) == <<"request", r>>
Answer(r) == <<"answer", r>>

VARIABLES
  pc,        \* where the runner's thread is
  request,   \* requests made so far; the last one is the current one
  codec,     \* codec_id of the current request
  worker,    \* the worker in hand: being started, asked or closed
  then,      \* who called worker.close(): "startup", "run" or "pool"
  closed,    \* codecs whose workers _PersistentWorkerPool.close has closed
  workers,   \* _workers, None for a codec without one
  spawned,   \* worker processes started so far
  outcome,   \* what pool.run returned for each request
  escaped,   \* an exception left pool.run or pool.close
  proc,      \* state of each process
  job,       \* request a process works on
  child,     \* request whose external codec process runs below a worker
  inbox,     \* lines on each worker's stdin
  responses, \* lines on each worker's stdout and in its queue
  unflushed, \* workers whose stdin holds bytes that met a broken pipe
  immortal   \* workers the parent gave up on a second after kill()

poolVars == <<pc, request, codec, worker, then, closed, workers, spawned,
              outcome, escaped, unflushed, immortal>>
procVars == <<proc, job, child, inbox, responses>>
vars == <<poolVars, procVars>>

Alive(w) == proc[w] \in {"booting", "idle", "busy"}

Init ==
  /\ pc = "idle" /\ request = 0 /\ codec \in Codecs /\ worker = None
  /\ then = "run" /\ closed = {} /\ spawned = 0 /\ escaped = FALSE
  /\ workers = [c \in Codecs |-> None]
  /\ outcome = [r \in Requests |-> "none"]
  /\ proc = [w \in Procs |-> "none"] /\ job = [w \in Procs |-> None]
  /\ child = [w \in Procs |-> None]
  /\ inbox = [w \in Procs |-> <<>>] /\ responses = [w \in Procs |-> <<>>]
  /\ unflushed = {} /\ immortal = {}
------------------------------------------------------------------------------
(* pool.run: the next operation of a trial, for some codec. *)
Call(c) ==
  /\ pc = "idle" /\ request < MaxRequests
  /\ workers[c] = None => spawned < MaxSpawns
  /\ request' = request + 1
  /\ codec' = c
  /\ IF workers[c] = None
     THEN /\ spawned' = spawned + 1
          /\ worker' = spawned + 1
          /\ proc' = [proc EXCEPT ![spawned + 1] = "booting"]
          /\ pc' = "readiness"
     ELSE /\ worker' = workers[c]
          /\ pc' = "poll"
          /\ UNCHANGED <<spawned, proc>>
  /\ UNCHANGED <<then, closed, workers, outcome, escaped, unflushed, immortal,
                 job, child, inbox, responses>>

(* worker.close() is called, and `caller` goes on when it returns. *)
Closes(caller) == pc' = "close" /\ then' = caller

(* The worker's first line arrives in time. *)
Ready ==
  /\ pc = "readiness" /\ responses[worker] # <<>>
  /\ Head(responses[worker]) = ReadyLine
  /\ responses' = [responses EXCEPT ![worker] = Tail(@)]
  /\ workers' = [workers EXCEPT ![codec] = worker]
  /\ pc' = "poll"
  /\ UNCHANGED <<request, codec, worker, then, closed, spawned, outcome,
                 escaped, unflushed, immortal, proc, job, child, inbox>>

(* Mutant: the constructor raises without closing the process. *)
NotReadyRaises ==
  /\ pc = "readiness" /\ responses[worker] = <<>>
  /\ outcome' = [outcome EXCEPT ![request] = "failed"]
  /\ pc' = "idle"
  /\ UNCHANGED <<request, codec, worker, then, closed, workers, spawned,
                 escaped, unflushed, immortal, procVars>>

(* No line in time, or the end of the output. *)
NotReady ==
  /\ pc = "readiness"
  /\ \/ responses[worker] = <<>> /\ UNCHANGED responses
     \/ /\ responses[worker] # <<>>
        /\ Head(responses[worker]) = EndOfOutput
        /\ responses' = [responses EXCEPT ![worker] = Tail(@)]
  /\ Closes("startup")
  /\ UNCHANGED <<request, codec, worker, closed, workers, spawned, outcome,
                 escaped, unflushed, immortal, proc, job, child, inbox>>

(* process.poll() before the request is written. *)
Poll ==
  /\ pc = "poll"
  /\ \/ Alive(worker) /\ pc' = "write" /\ UNCHANGED then
     \/ ~Alive(worker) /\ Closes("run")
  /\ UNCHANGED <<request, codec, worker, closed, workers, spawned, outcome,
                 escaped, unflushed, immortal, procVars>>

WriteRequest ==
  /\ pc = "write" /\ Alive(worker)
  /\ inbox' = [inbox EXCEPT ![worker] = Append(@, Ask(request))]
  /\ pc' = "answer"
  /\ UNCHANGED <<request, codec, worker, then, closed, workers, spawned,
                 outcome, escaped, unflushed, immortal, proc, job, child,
                 responses>>

(* The worker died after poll(): BrokenPipeError, and the request stays in *)
(* the buffer of stdin.                                                    *)
WriteBreaks ==
  /\ pc = "write" /\ ~Alive(worker)
  /\ unflushed' = unflushed \cup {worker}
  /\ Closes("run")
  /\ UNCHANGED <<request, codec, worker, closed, workers, spawned, outcome,
                 escaped, immortal, procVars>>

(* The answer with the request's own id. *)
Answered ==
  /\ pc = "answer" /\ responses[worker] # <<>>
  /\ Head(responses[worker]) = Answer(request)
  /\ responses' = [responses EXCEPT ![worker] = Tail(@)]
  /\ outcome' = [outcome EXCEPT ![request] = "answered"]
  /\ pc' = "idle"
  /\ UNCHANGED <<request, codec, worker, then, closed, workers, spawned,
                 escaped, unflushed, immortal, proc, job, child, inbox>>

(* "exited without a response" or "response ID mismatch". *)
NoAnswer ==
  /\ pc = "answer" /\ responses[worker] # <<>>
  /\ Head(responses[worker]) # Answer(request)
  /\ responses' = [responses EXCEPT ![worker] = Tail(@)]
  /\ Closes("run")
  /\ UNCHANGED <<request, codec, worker, closed, workers, spawned, outcome,
                 escaped, unflushed, immortal, proc, job, child, inbox>>

(* Mutant: the operation fails, and the worker is kept. *)
TimesOutOnly ==
  /\ pc = "answer" /\ responses[worker] = <<>>
  /\ outcome' = [outcome EXCEPT ![request] = "failed"]
  /\ pc' = "idle"
  /\ UNCHANGED <<request, codec, worker, then, closed, workers, spawned,
                 escaped, unflushed, immortal, procVars>>

(* Mutant: responses.get() without a timeout, polling for a dead worker. *)
WaitsWhileAlive ==
  /\ pc = "answer" /\ responses[worker] = <<>> /\ ~Alive(worker)
  /\ Closes("run")
  /\ UNCHANGED <<request, codec, worker, closed, workers, spawned, outcome,
                 escaped, unflushed, immortal, procVars>>

TimesOut ==
  /\ pc = "answer" /\ responses[worker] = <<>>
  /\ Closes("run")
  /\ UNCHANGED <<request, codec, worker, closed, workers, spawned, outcome,
                 escaped, unflushed, immortal, procVars>>
------------------------------------------------------------------------------
(* _PersistentWorker.close, step by step. *)
ClosePoll ==
  /\ pc = "close"
  /\ pc' = IF Alive(worker) THEN "shutdown" ELSE "streams"
  /\ UNCHANGED <<request, codec, worker, then, closed, workers, spawned,
                 outcome, escaped, unflushed, immortal, procVars>>

WriteShutdown ==
  /\ pc = "shutdown"
  /\ IF Alive(worker)
     THEN /\ inbox' = [inbox EXCEPT ![worker] = Append(@, Shutdown)]
          /\ pc' = "wait"
          /\ UNCHANGED unflushed
     ELSE /\ unflushed' = unflushed \cup {worker}
          /\ pc' = "terminate"
          /\ UNCHANGED inbox
  /\ UNCHANGED <<request, codec, worker, then, closed, workers, spawned,
                 outcome, escaped, immortal, proc, job, child, responses>>

(* process.wait(timeout=1.0) returns. *)
Exited ==
  /\ pc \in {"wait", "wait terminate", "wait kill"} /\ ~Alive(worker)
  /\ pc' = "streams"
  /\ UNCHANGED <<request, codec, worker, then, closed, workers, spawned,
                 outcome, escaped, unflushed, immortal, procVars>>

StillRuns ==
  /\ pc \in {"wait", "wait terminate"} /\ Alive(worker)
  /\ pc' = IF pc = "wait" THEN "terminate" ELSE "kill"
  /\ UNCHANGED <<request, codec, worker, then, closed, workers, spawned,
                 outcome, escaped, unflushed, immortal, procVars>>

(* terminate() and kill(); whether and when the worker dies of it is up to *)
(* the operating system.                                                   *)
Signal ==
  /\ pc \in {"terminate", "kill"}
  /\ pc' = IF pc = "terminate" THEN "wait terminate" ELSE "wait kill"
  /\ UNCHANGED <<request, codec, worker, then, closed, workers, spawned,
                 outcome, escaped, unflushed, immortal, proc, job, child,
                 inbox, responses>>

(* An exception leaves pool.run: the runner's finally clause closes the    *)
(* pool.  One that leaves pool.close ends the run.                         *)
Escapes ==
  /\ escaped' = TRUE
  /\ pc' = IF then = "pool" THEN "aborted" ELSE "pool"
  /\ UNCHANGED <<closed, workers, outcome>>

(* subprocess.TimeoutExpired, which nobody catches, a second after kill(). *)
Survives ==
  /\ pc = "wait kill" /\ Alive(worker)
  /\ immortal' = immortal \cup {worker}
  /\ Escapes
  /\ UNCHANGED <<request, codec, worker, then, spawned, unflushed, procVars>>

(* pool.run pops a worker it closed and returns the error; pool.close goes *)
(* on to the next worker.                                                  *)
Resume ==
  /\ IF then = "pool"
     THEN /\ closed' = closed \cup {c \in Codecs : workers[c] = worker}
          /\ pc' = "pool"
          /\ UNCHANGED <<workers, outcome>>
     ELSE /\ outcome' = [outcome EXCEPT ![request] = "failed"]
          /\ workers' = IF then = "run"
                        THEN [workers EXCEPT ![codec] = None] ELSE workers
          /\ pc' = "idle"
          /\ UNCHANGED closed
  /\ UNCHANGED escaped

(* Closing the streams: stdin first, which flushes what is left in it.     *)
(* Only pool.run's first handler catches the BrokenPipeError, when the     *)
(* worker was being started.                                               *)
CloseStreams ==
  /\ pc = "streams"
  /\ IF worker \in unflushed /\ then # "startup" THEN Escapes ELSE Resume
  /\ unflushed' = unflushed \ {worker}
  /\ UNCHANGED <<request, codec, worker, then, spawned, immortal, procVars>>

(* The runner is done with its trials. *)
ClosePool ==
  /\ pc = "idle"
  /\ pc' = "pool"
  /\ UNCHANGED <<request, codec, worker, then, closed, workers, spawned,
                 outcome, escaped, unflushed, immortal, procVars>>

CloseNext(c) ==
  /\ pc = "pool" /\ workers[c] # None /\ c \notin closed
  /\ worker' = workers[c]
  /\ Closes("pool")
  /\ UNCHANGED <<request, codec, closed, workers, spawned, outcome, escaped,
                 unflushed, immortal, procVars>>

PoolClosed ==
  /\ pc = "pool" /\ \A c \in Codecs : workers[c] # None => c \in closed
  /\ workers' = [c \in Codecs |-> None]
  /\ pc' = "closed"
  /\ UNCHANGED <<request, codec, worker, then, closed, spawned, outcome,
                 escaped, unflushed, immortal, procVars>>
------------------------------------------------------------------------------
(* worker.py --server.  A request may run an external codec below it. *)
Serve(w) ==
  /\ proc[w] = "booting"
  /\ proc' = [proc EXCEPT ![w] = "idle"]
  /\ responses' = [responses EXCEPT ![w] = Append(@, ReadyLine)]
  /\ UNCHANGED <<poolVars, job, child, inbox>>

TakeRequest(w) ==
  /\ proc[w] = "idle" /\ inbox[w] # <<>> /\ Head(inbox[w]) # Shutdown
  /\ inbox' = [inbox EXCEPT ![w] = Tail(@)]
  /\ proc' = [proc EXCEPT ![w] = "busy"]
  /\ job' = [job EXCEPT ![w] = Head(inbox[w])[2]]
  /\ \E external \in BOOLEAN :
       child' = [child EXCEPT ![w] = IF external THEN Head(inbox[w])[2] ELSE None]
  /\ UNCHANGED <<poolVars, responses>>

(* Mutant: the worker answers without waiting for the external codec. *)
RespondsAtOnce(w) ==
  /\ proc[w] = "busy"
  /\ responses' = [responses EXCEPT ![w] = Append(@, Answer(job[w]))]
  /\ proc' = [proc EXCEPT ![w] = "idle"]
  /\ job' = [job EXCEPT ![w] = None]
  /\ UNCHANGED <<poolVars, child, inbox>>

(* The result, or the error, of the request. *)
Respond(w) ==
  /\ proc[w] = "busy" /\ child[w] = None
  /\ responses' = [responses EXCEPT ![w] = Append(@, Answer(job[w]))]
  /\ proc' = [proc EXCEPT ![w] = "idle"]
  /\ job' = [job EXCEPT ![w] = None]
  /\ UNCHANGED <<poolVars, child, inbox>>

TakeShutdown(w) ==
  /\ proc[w] = "idle" /\ inbox[w] # <<>> /\ Head(inbox[w]) = Shutdown
  /\ inbox' = [inbox EXCEPT ![w] = Tail(@)]
  /\ responses' = [responses EXCEPT ![w] = Append(@, Shutdown)]
  /\ proc' = [proc EXCEPT ![w] = "exited"]
  /\ UNCHANGED <<poolVars, job, child>>

(* A worker dies of a crash at any time, or of a signal; the external      *)
(* codec below it goes on.                                                 *)
Dies(w) ==
  /\ Alive(w)
  /\ proc' = [proc EXCEPT ![w] = "exited"]
  /\ job' = [job EXCEPT ![w] = None]
  /\ UNCHANGED <<poolVars, child, inbox, responses>>

(* The reader thread reaches the end of the output. *)
ReaderEnds(w) ==
  /\ proc[w] = "exited"
  /\ proc' = [proc EXCEPT ![w] = "reaped"]
  /\ responses' = [responses EXCEPT ![w] = Append(@, EndOfOutput)]
  /\ UNCHANGED <<poolVars, job, child, inbox>>

ChildEnds(w) ==
  /\ child[w] # None
  /\ child' = [child EXCEPT ![w] = None]
  /\ UNCHANGED <<poolVars, proc, job, inbox, responses>>
------------------------------------------------------------------------------
Runner ==
  \/ \E c \in Codecs : Call(c) \/ CloseNext(c)
  \/ Ready \/ NotReady \/ Poll \/ WriteRequest \/ WriteBreaks
  \/ Answered \/ NoAnswer \/ TimesOut
  \/ ClosePoll \/ WriteShutdown \/ Exited \/ StillRuns \/ Signal \/ Survives
  \/ CloseStreams \/ ClosePool \/ PoolClosed

Worker(w) ==
  \/ Serve(w) \/ TakeRequest(w) \/ Respond(w) \/ TakeShutdown(w) \/ Dies(w)
  \/ ReaderEnds(w) \/ ChildEnds(w)

Ended == pc \in {"closed", "aborted"} /\ UNCHANGED vars

Next == Runner \/ (\E w \in Procs : Worker(w)) \/ Ended

Spec == Init /\ [][Next]_vars

(* Only the runner's thread is scheduled for certain: a codec may hang.    *)
FairSpec == Spec /\ WF_vars(Runner)
------------------------------------------------------------------------------
TypeOK ==
  /\ pc \in {"idle", "readiness", "poll", "write", "answer", "close",
             "shutdown", "wait", "terminate", "wait terminate", "kill",
             "wait kill", "streams", "pool", "closed", "aborted"}
  /\ request \in 0..MaxRequests /\ spawned \in 0..MaxSpawns
  /\ codec \in Codecs /\ worker \in {None} \cup Procs
  /\ then \in {"startup", "run", "pool"}
  /\ closed \subseteq Codecs /\ escaped \in BOOLEAN
  /\ workers \in [Codecs -> {None} \cup Procs]
  /\ outcome \in [Requests -> {"none", "answered", "failed"}]
  /\ proc \in [Procs -> {"none", "booting", "idle", "busy", "exited", "reaped"}]
  /\ job \in [Procs -> {None} \cup Requests]
  /\ child \in [Procs -> {None} \cup Requests]
  /\ unflushed \subseteq Procs /\ immortal \subseteq Procs

(* An answer that comes too late never meets a later request: what a       *)
(* worker in the pool can have said is the answer to the current request   *)
(* or nothing, so "response ID mismatch" is never raised for an operation  *)
(* that did not ask a mixed-up worker.                                     *)
OwnAnswers ==
  /\ pc = "answer" =>
       \A n \in 1..Len(responses[worker]) :
         responses[worker][n] \in {Answer(request), EndOfOutput}
  /\ pc = "idle" =>
       \A c \in Codecs : workers[c] # None =>
         responses[workers[c]] \in {<<>>, <<EndOfOutput>>}

(* A worker process that lives is in the pool or in the runner's hands;    *)
(* so a codec has one worker, and none is left when the pool has closed,   *)
(* whatever timed out or failed before.  Excepted are a process that       *)
(* kill() did not end in a second, and a run that pool.close() aborted.    *)
NoStrayWorkers ==
  \A w \in Procs :
    Alive(w) /\ w \notin immortal /\ pc # "aborted" =>
      \/ \E c \in Codecs : workers[c] = w
      \/ w = worker /\ pc \notin {"idle", "pool", "closed"}

(* While an operation is measured - its answer is awaited - no external    *)
(* codec runs but its own and those of operations that failed before it,   *)
(* whose workers have left the pool.  The exception is the code's: neither *)
(* terminate() nor kill() ends the codec below a worker, so that it may    *)
(* run on beside whatever is measured after a failure.  As long as none    *)
(* has failed, each operation is measured alone.                           *)
MeasuredApart ==
  pc = "answer" =>
    \A w \in Procs : child[w] # None =>
      IF w = worker THEN child[w] = request
      ELSE outcome[child[w]] = "failed" /\ \A c \in Codecs : workers[c] # w

(* Whatever the workers do - hang, die, answer too late - the runner gets  *)
(* through its trials and through closing the pool.                        *)
RunnerEnds == <>(pc \in {"closed", "aborted"})
==============================================================================
