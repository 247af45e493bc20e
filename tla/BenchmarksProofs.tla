----------------------------- MODULE BenchmarksProofs -----------------------------
(***************************************************************************)
(* The worker pool for any number of codecs, requests and processes: an    *)
(* answer belongs to its request, no process is forgotten, and beside an   *)
(* operation that is measured only the external codecs of failed ones run. *)
(* Evidence and its import receipt are whole for any number of importers,  *)
(* seals and faults.  A validation passes on the results of one attempt,   *)
(* for any number of runs, items, outcomes and faults.                     *)
(***************************************************************************)
EXTENDS MCBenchmarks, SequenceTheorems, FiniteSetTheorems, TLAPS

(* The runner is inside _PersistentWorker.close.                           *)
Closing ==
  {"close", "shutdown", "wait", "terminate", "wait terminate", "kill",
   "wait kill", "streams"}

Lines ==
  {ReadyLine, Shutdown, EndOfOutput}
    \cup {Ask(r) : r \in Requests} \cup {Answer(r) : r \in Requests}
Piped == inbox \in [Procs -> Seq(Lines)] /\ responses \in [Procs -> Seq(Lines)]

(* A worker has at most one codec, and the others have never been started. *)
Numbering ==
  /\ worker <= spawned
  /\ \A c \in Codecs : workers[c] <= spawned
  /\ \A w \in Procs : w > spawned =>
       proc[w] = "none" /\ inbox[w] = <<>> /\ responses[w] = <<>> /\ child[w] = None
  /\ \A c, d \in Codecs : workers[c] = workers[d] /\ workers[c] # None => c = d

(* A worker that has said it is ready, at most.                            *)
Starting(w) ==
  /\ inbox[w] = <<>> /\ child[w] = None
  /\ \/ proc[w] = "booting" /\ responses[w] = <<>>
     \/ proc[w] = "idle" /\ responses[w] = <<ReadyLine>>
     \/ proc[w] = "exited" /\ responses[w] \in {<<>>, <<ReadyLine>>}
     \/ proc[w] = "reaped"
        /\ responses[w] \in {<<EndOfOutput>>, <<ReadyLine, EndOfOutput>>}

(* A worker without a request that has said nothing since its last answer. *)
Quiet(w) ==
  /\ inbox[w] = <<>> /\ child[w] = None
  /\ \/ proc[w] \in {"idle", "exited"} /\ responses[w] = <<>>
     \/ proc[w] = "reaped" /\ responses[w] = <<EndOfOutput>>

(* A worker with the current request, and before, in or after its work.    *)
Asked(w) ==
  /\ child[w] \in {None, request}
  /\ \/ /\ inbox[w] = <<Ask(request)>>
        /\ \/ proc[w] \in {"idle", "exited"} /\ responses[w] = <<>>
           \/ proc[w] = "reaped" /\ responses[w] = <<EndOfOutput>>
     \/ inbox[w] = <<>> /\ proc[w] = "busy" /\ job[w] = request /\ responses[w] = <<>>
     \/ /\ inbox[w] = <<>>
        /\ \/ proc[w] = "exited" /\ responses[w] = <<>>
           \/ proc[w] = "reaped" /\ responses[w] = <<EndOfOutput>>
     \/ /\ inbox[w] = <<>> /\ child[w] = None
        /\ \/ proc[w] \in {"idle", "exited"} /\ responses[w] = <<Answer(request)>>
           \/ proc[w] = "reaped" /\ responses[w] = <<Answer(request), EndOfOutput>>

(* What each place of the runner knows of the worker in hand.              *)
InHand ==
  /\ pc \in {"readiness", "poll", "write", "answer"} \cup Closing => worker # None
  /\ pc \in {"poll", "write", "answer"} \/ (pc \in Closing /\ then = "run")
        => workers[codec] = worker
  /\ pc = "readiness" \/ (pc \in Closing /\ then = "startup")
        => workers[codec] = None /\ \A c \in Codecs : workers[c] # worker
  /\ pc \in {"readiness", "poll", "write", "answer"} => request # None
  /\ pc = "readiness" => Starting(worker)
  /\ pc \in {"poll", "write"} => Quiet(worker)
  /\ pc = "answer" => Asked(worker)
  /\ pc \in {"streams"} => ~Alive(worker)

(* The runner has not begun to close the pool.                             *)
Serving ==
  \/ pc \in {"idle", "readiness", "poll", "write", "answer"}
  \/ pc \in Closing /\ then # "pool"

(* The other workers of the pool are quiet.                                *)
PoolQuiet ==
  Serving => \A c \in Codecs :
    workers[c] # None /\ (workers[c] # worker \/ pc = "idle") => Quiet(workers[c])

(* What has been closed is dead.                                           *)
ClosedDead ==
  /\ closed # {} => ~Serving
  /\ \A c \in closed : workers[c] # None => ~Alive(workers[c])

(* What is asked, worked on or run below a worker is a request made.       *)
Unanswered == {r \in Requests : r <= request /\ outcome[r] # "answered"}
Pending ==
  \A w \in Procs :
    /\ child[w] # None => child[w] \in Unanswered
    /\ proc[w] = "busy" => job[w] \in Unanswered
    /\ \A n \in 1..Len(inbox[w]) :
         inbox[w][n] = Shutdown \/ \E r \in Unanswered : inbox[w][n] = Ask(r)

(* The worker has nothing to do with the current request.                  *)
Elsewhere(w) ==
  /\ child[w] # request
  /\ proc[w] = "busy" => job[w] # request
  /\ \A n \in 1..Len(inbox[w]) : inbox[w][n] # Ask(request)
CurrentRequest ==
  \A w \in Procs :
    /\ pc \in {"readiness", "poll", "write"} => Elsewhere(w)
    /\ pc = "answer" => w = worker \/ Elsewhere(w)

(* A request is answered or failed once, when its operation ends.          *)
RequestOpen ==
  /\ \A r \in Requests : /\ r > request => outcome[r] = "none"
                         /\ r < request => outcome[r] # "none"
  /\ pc = "idle" /\ request # None => outcome[request] # "none"
  /\ pc \in {"readiness", "poll", "write", "answer"} => outcome[request] = "none"

IInv ==
  /\ TypeOK /\ Piped /\ Numbering /\ InHand /\ PoolQuiet /\ ClosedDead
  /\ Pending /\ CurrentRequest /\ RequestOpen /\ NoStrayWorkers

LEMMA LineFacts ==
  /\ ReadyLine # EndOfOutput
  /\ \A r : Answer(r) # EndOfOutput /\ Ask(r)[2] = r /\ Ask(r) # Shutdown
  /\ \A r, s : Ask(r) = Ask(s) => r = s
  BY DEF ReadyLine, EndOfOutput, Answer, Ask, Shutdown

LEMMA LineTypes ==
  /\ ReadyLine \in Lines /\ Shutdown \in Lines /\ EndOfOutput \in Lines
  /\ \A r \in Requests : Ask(r) \in Lines /\ Answer(r) \in Lines
  BY DEF Lines

(* Lines of at most two messages.                                          *)
LEMMA ShortSequences ==
  \A x, y :
    /\ Append(<<>>, x) = <<x>> /\ Append(<<x>>, y) = <<x, y>>
    /\ Head(<<x>>) = x /\ Tail(<<x>>) = <<>>
    /\ Head(<<x, y>>) = x /\ Tail(<<x, y>>) = <<y>>
    /\ <<x>> # <<>> /\ <<x, y>> # <<>>
<1> TAKE x, y
<1>1. Append(<<>>, x) = <<x>>
  OBVIOUS
<1>2. Append(<<x>>, y) = <<x, y>>
  <2>1. <<x>> \in Seq({x, y}) /\ <<x, y>> \in Seq({x, y}) /\ y \in {x, y}
    OBVIOUS
  <2>2. Append(<<x>>, y) \in Seq({x, y}) /\ Len(Append(<<x>>, y)) = 2
    BY <2>1
  <2>3. Append(<<x>>, y)[1] = x /\ Append(<<x>>, y)[2] = y
    BY <2>1
  <2>4. \A n \in 1..2 : Append(<<x>>, y)[n] = <<x, y>>[n]
    BY <2>3
  <2>5. Len(<<x, y>>) = 2
    OBVIOUS
  <2>6. QED
    BY <2>1, <2>2, <2>4, <2>5, SeqEqual
<1>3. Head(<<x>>) = x /\ Head(<<x, y>>) = x
  OBVIOUS
<1>4. Tail(<<x>>) = <<>>
  OBVIOUS
<1>5. Tail(<<x, y>>) = <<y>>
  OBVIOUS
<1>6. <<x>> # <<>> /\ <<x, y>> # <<>>
  OBVIOUS
<1>7. QED
  BY <1>1, <1>2, <1>3, <1>4, <1>5, <1>6

LEMMA InitIInv == Init => IInv
<1> SUFFICES ASSUME Init PROVE IInv
  OBVIOUS
<1> USE PoolAssumption DEF Init, None
<1>1. TypeOK
  <2>1. request \in 0..MaxRequests /\ spawned \in 0..MaxSpawns
    OBVIOUS
  <2>2. codec \in Codecs /\ workers \in [Codecs -> {None} \cup Procs]
    OBVIOUS
  <2>3. outcome \in [Requests -> {"none", "answered", "failed"}]
    OBVIOUS
  <2>4. /\ job \in [Procs -> {None} \cup Requests]
        /\ child \in [Procs -> {None} \cup Requests]
        /\ proc \in [Procs -> {"none", "booting", "idle", "busy", "exited", "reaped"}]
    OBVIOUS
  <2>5. QED
    BY <2>1, <2>2, <2>3, <2>4 DEF TypeOK
<1>2. Piped
  <2>1. <<>> \in Seq(Lines)
    OBVIOUS
  <2>2. QED
    BY <2>1 DEF Piped
<1>3. Numbering /\ InHand
  BY DEF Numbering, InHand, Closing
<1>4. PoolQuiet /\ ClosedDead
  BY DEF PoolQuiet, ClosedDead, Serving
<1>5. Pending /\ CurrentRequest
  BY DEF Pending, CurrentRequest
<1>6. NoStrayWorkers
  BY DEF NoStrayWorkers, Alive
<1>7. RequestOpen
  BY DEF RequestOpen, Requests
<1>8. QED
  BY <1>1, <1>2, <1>3, <1>4, <1>5, <1>6, <1>7 DEF IInv
-------------------------------------------------------------------------------
(* What a worker does on its own.                                          *)

(* The request at the head of a worker's stdin.                            *)
LEMMA TakenRequest ==
  ASSUME IInv, NEW w \in Procs, TakeRequest(w)
  PROVE  \E r \in Unanswered : Head(inbox[w]) = Ask(r) /\ Head(inbox[w])[2] = r
<1>1. inbox[w] # <<>> /\ Head(inbox[w]) # Shutdown /\ inbox[w] \in Seq(Lines)
  BY DEF TakeRequest, IInv, Piped
<1>2. Head(inbox[w]) = inbox[w][1] /\ 1 \in 1..Len(inbox[w])
  BY <1>1
<1>3. PICK r \in Unanswered : inbox[w][1] = Ask(r)
  BY <1>1, <1>2 DEF IInv, Pending
<1>4. QED
  BY <1>2, <1>3, LineFacts

LEMMA WorkerTypes ==
  ASSUME IInv, NEW w \in Procs, Worker(w)
  PROVE  TypeOK' /\ Piped' /\ UNCHANGED poolVars
<1>0. UNCHANGED poolVars
  BY DEF Worker, Serve, TakeRequest, Respond, TakeShutdown, Dies, ReaderEnds, ChildEnds
<1>1. /\ proc \in [Procs -> {"none", "booting", "idle", "busy", "exited", "reaped"}]
      /\ job \in [Procs -> {None} \cup Requests]
      /\ child \in [Procs -> {None} \cup Requests]
      /\ inbox \in [Procs -> Seq(Lines)] /\ responses \in [Procs -> Seq(Lines)]
  BY DEF IInv, TypeOK, Piped
<1>2. /\ proc' \in [Procs -> {"none", "booting", "idle", "busy", "exited", "reaped"}]
      /\ job' \in [Procs -> {None} \cup Requests]
      /\ child' \in [Procs -> {None} \cup Requests]
      /\ inbox' \in [Procs -> Seq(Lines)] /\ responses' \in [Procs -> Seq(Lines)]
  <2>1. CASE Serve(w)
    BY <1>1, <2>1, LineTypes DEF Serve
  <2>2. CASE TakeRequest(w)
    <3>1. PICK r \in Requests : Head(inbox[w])[2] = r
      BY <2>2, TakenRequest DEF Unanswered
    <3>2. inbox[w] # <<>> /\ inbox' = [inbox EXCEPT ![w] = Tail(@)]
      BY <2>2 DEF TakeRequest
    <3>3. Tail(inbox[w]) \in Seq(Lines)
      BY <1>1, <3>2
    <3>4. inbox' \in [Procs -> Seq(Lines)]
      BY <1>1, <3>2, <3>3
    <3>5. QED
      BY <1>1, <2>2, <3>1, <3>4 DEF TakeRequest
  <2>3. CASE Respond(w)
    <3>1. job[w] \in Requests
      BY <2>3 DEF Respond, IInv, Pending, Unanswered
    <3>2. QED
      BY <1>1, <2>3, <3>1, LineTypes DEF Respond
  <2>4. CASE TakeShutdown(w)
    <3>1. Tail(inbox[w]) \in Seq(Lines)
      BY <1>1, <2>4 DEF TakeShutdown
    <3>2. QED
      BY <1>1, <2>4, <3>1, LineTypes DEF TakeShutdown
  <2>5. CASE Dies(w)
    BY <1>1, <2>5 DEF Dies
  <2>6. CASE ReaderEnds(w)
    BY <1>1, <2>6, LineTypes DEF ReaderEnds
  <2>7. CASE ChildEnds(w)
    BY <1>1, <2>7 DEF ChildEnds
  <2>8. QED
    BY <2>1, <2>2, <2>3, <2>4, <2>5, <2>6, <2>7 DEF Worker
<1>3. QED
  BY <1>0, <1>2 DEF poolVars, IInv, TypeOK, Piped

(* It stays what the runner takes it for.                                  *)
LEMMA WorkerStays ==
  ASSUME IInv, NEW w \in Procs, Worker(w), NEW v \in Procs
  PROVE  /\ Starting(v) => Starting(v)'
         /\ Quiet(v) => Quiet(v)'
         /\ Asked(v) => Asked(v)'
         /\ ~Alive(v) => ~Alive(v)'
         /\ v > spawned =>
              /\ proc'[v] = "none" /\ inbox'[v] = <<>> /\ responses'[v] = <<>>
              /\ child'[v] = None
<1>0. UNCHANGED <<request, spawned>>
  BY WorkerTypes DEF poolVars
<1>1. v > spawned =>
        proc[v] = "none" /\ inbox[v] = <<>> /\ responses[v] = <<>> /\ child[v] = None
  BY DEF IInv, Numbering
<1>2. /\ proc \in [Procs -> {"none", "booting", "idle", "busy", "exited", "reaped"}]
      /\ job \in [Procs -> {None} \cup Requests]
      /\ child \in [Procs -> {None} \cup Requests]
      /\ inbox \in [Procs -> Seq(Lines)] /\ responses \in [Procs -> Seq(Lines)]
  BY DEF IInv, TypeOK, Piped
<1>3. CASE UNCHANGED <<proc[v], job[v], child[v], inbox[v], responses[v]>>
  BY <1>0, <1>1, <1>3 DEF Starting, Quiet, Asked, Alive
<1>4. CASE Serve(w) /\ v = w
  <2>1. /\ proc[v] = "booting" /\ proc'[v] = "idle" /\ UNCHANGED <<inbox, child>>
        /\ responses'[v] = Append(responses[v], ReadyLine)
    BY <1>2, <1>4 DEF Serve
  <2>2. QED
    BY <1>0, <1>1, <2>1, ShortSequences DEF Starting, Quiet, Asked, Alive
<1>5. CASE TakeRequest(w) /\ v = w
  <2>1. /\ proc[v] = "idle" /\ proc'[v] = "busy" /\ UNCHANGED responses
        /\ inbox[v] # <<>> /\ inbox'[v] = Tail(inbox[v])
        /\ job'[v] = Head(inbox[v])[2]
        /\ child'[v] \in {None, Head(inbox[v])[2]}
    BY <1>2, <1>5 DEF TakeRequest
  <2>2. ~Starting(v) /\ ~Quiet(v) /\ Alive(v) /\ ~(v > spawned)
    BY <1>1, <2>1 DEF Starting, Quiet, Alive
  <2>3. ASSUME Asked(v) PROVE Asked(v)'
    <3>1. inbox[v] = <<Ask(request)>> /\ responses[v] = <<>>
      BY <2>1, <2>3 DEF Asked
    <3>2. inbox'[v] = <<>> /\ job'[v] = request /\ child'[v] \in {None, request}
      BY <2>1, <3>1, ShortSequences, LineFacts
    <3>3. QED
      BY <1>0, <2>1, <3>1, <3>2 DEF Asked
  <2>4. QED
    BY <2>2, <2>3
<1>6. CASE Respond(w) /\ v = w
  <2>1. /\ proc[v] = "busy" /\ proc'[v] = "idle" /\ UNCHANGED <<inbox, child>>
        /\ responses'[v] = Append(responses[v], Answer(job[v])) /\ child[v] = None
    BY <1>2, <1>6 DEF Respond
  <2>2. Asked(v) => request # None
    BY <2>1, <1>6 DEF Respond, Asked, IInv, Pending, Unanswered, Requests, None
  <2>3. QED
    BY <1>0, <1>1, <2>1, <2>2, ShortSequences DEF Starting, Quiet, Asked, Alive
<1>7. CASE TakeShutdown(w) /\ v = w
  <2>1. /\ proc[v] = "idle" /\ proc'[v] = "exited"
        /\ inbox[v] # <<>> /\ Head(inbox[v]) = Shutdown
    BY <1>2, <1>7 DEF TakeShutdown
  <2>2. QED
    BY <1>0, <1>1, <2>1, ShortSequences, LineFacts DEF Starting, Quiet, Asked, Alive
<1>8. CASE Dies(w) /\ v = w
  <2>1. /\ Alive(v) /\ proc'[v] = "exited" /\ UNCHANGED <<inbox, responses, child>>
    BY <1>2, <1>8 DEF Dies
  <2>2. QED
    BY <1>0, <1>1, <2>1, ShortSequences DEF Starting, Quiet, Asked, Alive
<1>9. CASE ReaderEnds(w) /\ v = w
  <2>1. /\ proc[v] = "exited" /\ proc'[v] = "reaped" /\ UNCHANGED <<inbox, child>>
        /\ responses'[v] = Append(responses[v], EndOfOutput)
    BY <1>2, <1>9 DEF ReaderEnds
  <2>2. ~Alive(v)' /\ ~(v > spawned)
    BY <1>1, <2>1 DEF Alive
  <2>3. Starting(v) => Starting(v)'
    BY <2>1, ShortSequences DEF Starting
  <2>4. Quiet(v) => Quiet(v)'
    BY <2>1, ShortSequences DEF Quiet
  <2>5. Asked(v) => Asked(v)'
    <3>1. responses[v] = <<>> => responses'[v] = <<EndOfOutput>>
      BY <2>1, ShortSequences
    <3>2. responses[v] = <<Answer(request)>>
            => responses'[v] = <<Answer(request), EndOfOutput>>
      BY <2>1, ShortSequences
    <3>3. QED
      BY <1>0, <2>1, <3>1, <3>2 DEF Asked
  <2>6. QED
    BY <2>2, <2>3, <2>4, <2>5
<1>10. CASE ChildEnds(w) /\ v = w
  <2>1. child[v] # None /\ child'[v] = None /\ UNCHANGED <<proc, job, inbox, responses>>
    BY <1>2, <1>10 DEF ChildEnds
  <2>2. request # None
    <3>1. child[v] \in Unanswered
      BY <2>1 DEF IInv, Pending
    <3>2. child[v] \in 1..MaxRequests /\ child[v] <= request
      BY <3>1 DEF Unanswered, Requests
    <3>3. request \in Nat
      <4>1. request \in 0..MaxRequests
        BY DEF IInv, TypeOK
      <4>2. QED
        BY <4>1, PoolAssumption
    <3>4. QED
      BY <3>2, <3>3, PoolAssumption DEF None
  <2>3. QED
    BY <1>0, <1>1, <2>1, <2>2 DEF Starting, Quiet, Asked, Alive
<1>11. QED
  <2>1. CASE v = w
    BY <2>1, <1>4, <1>5, <1>6, <1>7, <1>8, <1>9, <1>10 DEF Worker
  <2>2. CASE v # w
    BY <2>2, <1>2, <1>3 DEF Worker, Serve, TakeRequest, Respond, TakeShutdown, Dies,
                    ReaderEnds, ChildEnds
  <2>3. QED
    BY <2>1, <2>2

(* It works on what it was asked, and on nothing else.                     *)
LEMMA WorkerRequests ==
  ASSUME IInv, NEW w \in Procs, Worker(w), NEW v \in Procs
  PROVE  /\ \/ child'[v] \in {None, child[v]}
            \/ inbox[v] # <<>> /\ child'[v] \in Requests /\ inbox[v][1] = Ask(child'[v])
         /\ proc'[v] = "busy" =>
              \/ proc[v] = "busy" /\ job'[v] = job[v]
              \/ inbox[v] # <<>> /\ job'[v] \in Requests /\ inbox[v][1] = Ask(job'[v])
         /\ inbox'[v] = inbox[v] \/ (inbox[v] # <<>> /\ inbox'[v] = Tail(inbox[v]))
<1>1. /\ proc \in [Procs -> {"none", "booting", "idle", "busy", "exited", "reaped"}]
      /\ job \in [Procs -> {None} \cup Requests]
      /\ child \in [Procs -> {None} \cup Requests]
      /\ inbox \in [Procs -> Seq(Lines)]
  BY DEF IInv, TypeOK, Piped
<1>2. CASE TakeRequest(w)
  <2>1. PICK r \in Requests : Head(inbox[w]) = Ask(r) /\ Head(inbox[w])[2] = r
    BY <1>2, TakenRequest DEF Unanswered
  <2>2. inbox[w] # <<>> /\ inbox[w][1] = Ask(r)
    BY <1>1, <1>2, <2>1 DEF TakeRequest
  <2>3. child'[w] \in {r, None} /\ job'[w] = r /\ inbox'[w] = Tail(inbox[w])
    BY <1>1, <1>2, <2>1 DEF TakeRequest
  <2>4. v # w => UNCHANGED <<child[v], proc[v], job[v], inbox[v]>>
    BY <1>1, <1>2 DEF TakeRequest
  <2>5. QED
    BY <2>2, <2>3, <2>4
<1>3. CASE ~TakeRequest(w)
  <2>1. child'[v] \in {None, child[v]}
    BY <1>1, <1>3 DEF Worker, Serve, Respond, TakeShutdown, Dies, ReaderEnds, ChildEnds
  <2>2. proc'[v] = "busy" => proc[v] = "busy" /\ job'[v] = job[v]
    BY <1>1, <1>3 DEF Worker, Serve, Respond, TakeShutdown, Dies, ReaderEnds, ChildEnds
  <2>3. inbox'[v] = inbox[v] \/ (inbox[v] # <<>> /\ inbox'[v] = Tail(inbox[v]))
    BY <1>1, <1>3 DEF Worker, Serve, Respond, TakeShutdown, Dies, ReaderEnds, ChildEnds
  <2>4. QED
    BY <2>1, <2>2, <2>3
<1>4. QED
  BY <1>2, <1>3

LEMMA WorkerIInv ==
  ASSUME IInv, NEW w \in Procs, Worker(w) PROVE IInv'
<1> USE DEF IInv
<1>1. TypeOK' /\ Piped' /\ UNCHANGED poolVars
  BY WorkerTypes
<1>2. Numbering'
  BY <1>1, WorkerStays DEF Numbering, poolVars
<1>3. InHand'
  <2>1. worker # None => worker \in Procs
    BY DEF TypeOK
  <2>2. ASSUME worker # None
        PROVE  /\ Starting(worker) => Starting(worker)'
               /\ Quiet(worker) => Quiet(worker)'
               /\ Asked(worker) => Asked(worker)'
               /\ ~Alive(worker) => ~Alive(worker)'
    BY <1>1, <2>1, <2>2, WorkerStays DEF poolVars
  <2>3. UNCHANGED <<pc, then, worker, workers, codec, request>>
    BY <1>1 DEF poolVars
  <2>4. /\ pc = "readiness" => Starting(worker)'
        /\ pc \in {"poll", "write"} => Quiet(worker)'
        /\ pc = "answer" => Asked(worker)'
        /\ pc = "streams" => ~Alive(worker)'
    <3>1. pc \in {"readiness", "poll", "write", "answer", "streams"} => worker # None
      BY DEF InHand, Closing
    <3>2. CASE worker = None
      BY <3>1, <3>2
    <3>3. CASE worker # None
      <4>1. /\ pc = "readiness" => Starting(worker)
            /\ pc \in {"poll", "write"} => Quiet(worker)
            /\ pc = "answer" => Asked(worker)
            /\ pc = "streams" => ~Alive(worker)
        BY DEF InHand
      <4>2. QED
        BY <2>2, <3>3, <4>1
    <3>4. QED
      BY <3>2, <3>3
  <2>5. QED
    BY <2>3, <2>4 DEF InHand
<1>4. PoolQuiet'
  <2>1. \A c \in Codecs : workers[c] # None => workers[c] \in Procs
    BY DEF TypeOK
  <2>2. QED
    BY <1>1, <2>1, WorkerStays DEF PoolQuiet, Serving, poolVars
<1>5. ClosedDead'
  <2>1. \A c \in closed : workers[c] # None => workers[c] \in Procs
    BY DEF TypeOK
  <2>2. QED
    BY <1>1, <2>1, WorkerStays DEF ClosedDead, Serving, poolVars
<1>6. Unanswered' = Unanswered
  BY <1>1 DEF Unanswered, poolVars
<1>7. Pending' /\ CurrentRequest'
  <2> SUFFICES ASSUME NEW v \in Procs
               PROVE  /\ child'[v] # None => child'[v] \in Unanswered
                      /\ proc'[v] = "busy" => job'[v] \in Unanswered
                      /\ \A n \in 1..Len(inbox'[v]) :
                           inbox'[v][n] = Shutdown
                             \/ \E r \in Unanswered : inbox'[v][n] = Ask(r)
                      /\ request # None /\ Elsewhere(v) => Elsewhere(v)'
    <3>1. pc \in {"readiness", "poll", "write", "answer"} => request # None
      BY DEF InHand
    <3>2. QED
      BY <1>1, <1>6, <3>1 DEF Pending, CurrentRequest, poolVars
  <2>1. inbox[v] \in Seq(Lines)
    BY DEF Piped
  <2>2. \A n \in 1..Len(inbox'[v]) : \E k \in 1..Len(inbox[v]) : inbox'[v][n] = inbox[v][k]
    <3>1. CASE inbox'[v] = inbox[v]
      BY <3>1
    <3>2. CASE inbox[v] # <<>> /\ inbox'[v] = Tail(inbox[v])
      <4>1. Len(inbox'[v]) = Len(inbox[v]) - 1 /\ Len(inbox[v]) \in Nat
            /\ \A n \in 1..Len(inbox'[v]) : inbox'[v][n] = inbox[v][n + 1]
        BY <2>1, <3>2
      <4>2. QED
        BY <4>1
    <3>3. QED
      BY <3>1, <3>2, WorkerRequests
  <2>3. inbox[v] # <<>> => 1 \in 1..Len(inbox[v])
    BY <2>1
  <2>4. \A r \in Requests : inbox[v] # <<>> /\ inbox[v][1] = Ask(r) => r \in Unanswered
    BY <2>3, LineFacts DEF Pending
  <2>5. child'[v] # None => child'[v] \in Unanswered
    BY <2>4, WorkerRequests DEF Pending
  <2>6. proc'[v] = "busy" => job'[v] \in Unanswered
    BY <2>4, WorkerRequests DEF Pending
  <2>7. \A n \in 1..Len(inbox'[v]) :
          inbox'[v][n] = Shutdown \/ \E r \in Unanswered : inbox'[v][n] = Ask(r)
    BY <2>2 DEF Pending
  <2>8. ASSUME request # None, Elsewhere(v) PROVE Elsewhere(v)'
    <3>1. child'[v] # request
      BY <2>3, <2>8, WorkerRequests DEF Elsewhere
    <3>2. proc'[v] = "busy" => job'[v] # request
      BY <2>3, <2>8, WorkerRequests DEF Elsewhere
    <3>3. \A n \in 1..Len(inbox'[v]) : inbox'[v][n] # Ask(request)
      BY <2>2, <2>8 DEF Elsewhere
    <3>4. QED
      BY <1>1, <3>1, <3>2, <3>3 DEF Elsewhere, poolVars
  <2>9. QED
    BY <2>5, <2>6, <2>7, <2>8
<1>8. NoStrayWorkers'
  BY <1>1, WorkerStays DEF NoStrayWorkers, poolVars
<1>9. RequestOpen'
  BY <1>1 DEF RequestOpen, poolVars
<1>10. QED
  BY <1>1, <1>2, <1>3, <1>4, <1>5, <1>7, <1>8, <1>9
-------------------------------------------------------------------------------
(* What the runner does while the processes stand still.                   *)

LEMMA ProcessesStand ==
  ASSUME UNCHANGED <<procVars, request>>, NEW v \in Procs
  PROVE  /\ Starting(v)' <=> Starting(v)
         /\ Quiet(v)' <=> Quiet(v)
         /\ Asked(v)' <=> Asked(v)
         /\ Alive(v)' <=> Alive(v)
         /\ Elsewhere(v)' <=> Elsewhere(v)
  BY DEF procVars, Starting, Quiet, Asked, Alive, Elsewhere

(* The worker in hand goes from one place to the next.                     *)
LEMMA RunnerMoves ==
  ASSUME IInv, UNCHANGED <<procVars, request, codec, worker, closed, workers,
                           spawned, outcome>>,
         pc' \in {"write"} \cup Closing, then' \in {"startup", "run", "pool"},
         pc' = "write" => pc = "poll",
         pc' # "write" /\ pc \notin Closing =>
             \/ pc = "readiness" /\ then' = "startup"
             \/ pc \in {"poll", "write", "answer"} /\ then' = "run",
         pc \in Closing => then' = then,
         pc \in {"readiness", "poll", "write", "answer"} \cup Closing,
         pc' = "streams" => ~Alive(worker),
         unflushed' \subseteq Procs, UNCHANGED <<escaped, immortal>>
  PROVE  IInv'
<1> USE DEF IInv
<1>1. worker # None /\ worker \in Procs
  BY DEF InHand, TypeOK
<1>2. /\ Starting(worker)' <=> Starting(worker)
      /\ Quiet(worker)' <=> Quiet(worker)
      /\ Asked(worker)' <=> Asked(worker)
      /\ Alive(worker)' <=> Alive(worker)
  BY <1>1, ProcessesStand
<1>3. TypeOK' /\ Piped'
  BY DEF TypeOK, Piped, procVars, Closing
<1>4. Numbering'
  BY DEF Numbering, procVars
<1>5. InHand'
  BY <1>1, <1>2 DEF InHand, Closing
<1>6. \A c \in Codecs : workers[c] # None => workers[c] \in Procs
  BY DEF TypeOK
<1>7. PoolQuiet'
  BY <1>6, ProcessesStand DEF PoolQuiet, Serving, Closing
<1>8. ClosedDead'
  <2>1. closed \subseteq Codecs
    BY DEF TypeOK
  <2>2. QED
    BY <1>6, <2>1, ProcessesStand DEF ClosedDead, Serving, Closing
<1>9. Pending'
  BY DEF Pending, Unanswered, procVars
<1>10. CurrentRequest' /\ RequestOpen'
  BY ProcessesStand DEF CurrentRequest, RequestOpen, Closing
<1>11. NoStrayWorkers'
  BY <1>1, ProcessesStand DEF NoStrayWorkers, Closing
<1>12. QED
  BY <1>3, <1>4, <1>5, <1>7, <1>8, <1>9, <1>10, <1>11

LEMMA MovingSteps ==
  ASSUME IInv, Poll \/ WriteBreaks \/ TimesOut \/ ClosePoll \/ Exited \/ StillRuns \/ Signal
  PROVE  IInv'
<1> USE DEF IInv
<1>1. then \in {"startup", "run", "pool"} /\ unflushed \subseteq Procs
      /\ worker \in {None} \cup Procs
  BY DEF TypeOK
<1>2. CASE Poll
  BY <1>1, <1>2, RunnerMoves DEF Poll, Closes, Closing
<1>3. CASE WriteBreaks
  <2>1. worker \in Procs
    BY <1>1, <1>3 DEF WriteBreaks, InHand
  <2>2. QED
    BY <1>1, <1>3, <2>1, RunnerMoves DEF WriteBreaks, Closes, Closing
<1>4. CASE TimesOut
  BY <1>1, <1>4, RunnerMoves DEF TimesOut, Closes, Closing
<1>5. CASE ClosePoll
  BY <1>1, <1>5, RunnerMoves DEF ClosePoll, Closing
<1>6. CASE Exited
  BY <1>1, <1>6, RunnerMoves DEF Exited, Closing
<1>7. CASE StillRuns
  BY <1>1, <1>7, RunnerMoves DEF StillRuns, Closing
<1>8. CASE Signal
  BY <1>1, <1>8, RunnerMoves DEF Signal, Closing, procVars
<1>9. QED
  BY <1>2, <1>3, <1>4, <1>5, <1>6, <1>7, <1>8

(* The pool is being closed, and no worker is asked any more.              *)
LEMMA PoolCloses ==
  ASSUME IInv, UNCHANGED <<procVars, request, codec, then, spawned, outcome>>,
         pc' \in {"pool", "closed", "aborted"},
         UNCHANGED worker, UNCHANGED unflushed \/ unflushed' = unflushed \ {worker},
         workers' = workers \/ workers' = [c \in Codecs |-> None],
         closed' \subseteq Codecs,
         \A c \in closed' : workers'[c] # None => ~Alive(workers[c]),
         immortal' \subseteq Procs, immortal \subseteq immortal', escaped' \in BOOLEAN,
         pc' # "aborted" => \A w \in Procs : Alive(w) /\ w \notin immortal' =>
                               \E c \in Codecs : workers'[c] = w
  PROVE  IInv'
<1> USE DEF IInv
<1>1. TypeOK' /\ Piped'
  BY DEF TypeOK, Piped, procVars
<1>2. Numbering'
  <2>1. CASE workers' = workers
    BY <2>1 DEF Numbering, procVars
  <2>2. CASE workers' = [c \in Codecs |-> None]
    <3>1. \A c \in Codecs : workers'[c] = 0
      BY <2>2 DEF None
    <3>2. spawned \in 0..MaxSpawns
      BY DEF TypeOK
    <3>3. \A c \in Codecs : workers'[c] <= spawned
      BY <3>1, <3>2, PoolAssumption
    <3>4. QED
      BY <3>1, <3>3 DEF Numbering, procVars, None
  <2>3. QED
    BY <2>1, <2>2
<1>3. InHand'
  BY DEF InHand, Closing
<1>4. PoolQuiet'
  BY DEF PoolQuiet, Serving, Closing
<1>5. ClosedDead'
  <2>1. ~Serving'
    BY DEF Serving, Closing
  <2>2. \A c \in Codecs : workers[c] # None => workers[c] \in Procs
    BY DEF TypeOK
  <2>3. \A c \in closed' : workers'[c] # None => workers'[c] = workers[c]
    BY DEF TypeOK
  <2>4. ASSUME NEW c \in Codecs, c \in closed', workers'[c] # None
        PROVE  ~(proc'[workers'[c]] \in {"booting", "idle", "busy"})
    BY <2>3, <2>4 DEF Alive, procVars
  <2>5. QED
    BY <2>1, <2>4 DEF ClosedDead, Alive
<1>6. Pending' /\ CurrentRequest' /\ RequestOpen'
  BY DEF Pending, Unanswered, CurrentRequest, RequestOpen, procVars
<1>7. NoStrayWorkers'
  BY ProcessesStand DEF NoStrayWorkers
<1>8. QED
  BY <1>1, <1>2, <1>3, <1>4, <1>5, <1>6, <1>7

LEMMA PoolSteps ==
  ASSUME IInv, ClosePool \/ PoolClosed PROVE IInv'
<1> USE DEF IInv
<1>1. CASE ClosePool
  BY <1>1, PoolCloses DEF ClosePool, TypeOK, ClosedDead, NoStrayWorkers
<1>2. CASE PoolClosed
  <2>1. \A c \in Codecs : workers[c] # None => ~Alive(workers[c])
    BY <1>2 DEF PoolClosed, ClosedDead
  <2>2. \A w \in Procs : Alive(w) => w \in immortal
    BY <1>2, <2>1 DEF PoolClosed, NoStrayWorkers, Procs, None
  <2>3. QED
    BY <1>2, <2>2, PoolCloses DEF PoolClosed, TypeOK
<1>3. QED
  BY <1>1, <1>2

LEMMA NextIsClosed ==
  ASSUME IInv, NEW c \in Codecs, CloseNext(c) PROVE IInv'
<1> USE DEF IInv, CloseNext, Closes
<1>1. workers[c] \in Procs /\ worker' = workers[c] /\ worker' # None
  BY DEF TypeOK
<1>2. TypeOK' /\ Piped'
  BY <1>1 DEF TypeOK, Piped, procVars
<1>3. Numbering'
  BY DEF Numbering, procVars
<1>4. InHand'
  BY <1>1 DEF InHand, Closing
<1>5. PoolQuiet' /\ ClosedDead'
  <2>1. closed \subseteq Codecs /\ \A d \in Codecs : workers[d] # None => workers[d] \in Procs
    BY DEF TypeOK
  <2>2. QED
    BY <2>1, ProcessesStand DEF PoolQuiet, ClosedDead, Serving, Closing
<1>6. Pending' /\ CurrentRequest' /\ RequestOpen'
  BY DEF Pending, Unanswered, CurrentRequest, RequestOpen, procVars
<1>7. NoStrayWorkers'
  BY ProcessesStand DEF NoStrayWorkers
<1>8. QED
  BY <1>2, <1>3, <1>4, <1>5, <1>6, <1>7

(* An exception leaves pool.run or pool.close.                             *)
LEMMA CallEscapes ==
  ASSUME IInv, Survives \/ (CloseStreams /\ worker \in unflushed /\ then # "startup")
  PROVE  IInv'
<1> USE DEF IInv
<1>1. worker \in Procs /\ pc \in Closing
  BY DEF Survives, CloseStreams, InHand, TypeOK, Closing
<1>2. /\ pc' \in {"pool", "aborted"} /\ escaped' = TRUE
      /\ UNCHANGED <<procVars, request, codec, then, spawned, outcome, worker,
                     closed, workers>>
      /\ unflushed' = unflushed \/ unflushed' = unflushed \ {worker}
      /\ immortal' = immortal \cup {worker} \/ (immortal' = immortal /\ ~Alive(worker))
  BY DEF Survives, CloseStreams, Escapes, InHand
<1>3. \A w \in Procs : Alive(w) /\ w \notin immortal' => \E c \in Codecs : workers'[c] = w
  BY <1>1, <1>2 DEF NoStrayWorkers, Closing
<1>4. closed \subseteq Codecs /\ immortal \subseteq Procs
  BY DEF TypeOK
<1>5. \A c \in closed' : workers'[c] # None => ~Alive(workers[c])
  BY <1>2 DEF ClosedDead
<1>6. QED
  BY <1>1, <1>2, <1>3, <1>4, <1>5, PoolCloses

(* worker.close() has returned: to pool.close ...                          *)
LEMMA WorkerClosed ==
  ASSUME IInv, CloseStreams, ~(worker \in unflushed /\ then # "startup"), then = "pool"
  PROVE  IInv'
<1> USE DEF IInv
<1>1. worker \in Procs /\ ~Alive(worker)
  BY DEF CloseStreams, InHand, TypeOK, Closing
<1>2. /\ pc' = "pool" /\ unflushed' = unflushed \ {worker}
      /\ closed' = closed \cup {c \in Codecs : workers[c] = worker}
      /\ UNCHANGED <<procVars, request, codec, then, spawned, outcome, worker,
                     workers, escaped, immortal>>
  BY DEF CloseStreams, Resume
<1>3. \A c \in closed' : workers'[c] # None => ~Alive(workers[c])
  BY <1>1, <1>2 DEF ClosedDead
<1>4. \A w \in Procs : Alive(w) /\ w \notin immortal' => \E c \in Codecs : workers'[c] = w
  BY <1>1, <1>2 DEF NoStrayWorkers, CloseStreams
<1>5. closed \subseteq Codecs /\ immortal \subseteq Procs /\ escaped \in BOOLEAN
  BY DEF TypeOK
<1>6. QED
  BY <1>2, <1>3, <1>4, <1>5, PoolCloses

(* ... or to pool.run, whose operation has failed.                         *)
LEMMA OperationFailed ==
  ASSUME IInv, CloseStreams, ~(worker \in unflushed /\ then # "startup"), then # "pool"
  PROVE  IInv'
<1> USE DEF IInv
<1>1. worker \in Procs /\ worker # None /\ ~Alive(worker)
  BY DEF CloseStreams, InHand, TypeOK, Closing
<1>2. /\ pc = "streams" /\ pc' = "idle" /\ unflushed' = unflushed \ {worker}
      /\ outcome' = [outcome EXCEPT ![request] = "failed"]
      /\ workers' = IF then = "run" THEN [workers EXCEPT ![codec] = None] ELSE workers
      /\ UNCHANGED <<procVars, request, codec, then, spawned, worker, closed,
                     escaped, immortal>>
  BY DEF CloseStreams, Resume
<1>3. workers \in [Codecs -> {None} \cup Procs] /\ codec \in Codecs
      /\ outcome \in [Requests -> {"none", "answered", "failed"}]
  BY DEF TypeOK
<1>4. \A c \in Codecs : /\ workers'[c] \in {None, workers[c]}
                        /\ workers'[c] # None => workers'[c] # worker
                        /\ workers[c] # worker => workers'[c] = workers[c]
  <2>1. CASE then = "run"
    BY <1>1, <1>2, <1>3, <2>1 DEF InHand, Closing, Numbering
  <2>2. CASE then = "startup"
    BY <1>2, <2>2 DEF InHand, Closing
  <2>3. QED
    BY <2>1, <2>2 DEF TypeOK
<1>5. TypeOK' /\ Piped'
  <2>1. /\ workers' \in [Codecs -> {None} \cup Procs]
        /\ outcome' \in [Requests -> {"none", "answered", "failed"}]
    BY <1>2, <1>3
  <2>2. QED
    BY <1>2, <2>1 DEF TypeOK, Piped, procVars
<1>6. Numbering'
  BY <1>2, <1>4, PoolAssumption DEF Numbering, TypeOK, procVars, None
<1>7. InHand'
  BY <1>2 DEF InHand, Closing
<1>8. PoolQuiet'
  <2>1. Serving
    BY <1>2 DEF Serving, Closing
  <2>2. ASSUME NEW c \in Codecs, workers'[c] # None PROVE Quiet(workers[c])
    BY <1>2, <1>4, <2>1, <2>2 DEF PoolQuiet
  <2>3. \A c \in Codecs : workers'[c] # None => workers'[c] = workers[c]
    BY <1>4
  <2>4. QED
    BY <1>2, <2>2, <2>3, <1>3 DEF PoolQuiet, Quiet, procVars
<1>9. ClosedDead'
  <2>1. closed = {}
    BY <1>2 DEF ClosedDead, Serving, Closing
  <2>2. QED
    BY <1>2, <2>1 DEF ClosedDead
<1>10. Pending' /\ CurrentRequest' /\ RequestOpen'
  <2>1. Unanswered \subseteq Unanswered'
    BY <1>2, <1>3 DEF Unanswered
  <2>2. RequestOpen'
    <3>1. request \in 0..MaxRequests
      BY DEF TypeOK
    <3>2. /\ \A r \in Requests : r > request \/ r < request => r # request
          /\ request # None => request \in Requests
      BY <3>1, PoolAssumption DEF Requests, None
    <3>3. QED
      BY <1>2, <1>3, <3>2 DEF RequestOpen
  <2>3. QED
    BY <1>2, <2>1, <2>2 DEF Pending, CurrentRequest, procVars
<1>11. NoStrayWorkers'
  <2> SUFFICES ASSUME NEW w \in Procs, Alive(w)', w \notin immortal'
               PROVE  \E c \in Codecs : workers'[c] = w
    BY DEF NoStrayWorkers
  <2>1. Alive(w) /\ w # worker
    BY <1>1, <1>2, ProcessesStand
  <2>2. PICK c \in Codecs : workers[c] = w
    BY <1>2, <2>1 DEF NoStrayWorkers
  <2>3. QED
    BY <1>4, <2>1, <2>2
<1>12. QED
  BY <1>5, <1>6, <1>7, <1>8, <1>9, <1>10, <1>11
-------------------------------------------------------------------------------
(* What the runner does to the worker in hand.                             *)

(* A line is written to its stdin, or one is taken from its output.        *)
LEMMA OthersStand ==
  ASSUME UNCHANGED <<request, proc, job, child>>, worker \in Procs, Piped,
         \/ /\ UNCHANGED inbox
            /\ responses' = [responses EXCEPT ![worker] = Tail(@)]
         \/ /\ UNCHANGED responses
            /\ \E line : inbox' = [inbox EXCEPT ![worker] = Append(@, line)],
         NEW v \in Procs
  PROVE  /\ Alive(v)' <=> Alive(v)
         /\ v # worker => /\ Quiet(v)' <=> Quiet(v)
                          /\ Elsewhere(v)' <=> Elsewhere(v)
                          /\ UNCHANGED <<inbox[v], responses[v]>>
         /\ UNCHANGED inbox => (Elsewhere(v)' <=> Elsewhere(v))
<1>1. v # worker => UNCHANGED <<inbox[v], responses[v]>>
  BY DEF Piped
<1>2. QED
  BY <1>1 DEF Quiet, Alive, Elsewhere

(* A line is taken, and the runner goes on to close the worker.            *)
LEMMA LineIsNoAnswer ==
  ASSUME IInv, NoAnswer \/ NotReady PROVE IInv'
<1> USE DEF IInv
<1>1. /\ worker \in Procs /\ worker # None /\ pc \in {"readiness", "answer"}
      /\ UNCHANGED <<request, codec, worker, closed, workers, spawned, outcome,
                     escaped, unflushed, immortal, proc, job, child, inbox>>
      /\ pc' = "close" /\ then' \in {"startup", "run"}
      /\ pc = "readiness" <=> then' = "startup"
  BY DEF NoAnswer, NotReady, Closes, InHand, TypeOK
<1>2. CASE UNCHANGED responses
  BY <1>1, <1>2, RunnerMoves DEF Closing, TypeOK, procVars
<1>3. CASE /\ responses[worker] # <<>>
           /\ responses' = [responses EXCEPT ![worker] = Tail(@)]
  <2>1. TypeOK' /\ Piped'
    <3>1. Tail(responses[worker]) \in Seq(Lines)
      BY <1>1, <1>3 DEF Piped
    <3>2. QED
      BY <1>1, <1>3, <3>1 DEF TypeOK, Piped
  <2>2. Numbering'
    <3>1. worker <= spawned /\ spawned \in 0..MaxSpawns
      BY DEF Numbering, TypeOK
    <3>2. \A w \in Procs : w > spawned => w # worker
      BY <1>1, <3>1, PoolAssumption DEF Procs
    <3>3. QED
      BY <1>1, <1>3, <3>2 DEF Numbering, Piped
  <2>3. InHand'
    BY <1>1 DEF InHand, Closing
  <2>4. \A c \in Codecs : workers[c] # None => workers[c] \in Procs
    BY DEF TypeOK
  <2>5. PoolQuiet'
    BY <1>1, <1>3, <2>4, OthersStand DEF PoolQuiet, Serving, Closing
  <2>6. ClosedDead'
    <3>1. closed = {}
      BY <1>1 DEF ClosedDead, Serving
    <3>2. QED
      BY <1>1, <3>1 DEF ClosedDead
  <2>7. Pending' /\ CurrentRequest' /\ RequestOpen'
    BY <1>1 DEF Pending, Unanswered, CurrentRequest, RequestOpen
  <2>8. NoStrayWorkers'
    BY <1>1, <1>3, OthersStand DEF NoStrayWorkers
  <2>9. QED
    BY <2>1, <2>2, <2>3, <2>5, <2>6, <2>7, <2>8
<1>4. QED
  BY <1>2, <1>3 DEF NoAnswer, NotReady

(* The worker has announced itself, or answered.                           *)
LEMMA LineIsExpected ==
  ASSUME IInv, Ready \/ Answered PROVE IInv'
<1> USE DEF IInv
<1>1. /\ worker \in Procs /\ worker # None /\ worker <= spawned
      /\ pc \in {"readiness", "answer"} /\ pc' = (IF pc = "readiness" THEN "poll" ELSE "idle")
      /\ responses[worker] # <<>> /\ responses' = [responses EXCEPT ![worker] = Tail(@)]
      /\ UNCHANGED <<request, codec, worker, then, closed, spawned,
                     escaped, unflushed, immortal, proc, job, child, inbox>>
  BY DEF Ready, Answered, InHand, TypeOK, Numbering
<1>2. /\ workers \in [Codecs -> {None} \cup Procs] /\ codec \in Codecs
      /\ outcome \in [Requests -> {"none", "answered", "failed"}]
      /\ responses \in [Procs -> Seq(Lines)] /\ spawned \in 0..MaxSpawns
      /\ request \in 0..MaxRequests
  BY DEF TypeOK, Piped
<1>3. responses'[worker] = Tail(responses[worker])
      /\ \A v \in Procs \ {worker} : responses'[v] = responses[v]
  BY <1>1, <1>2
<1>4. Piped'
  BY <1>1, <1>2 DEF Piped
<1>5. closed = {}
  BY <1>1 DEF ClosedDead, Serving
<1>6. CASE Ready
  <2>1. pc = "readiness" /\ workers' = [workers EXCEPT ![codec] = worker] /\ UNCHANGED outcome
    BY <1>6 DEF Ready
  <2>2. TypeOK'
    BY <1>1, <1>2, <2>1 DEF TypeOK
  <2>3. Numbering'
    <3>1. \A w \in Procs : w > spawned => w # worker
      BY <1>1, <1>2, PoolAssumption DEF Procs
    <3>2. \A c \in Codecs : workers[c] # worker
      BY <2>1 DEF InHand
    <3>3. \A c \in Codecs : workers'[c] = IF c = codec THEN worker ELSE workers[c]
      BY <1>2, <2>1
    <3>4. \A c, d \in Codecs : workers'[c] = workers'[d] /\ workers'[c] # None => c = d
      BY <3>2, <3>3 DEF Numbering
    <3>5. \A c \in Codecs : workers'[c] <= spawned
      BY <1>1, <3>3 DEF Numbering
    <3>6. QED
      BY <1>1, <1>3, <3>1, <3>4, <3>5 DEF Numbering
  <2>4. Quiet(worker)'
    <3>1. Starting(worker) /\ Head(responses[worker]) = ReadyLine
      BY <1>6 DEF Ready, InHand
    <3>2. /\ inbox[worker] = <<>> /\ child[worker] = None
          /\ \/ proc[worker] \in {"idle", "exited"} /\ responses[worker] = <<ReadyLine>>
             \/ proc[worker] = "reaped" /\ responses[worker] = <<ReadyLine, EndOfOutput>>
      BY <1>1, <3>1, ShortSequences, LineFacts DEF Starting
    <3>3. QED
      BY <1>1, <1>3, <3>2, ShortSequences DEF Quiet
  <2>5. InHand'
    BY <1>1, <1>2, <2>1, <2>4 DEF InHand, Closing
  <2>6. PoolQuiet'
    BY <1>1, <1>2, <1>3, <2>1 DEF PoolQuiet, Serving, Quiet
  <2>7. ClosedDead'
    BY <1>1, <1>5 DEF ClosedDead
  <2>8. Pending' /\ CurrentRequest' /\ RequestOpen'
    BY <1>1, <2>1 DEF Pending, Unanswered, CurrentRequest, Elsewhere, RequestOpen
  <2>9. NoStrayWorkers'
    <3>1. workers[codec] = None /\ workers'[codec] = worker
      BY <1>2, <2>1 DEF InHand
    <3>2. \A c \in Codecs \ {codec} : workers'[c] = workers[c]
      BY <1>2, <2>1
    <3>3. ASSUME NEW w \in Procs, Alive(w)', w \notin immortal
          PROVE  \E c \in Codecs : workers'[c] = w
      <4>1. Alive(w)
        BY <1>1, <3>3 DEF Alive
      <4>2. CASE w = worker
        BY <1>2, <3>1, <4>2
      <4>3. CASE w # worker
        <5>1. PICK c \in Codecs : workers[c] = w
          BY <2>1, <3>3, <4>1, <4>3 DEF NoStrayWorkers
        <5>2. c # codec
          BY <3>1, <5>1 DEF Procs, None
        <5>3. QED
          BY <3>2, <5>1, <5>2
      <4>4. QED
        BY <4>2, <4>3
    <3>4. QED
      BY <1>1, <3>3 DEF NoStrayWorkers
  <2>10. QED
    BY <1>4, <2>2, <2>3, <2>5, <2>6, <2>7, <2>8, <2>9
<1>7. CASE Answered
  <2>1. /\ pc = "answer" /\ outcome' = [outcome EXCEPT ![request] = "answered"]
        /\ UNCHANGED workers /\ Head(responses[worker]) = Answer(request)
        /\ Asked(worker) /\ workers[codec] = worker /\ request # None
    BY <1>7 DEF Answered, InHand
  <2>2. TypeOK'
    BY <1>1, <1>2, <2>1 DEF TypeOK
  <2>3. Numbering'
    <3>1. \A w \in Procs : w > spawned => w # worker
      BY <1>1, <1>2, PoolAssumption DEF Procs
    <3>2. QED
      BY <1>1, <1>3, <2>1, <3>1 DEF Numbering
  <2>4. /\ inbox[worker] = <<>> /\ child[worker] = None
        /\ \/ proc[worker] \in {"idle", "exited"} /\ responses[worker] = <<Answer(request)>>
           \/ /\ proc[worker] = "reaped"
              /\ responses[worker] = <<Answer(request), EndOfOutput>>
    BY <1>1, <2>1, ShortSequences, LineFacts DEF Asked
  <2>5. Quiet(worker)'
    BY <1>1, <1>3, <2>4, ShortSequences DEF Quiet
  <2>6. InHand'
    BY <1>1, <2>1 DEF InHand, Closing
  <2>7. PoolQuiet'
    <3>1. ASSUME NEW c \in Codecs, workers[c] # None, workers[c] # worker
          PROVE  Quiet(workers[c])'
      <4>1. Quiet(workers[c]) /\ workers[c] \in Procs
        BY <1>1, <1>2, <3>1 DEF PoolQuiet, Serving
      <4>2. QED
        BY <1>1, <1>3, <2>1, <3>1, <4>1 DEF Quiet
    <3>2. QED
      BY <1>1, <2>1, <2>5, <3>1 DEF PoolQuiet
  <2>8. ClosedDead'
    BY <1>1, <1>5 DEF ClosedDead
  <2>9. \A r \in Unanswered : r # request => r \in Unanswered'
    BY <1>1, <1>2, <2>1 DEF Unanswered
  <2>10. Pending'
    <3> SUFFICES ASSUME NEW w \in Procs
                 PROVE  /\ child[w] # None => child[w] \in Unanswered'
                        /\ proc[w] = "busy" => job[w] \in Unanswered'
                        /\ \A n \in 1..Len(inbox[w]) :
                             inbox[w][n] = Shutdown
                               \/ \E r \in Unanswered' : inbox[w][n] = Ask(r)
      BY <1>1 DEF Pending
    <3>1. /\ child[w] # request
          /\ proc[w] = "busy" => job[w] # request
      BY <2>1, <2>4 DEF CurrentRequest, Elsewhere
    <3>2. \A n \in 1..Len(inbox[w]) : inbox[w][n] # Ask(request)
      BY <2>1, <2>4 DEF CurrentRequest, Elsewhere
    <3>3. QED
      BY <2>9, <3>1, <3>2 DEF Pending
  <2>11. CurrentRequest' /\ RequestOpen'
    <3>1. /\ \A r \in Requests : r > request \/ r < request => r # request
          /\ request \in Requests
      BY <1>2, <2>1, PoolAssumption DEF Requests, None
    <3>2. QED
      BY <1>1, <1>2, <2>1, <3>1 DEF CurrentRequest, RequestOpen
  <2>12. NoStrayWorkers'
    BY <1>1, <1>2, <2>1 DEF NoStrayWorkers, Alive
  <2>13. QED
    BY <1>4, <2>2, <2>3, <2>6, <2>7, <2>8, <2>10, <2>11, <2>12
<1>8. QED
  BY <1>6, <1>7

(* The request is written.                                                 *)
LEMMA RequestWritten ==
  ASSUME IInv, WriteRequest PROVE IInv'
<1> USE DEF IInv
<1>1. /\ worker \in Procs /\ worker # None /\ pc = "write" /\ pc' = "answer"
      /\ request # None /\ request \in Requests /\ workers[codec] = worker
      /\ inbox' = [inbox EXCEPT ![worker] = Append(@, Ask(request))]
      /\ UNCHANGED <<request, codec, worker, then, closed, workers, spawned,
                     outcome, escaped, unflushed, immortal, proc, job, child,
                     responses>>
  BY PoolAssumption DEF WriteRequest, InHand, TypeOK, Requests, None
<1>2. Quiet(worker) /\ Alive(worker)
  BY DEF WriteRequest, InHand
<1>3. inbox'[worker] = <<Ask(request)>>
      /\ \A v \in Procs \ {worker} : inbox'[v] = inbox[v]
  BY <1>1, <1>2, ShortSequences DEF Piped, Quiet
<1>4. TypeOK' /\ Piped'
  <2>1. Append(inbox[worker], Ask(request)) \in Seq(Lines)
    BY <1>1, LineTypes DEF Piped
  <2>2. QED
    BY <1>1, <2>1 DEF TypeOK, Piped
<1>5. Numbering'
  <2>1. worker <= spawned /\ spawned \in 0..MaxSpawns
    BY DEF Numbering, TypeOK
  <2>2. \A w \in Procs : w > spawned => w # worker
    BY <1>1, <2>1, PoolAssumption DEF Procs
  <2>3. QED
    BY <1>1, <1>3, <2>2 DEF Numbering
<1>6. InHand'
  <2>1. Asked(worker)'
    BY <1>1, <1>2, <1>3 DEF Quiet, Asked, Alive
  <2>2. QED
    BY <1>1, <2>1 DEF InHand, Closing
<1>7. PoolQuiet'
  <2>1. \A c \in Codecs : workers[c] # None => workers[c] \in Procs
    BY DEF TypeOK
  <2>2. QED
    BY <1>1, <1>3, <2>1 DEF PoolQuiet, Serving, Quiet
<1>8. ClosedDead'
  <2>1. closed = {}
    BY <1>1 DEF ClosedDead, Serving
  <2>2. QED
    BY <1>1, <2>1 DEF ClosedDead
<1>9. Unanswered' = Unanswered
  BY <1>1 DEF Unanswered
<1>10. request \in Unanswered
  BY <1>1, PoolAssumption DEF Unanswered, RequestOpen, Requests
<1>11. Pending'
  <2>1. \A n \in 1..Len(inbox'[worker]) : inbox'[worker][n] = Ask(request)
    BY <1>3
  <2>2. QED
    BY <1>1, <1>3, <1>9, <1>10, <2>1 DEF Pending
<1>12. CurrentRequest'
  BY <1>1, <1>3 DEF CurrentRequest, Elsewhere
<1>13. NoStrayWorkers'
  BY <1>1 DEF NoStrayWorkers, Alive
<1>14. RequestOpen'
  BY <1>1 DEF RequestOpen
<1>15. QED
  BY <1>4, <1>5, <1>6, <1>7, <1>8, <1>11, <1>12, <1>13, <1>14

(* The shutdown line is written, or meets a broken pipe.                   *)
LEMMA ShutdownWritten ==
  ASSUME IInv, WriteShutdown PROVE IInv'
<1> USE DEF IInv
<1>1. /\ worker \in Procs /\ worker # None /\ pc = "shutdown"
      /\ pc' \in {"wait", "terminate"} /\ worker <= spawned /\ spawned \in 0..MaxSpawns
      /\ UNCHANGED <<request, codec, worker, then, closed, workers, spawned,
                     outcome, escaped, immortal, proc, job, child, responses>>
  BY DEF WriteShutdown, InHand, TypeOK, Closing, Numbering
<1>2. CASE UNCHANGED inbox
  <2>1. unflushed' \subseteq Procs
    BY <1>1 DEF WriteShutdown, TypeOK
  <2>2. then' \in {"startup", "run", "pool"}
    BY <1>1 DEF TypeOK
  <2>3. QED
    BY <1>1, <1>2, <2>1, <2>2, RunnerMoves DEF Closing, procVars
<1>3. CASE inbox' = [inbox EXCEPT ![worker] = Append(@, Shutdown)] /\ UNCHANGED unflushed
  <2>1. TypeOK' /\ Piped'
    <3>1. Append(inbox[worker], Shutdown) \in Seq(Lines)
      BY <1>1, LineTypes DEF Piped
    <3>2. QED
      BY <1>1, <1>3, <3>1 DEF TypeOK, Piped
  <2>2. Numbering'
    <3>1. \A w \in Procs : w > spawned => w # worker
      BY <1>1, PoolAssumption DEF Procs
    <3>2. QED
      BY <1>1, <1>3, <3>1 DEF Numbering, Piped
  <2>3. InHand'
    BY <1>1 DEF InHand, Closing
  <2>4. \A c \in Codecs : workers[c] # None => workers[c] \in Procs
    BY DEF TypeOK
  <2>5. PoolQuiet'
    BY <1>1, <1>3, <2>4, OthersStand DEF PoolQuiet, Serving, Closing
  <2>6. ClosedDead'
    <3>1. closed \subseteq Codecs
      BY DEF TypeOK
    <3>2. QED
      BY <1>1, <3>1 DEF ClosedDead, Serving, Closing, Alive
  <2>7. Unanswered' = Unanswered
    BY <1>1 DEF Unanswered
  <2>8. \A v \in Procs : \A n \in 1..Len(inbox'[v]) :
          inbox'[v][n] = Shutdown \/ \E k \in 1..Len(inbox[v]) : inbox'[v][n] = inbox[v][k]
    BY <1>1, <1>3 DEF Piped
  <2>9. Pending' /\ CurrentRequest'
    BY <1>1, <2>7, <2>8 DEF Pending, CurrentRequest
  <2>10. NoStrayWorkers'
    BY <1>1 DEF NoStrayWorkers, Alive
  <2>11. RequestOpen'
    BY <1>1 DEF RequestOpen
  <2>12. QED
    BY <2>1, <2>2, <2>3, <2>5, <2>6, <2>9, <2>10, <2>11
<1>4. QED
  BY <1>2, <1>3 DEF WriteShutdown

(* An operation begins, with the codec's worker or with a new one.         *)
LEMMA OperationBegins ==
  ASSUME IInv, NEW c \in Codecs, Call(c) PROVE IInv'
<1> USE DEF IInv
<1>1. /\ pc = "idle" /\ request' = request + 1 /\ codec' = c
      /\ request \in 0..MaxRequests /\ request < MaxRequests
      /\ UNCHANGED <<then, closed, workers, outcome, escaped, unflushed,
                     immortal, job, child, inbox, responses>>
  BY DEF Call, TypeOK
<1>2. /\ workers \in [Codecs -> {None} \cup Procs] /\ spawned \in 0..MaxSpawns
      /\ proc \in [Procs -> {"none", "booting", "idle", "busy", "exited", "reaped"}]
  BY DEF TypeOK
<1>3. request' \in Requests /\ request' # None /\ request' \in 0..MaxRequests
      /\ request \in Nat
  BY <1>1, PoolAssumption DEF Requests, None
<1>4. \A r \in Unanswered : r \in Unanswered' /\ r # request'
  BY <1>1, <1>3, PoolAssumption DEF Unanswered, Requests
<1>5. closed = {}
  BY <1>1 DEF ClosedDead, Serving
<1>6. Piped' /\ ClosedDead'
  BY <1>1, <1>5 DEF Piped, ClosedDead
<1>7. RequestOpen'
  <2>1. \A r \in Requests : r < request' => r < request \/ (r = request /\ request # None)
    BY <1>1, <1>3, PoolAssumption DEF Requests, None
  <2>2. \A r \in Requests : r < request' => outcome[r] # "none"
    BY <1>1, <2>1 DEF RequestOpen
  <2>3. \A r \in Requests : r > request' => r > request
    BY <1>1, <1>3, PoolAssumption DEF Requests
  <2>4. request' > request
    BY <1>1, <1>3
  <2>5. pc' # "idle"
    BY DEF Call
  <2>6. QED
    BY <1>1, <1>3, <2>2, <2>3, <2>4, <2>5 DEF RequestOpen
<1>8. \A d \in Codecs : workers[d] # None => Quiet(workers[d])
  BY <1>1 DEF PoolQuiet, Serving
<1>9. CASE workers[c] # None
  <2>1. worker' = workers[c] /\ pc' = "poll" /\ UNCHANGED <<spawned, proc>>
        /\ worker' \in Procs /\ worker' # None
    BY <1>2, <1>9 DEF Call
  <2>2. TypeOK'
    BY <1>1, <1>3, <2>1 DEF TypeOK
  <2>3. Numbering'
    BY <1>1, <2>1 DEF Numbering
  <2>4. \A d \in Codecs : workers[d] # None => Quiet(workers[d])'
    BY <1>1, <1>8, <2>1 DEF Quiet
  <2>5. InHand'
    BY <1>1, <1>3, <1>9, <2>1, <2>4 DEF InHand, Closing
  <2>6. PoolQuiet'
    BY <1>1, <2>1, <2>4 DEF PoolQuiet
  <2>7. Pending' /\ CurrentRequest'
    <3>1. \A w \in Procs : Elsewhere(w)'
      BY <1>1, <1>3, <1>4, <2>1, LineFacts DEF Pending, Elsewhere, None
    <3>2. QED
      BY <1>1, <1>4, <2>1, <3>1 DEF Pending, CurrentRequest
  <2>8. NoStrayWorkers'
    BY <1>1, <2>1 DEF NoStrayWorkers, Alive
  <2>9. QED
    BY <1>6, <1>7, <2>2, <2>3, <2>5, <2>6, <2>7, <2>8
<1>10. CASE workers[c] = None
  <2>1. /\ worker' = spawned + 1 /\ pc' = "readiness" /\ spawned' = spawned + 1
        /\ proc' = [proc EXCEPT ![spawned + 1] = "booting"]
        /\ spawned < MaxSpawns
    BY <1>10 DEF Call
  <2>2. worker' \in Procs /\ worker' # None /\ spawned' \in 0..MaxSpawns /\ spawned \in Nat
    BY <1>2, <2>1, PoolAssumption DEF Procs, None
  <2>3. TypeOK'
    BY <1>1, <1>2, <1>3, <2>1, <2>2 DEF TypeOK
  <2>4. \A w \in Procs : w # worker' => proc'[w] = proc[w]
    BY <1>2, <2>1
  <2>5. \A d \in Codecs : workers[d] <= spawned /\ workers[d] # worker'
    BY <1>2, <2>1, <2>2, PoolAssumption DEF Numbering, Procs, None
  <2>6. proc'[worker'] = "booting" /\ inbox[worker'] = <<>> /\ responses[worker'] = <<>>
        /\ child[worker'] = None /\ ~Alive(worker')
    BY <1>2, <2>1, <2>2 DEF Numbering, Alive
  <2>7. Numbering'
    <3>1. \A w \in Procs : w > spawned' => w > spawned /\ w # worker'
      BY <2>1, <2>2, PoolAssumption DEF Procs
    <3>2. \A d \in Codecs : workers[d] <= spawned'
      BY <1>2, <2>1, <2>2, <2>5, PoolAssumption DEF Procs, None
    <3>3. QED
      BY <1>1, <2>1, <2>2, <2>4, <3>1, <3>2 DEF Numbering
  <2>8. InHand'
    <3>1. Starting(worker)'
      BY <1>1, <2>6 DEF Starting
    <3>2. QED
      BY <1>1, <1>3, <1>10, <2>1, <2>2, <2>5, <3>1 DEF InHand, Closing
  <2>9. PoolQuiet'
    BY <1>1, <1>2, <1>8, <2>4, <2>5 DEF PoolQuiet, Quiet
  <2>10. \A w \in Procs : proc'[w] = "busy" => proc[w] = "busy"
    BY <2>4, <2>6
  <2>11. Pending' /\ CurrentRequest'
    <3>1. \A w \in Procs : Elsewhere(w)'
      BY <1>1, <1>3, <1>4, <2>10, LineFacts DEF Pending, Elsewhere, None
    <3>2. QED
      BY <1>1, <1>4, <2>1, <2>10, <3>1 DEF Pending, CurrentRequest
  <2>12. NoStrayWorkers'
    BY <1>1, <2>1, <2>4 DEF NoStrayWorkers, Alive
  <2>13. QED
    BY <1>6, <1>7, <2>3, <2>7, <2>8, <2>9, <2>11, <2>12
<1>11. QED
  BY <1>9, <1>10
-------------------------------------------------------------------------------
LEMMA NextIInv == IInv /\ [Next]_vars => IInv'
<1> SUFFICES ASSUME IInv, [Next]_vars PROVE IInv'
  OBVIOUS
<1>1. CASE Runner
  <2>1. CASE \E c \in Codecs : Call(c) \/ CloseNext(c)
    BY <2>1, OperationBegins, NextIsClosed
  <2>2. CASE Poll \/ WriteBreaks \/ TimesOut \/ ClosePoll \/ Exited \/ StillRuns \/ Signal
    BY <2>2, MovingSteps
  <2>3. CASE Ready \/ Answered
    BY <2>3, LineIsExpected
  <2>4. CASE NotReady \/ NoAnswer
    BY <2>4, LineIsNoAnswer
  <2>5. CASE WriteRequest
    BY <2>5, RequestWritten
  <2>6. CASE WriteShutdown
    BY <2>6, ShutdownWritten
  <2>7. CASE Survives
    BY <2>7, CallEscapes
  <2>8. CASE CloseStreams
    <3>1. CASE worker \in unflushed /\ then # "startup"
      BY <2>8, <3>1, CallEscapes
    <3>2. CASE ~(worker \in unflushed /\ then # "startup")
      BY <2>8, <3>2, WorkerClosed, OperationFailed
    <3>3. QED
      BY <3>1, <3>2
  <2>9. CASE ClosePool \/ PoolClosed
    BY <2>9, PoolSteps
  <2>10. QED
    BY <1>1, <2>1, <2>2, <2>3, <2>4, <2>5, <2>6, <2>7, <2>8, <2>9 DEF Runner
<1>2. CASE \E w \in Procs : Worker(w)
  BY <1>2, WorkerIInv
<1>3. CASE UNCHANGED vars
  <2>1. TypeOK' /\ Piped' /\ Numbering'
    BY <1>3 DEF IInv, TypeOK, Piped, Numbering, vars, poolVars, procVars
  <2>2. InHand'
    BY <1>3 DEF IInv, InHand, Starting, Quiet, Asked, Alive, vars, poolVars, procVars
  <2>3. PoolQuiet' /\ ClosedDead'
    BY <1>3 DEF IInv, PoolQuiet, Quiet, Serving, ClosedDead, Alive, vars, poolVars, procVars
  <2>4. Pending' /\ CurrentRequest' /\ RequestOpen'
    BY <1>3 DEF IInv, Pending, Unanswered, CurrentRequest, Elsewhere, RequestOpen,
                vars, poolVars, procVars
  <2>5. NoStrayWorkers'
    BY <1>3 DEF IInv, NoStrayWorkers, Alive, vars, poolVars, procVars
  <2>6. QED
    BY <2>1, <2>2, <2>3, <2>4, <2>5 DEF IInv
<1>4. QED
  BY <1>1, <1>2, <1>3 DEF Next, Ended

(* The invariant holds of every behaviour of the pool.                     *)
THEOREM Invariant == Spec => []IInv
<1>1. Init => IInv
  BY InitIInv
<1>2. IInv /\ [Next]_vars => IInv'
  BY NextIInv
<1>3. QED
  BY <1>1, <1>2, PTL DEF Spec

(* What the worker says that pool.run waits for is the answer to its own   *)
(* request or the end of the output, and between two operations a worker   *)
(* of the pool has nothing left to say: a late answer is never taken for   *)
(* the answer to another request.                                          *)
THEOREM AnswersAreOwn == Spec => []OwnAnswers
<1>1. IInv => OwnAnswers
  <2> SUFFICES ASSUME IInv PROVE OwnAnswers
    OBVIOUS
  <2>1. ASSUME pc = "answer", NEW n \in 1..Len(responses[worker])
        PROVE  responses[worker][n] \in {Answer(request), EndOfOutput}
    <3>1. Asked(worker)
      BY <2>1 DEF IInv, InHand
    <3>2. responses[worker] \in
            {<<>>, <<EndOfOutput>>, <<Answer(request)>>, <<Answer(request), EndOfOutput>>}
      BY <3>1 DEF Asked
    <3>3. QED
      BY <2>1, <3>2
  <2>2. ASSUME pc = "idle", NEW c \in Codecs, workers[c] # None
        PROVE  responses[workers[c]] \in {<<>>, <<EndOfOutput>>}
    BY <2>2 DEF IInv, PoolQuiet, Serving, Quiet
  <2>3. QED
    BY <2>1, <2>2 DEF OwnAnswers
<1>2. QED
  BY <1>1, Invariant, PTL

(* A worker process that lives is in the pool or in the runner's hands,    *)
(* whatever timed out or failed, but for one that kill() did not end.      *)
THEOREM NoneIsForgotten == Spec => []NoStrayWorkers
<1>1. IInv => NoStrayWorkers
  BY DEF IInv
<1>2. QED
  BY <1>1, Invariant, PTL

(* While an operation is measured, no external codec runs beside it but    *)
(* its own and those of operations that failed before it, whose workers    *)
(* have left the pool.                                                     *)
THEOREM MeasurementsAreApart == Spec => []MeasuredApart
<1>1. IInv => MeasuredApart
  <2> SUFFICES ASSUME IInv, pc = "answer", NEW w \in Procs, child[w] # None
               PROVE  IF w = worker THEN child[w] = request
                      ELSE outcome[child[w]] = "failed" /\ \A c \in Codecs : workers[c] # w
    BY DEF MeasuredApart
  <2>1. CASE w = worker
    BY <2>1 DEF IInv, InHand, Asked
  <2>2. CASE w # worker
    <3>1. child[w] \in Unanswered /\ child[w] # request
      BY <2>2 DEF IInv, Pending, CurrentRequest, Elsewhere
    <3>2. child[w] \in Requests /\ child[w] < request
      BY <3>1, PoolAssumption DEF Unanswered, Requests, IInv, TypeOK
    <3>3. outcome[child[w]] = "failed"
      BY <3>1, <3>2 DEF Unanswered, IInv, RequestOpen, TypeOK
    <3>4. ASSUME NEW c \in Codecs PROVE workers[c] # w
      BY <2>2, <3>4 DEF IInv, PoolQuiet, Serving, Quiet, Procs, None
    <3>5. QED
      BY <2>2, <3>3, <3>4
  <2>3. QED
    BY <2>1, <2>2
<1>2. QED
  BY <1>1, Invariant, PTL

--------------------------------------------------------------------------------
(* EvidenceImport: any number of importers, seals, failures and kills.     *)

Copies == [files : Nat \cup {Nothing}, sums : Nat \cup {Nothing}]
Places == {"idle", "refused", "failed", "killed", "done", "validate", "digest", "pending",
           "copy", "open", "write", "install", "replace", "rollback", "cleanup", "unlink"}

ImportTypes ==
  /\ files \in Nat /\ sums \in Nat /\ place \in [Importers -> Places]
  /\ staging \in [Importers -> Copies \cup {Nothing}]
  /\ output \in Copies \cup {Nothing}
  /\ verified \in [Importers -> [count : Nat, sums : Nat]]
  /\ temp \in Importers \cup {Nothing} /\ taken \in Importers \cup {Nothing}
  /\ DOMAIN text = Importers /\ open \in [Importers -> Importers \cup {Nothing}]
  /\ disturbed \in BOOLEAN

(* An importer that has looked at its copy has a valid one; one that has   *)
(* ended, if it was not killed, has none.                                  *)
Copied ==
  \A i \in Importers :
    /\ place[i] \in {"pending", "copy", "open", "write", "install"} => staging[i] # Nothing
    /\ place[i] \in {"open", "write", "install"} => Importing!Valid(staging[i])
    /\ place[i] \notin {"pending", "copy", "open", "write", "install", "cleanup", "killed"}
         => staging[i] = Nothing
    /\ place[i] = "write" => open[i] # Nothing

(* One importer at a time is between its two renames.                      *)
Settling == {"replace", "rollback"}
Installed ==
  /\ output # Nothing => Importing!Valid(output)
  /\ taken # Nothing => output # Nothing
  /\ \A i \in Importers : place[i] \in Settling => output # Nothing /\ taken = Nothing
  /\ \A i, j \in Importers : place[i] \in Settling /\ place[j] \in Settling => i = j

(* Somebody is there who will remove what is temporary, or was killed.     *)
Opened == {"write", "install", "replace", "rollback", "cleanup", "unlink"}
Accounted ==
  /\ temp # Nothing => \E i \in Importers : place[i] \in Opened \cup {"killed"}
  /\ output # Nothing /\ taken = Nothing
       => \E i \in Importers : place[i] \in Settling \cup {"killed"}

(* While the evidence does not change, whoever has verified it, copied it  *)
(* or written about it means the version that is there; between imports it *)
(* may change, and then no importer comes past what is left of the others. *)
Current == [count |-> files, sums |-> sums]
MeansEvidence(i) ==
  /\ place[i] \in {"digest", "pending", "copy", "open"} \cup Opened
       => files = sums /\ verified[i].count = files
  /\ place[i] \in {"pending", "copy", "open"} \cup Opened => verified[i] = Current
  /\ place[i] \in {"pending", "copy"} => staging[i].files \in {Nothing, files}
                                         /\ staging[i].sums \in {Nothing, sums}
  /\ place[i] \in {"open", "write", "install"}
       => staging[i] = [files |-> files, sums |-> sums]
  /\ place[i] \notin Importing!Ended /\ output # Nothing
       => output = [files |-> files, sums |-> sums]
  /\ place[i] \in {"copy", "open"} \cup Opened /\ temp # Nothing
       => text[temp] \in {Torn, Current}

Undisturbed ==
  ~disturbed =>
    /\ \A i \in Importers : MeansEvidence(i)
    /\ taken # Nothing =>
         text[taken] \in {Torn, [count |-> output.files, sums |-> output.sums]}

ImportInv == ImportTypes /\ Copied /\ Installed /\ Accounted /\ Undisturbed

LEMMA InitImportInv == Importing!ImportInit => ImportInv
<1> SUFFICES ASSUME Importing!ImportInit PROVE ImportInv
  OBVIOUS
<1> USE DEF Importing!ImportInit
<1>1. ImportTypes
  BY DEF ImportTypes, Places
<1>2. Copied
  BY DEF Copied
<1>3. Installed /\ Accounted
  BY DEF Installed, Accounted, Settling
<1>4. Undisturbed
  BY DEF Undisturbed, MeansEvidence, Opened, Importing!Ended
<1>5. QED
  BY <1>1, <1>2, <1>3, <1>4 DEF ImportInv

LEMMA NextImportInv ==
  ASSUME ImportInv, Importing!ImportNext \/ UNCHANGED importVars
  PROVE  ImportInv'
<1> USE MCImportAssumption DEF Importing!ImportAssumption, ImportInv, ImportTypes, Places,
                               Opened, Settling, Importing!Ended
<1>1. CASE Importing!Seal
  <2>1. ImportTypes'
    BY <1>1 DEF Importing!Seal, Importing!Replaced, Importing!Sealed, Copies
  <2>2. Copied'
    BY <1>1 DEF Importing!Seal, Importing!Replaced, Importing!Sealed, Copied, Copies, Importing!Valid
  <2>3. Installed'
    BY <1>1 DEF Importing!Seal, Importing!Replaced, Importing!Sealed, Installed, Copied, Copies, Importing!Valid
  <2>4. Accounted'
    BY <1>1 DEF Importing!Seal, Importing!Replaced, Importing!Sealed, Accounted, Installed
  <2>5. Undisturbed'
    BY <1>1 DEF Importing!Seal, Importing!Replaced, Importing!Sealed, Undisturbed, MeansEvidence, Current, Installed, Copied, Copies, Importing!Valid
  <2>6. QED
    BY <2>1, <2>2, <2>3, <2>4, <2>5
<1>2. ASSUME NEW i \in Importers, Importing!Check(i)
      PROVE  ImportInv'
  <2>1. ImportTypes'
    BY <1>2 DEF Importing!Goes, Importing!Check, Copies
  <2>2. Copied'
    BY <1>2 DEF Importing!Goes, Importing!Check, Copied, Copies, Importing!Valid
  <2>3. Installed'
    BY <1>2 DEF Importing!Goes, Importing!Check, Installed, Copied, Copies, Importing!Valid
  <2>4. Accounted'
    BY <1>2 DEF Importing!Goes, Importing!Check, Accounted, Installed
  <2>5. Undisturbed'
    BY <1>2 DEF Importing!Goes, Importing!Check, Undisturbed, MeansEvidence, Current, Installed, Copied, Copies, Importing!Valid
  <2>6. QED
    BY <2>1, <2>2, <2>3, <2>4, <2>5
<1>3. ASSUME NEW i \in Importers, Importing!Validate(i)
      PROVE  ImportInv'
  <2>1. ImportTypes'
    BY <1>3 DEF Importing!Goes, Importing!Validate, Copies
  <2>2. Copied'
    BY <1>3 DEF Importing!Goes, Importing!Validate, Copied, Copies, Importing!Valid
  <2>3. Installed'
    BY <1>3 DEF Importing!Goes, Importing!Validate, Installed, Copied, Copies, Importing!Valid
  <2>4. Accounted'
    BY <1>3 DEF Importing!Goes, Importing!Validate, Accounted, Installed
  <2>5. Undisturbed'
    BY <1>3 DEF Importing!Goes, Importing!Validate, Undisturbed, MeansEvidence, Current, Installed, Copied, Copies, Importing!Valid
  <2>6. QED
    BY <2>1, <2>2, <2>3, <2>4, <2>5
<1>4. ASSUME NEW i \in Importers, Importing!Digest(i)
      PROVE  ImportInv'
  <2>1. ImportTypes'
    BY <1>4 DEF Importing!Goes, Importing!Digest, Copies
  <2>2. Copied'
    BY <1>4 DEF Importing!Goes, Importing!Digest, Copied, Copies, Importing!Valid
  <2>3. Installed'
    BY <1>4 DEF Importing!Goes, Importing!Digest, Installed, Copied, Copies, Importing!Valid
  <2>4. Accounted'
    BY <1>4 DEF Importing!Goes, Importing!Digest, Accounted, Installed
  <2>5. Undisturbed'
    BY <1>4 DEF Importing!Goes, Importing!Digest, Undisturbed, MeansEvidence, Current, Installed, Copied, Copies, Importing!Valid
  <2>6. QED
    BY <2>1, <2>2, <2>3, <2>4, <2>5
<1>5. ASSUME NEW i \in Importers, Importing!Pending(i)
      PROVE  ImportInv'
  <2>1. ImportTypes'
    BY <1>5 DEF Importing!Goes, Importing!Pending, Copies
  <2>2. Copied'
    BY <1>5 DEF Importing!Goes, Importing!Pending, Copied, Copies, Importing!Valid
  <2>3. Installed'
    BY <1>5 DEF Importing!Goes, Importing!Pending, Installed, Copied, Copies, Importing!Valid
  <2>4. Accounted'
    BY <1>5 DEF Importing!Goes, Importing!Pending, Accounted, Installed
  <2>5. Undisturbed'
    BY <1>5 DEF Importing!Goes, Importing!Pending, Undisturbed, MeansEvidence, Current, Installed, Copied, Copies, Importing!Valid
  <2>6. QED
    BY <2>1, <2>2, <2>3, <2>4, <2>5
<1>6. ASSUME NEW i \in Importers, NEW part \in {"files", "sums"}, Importing!Copy(i, part)
      PROVE  ImportInv'
  <2>1. ImportTypes'
    <3>1. PICK version \in Nat :
            /\ staging' = [staging EXCEPT ![i] = [staging[i] EXCEPT ![part] = version]]
            /\ UNCHANGED <<files, sums, place, verified, output, temp, taken, text, open,
                           disturbed>>
      BY <1>6 DEF Importing!Copy
    <3>2. staging[i] \in Copies
      BY <1>6 DEF Importing!Copy, Copied
    <3>3. [staging[i] EXCEPT ![part] = version] \in Copies
      BY <3>2 DEF Copies
    <3>4. QED
      BY <3>1, <3>3
  <2>2. Copied'
    BY <1>6 DEF Importing!Copy, Copied, Copies, Importing!Valid
  <2>3. Installed'
    BY <1>6 DEF Importing!Copy, Installed, Copied, Copies, Importing!Valid
  <2>4. Accounted'
    BY <1>6 DEF Importing!Copy, Accounted, Installed
  <2>5. Undisturbed'
    BY <1>6 DEF Importing!Copy, Undisturbed, MeansEvidence, Current, Installed, Copied, Copies, Importing!Valid
  <2>6. QED
    BY <2>1, <2>2, <2>3, <2>4, <2>5
<1>7. ASSUME NEW i \in Importers, Importing!Revalidate(i)
      PROVE  ImportInv'
  <2>1. ImportTypes'
    BY <1>7 DEF Importing!Goes, Importing!Revalidate, Copies
  <2>2. Copied'
    BY <1>7 DEF Importing!Goes, Importing!Revalidate, Copied, Copies, Importing!Valid
  <2>3. Installed'
    BY <1>7 DEF Importing!Goes, Importing!Revalidate, Installed, Copied, Copies, Importing!Valid
  <2>4. Accounted'
    BY <1>7 DEF Importing!Goes, Importing!Revalidate, Accounted, Installed
  <2>5. Undisturbed'
    BY <1>7 DEF Importing!Goes, Importing!Revalidate, Undisturbed, MeansEvidence, Current, Installed, Copied, Copies, Importing!Valid
  <2>6. QED
    BY <2>1, <2>2, <2>3, <2>4, <2>5
<1>8. ASSUME NEW i \in Importers, Importing!OpenReceipt(i)
      PROVE  ImportInv'
  <2>1. ImportTypes'
    BY <1>8 DEF Importing!Goes, Importing!OpenReceipt, Copies
  <2>2. Copied'
    BY <1>8 DEF Importing!Goes, Importing!OpenReceipt, Copied, Copies, Importing!Valid
  <2>3. Installed'
    BY <1>8 DEF Importing!Goes, Importing!OpenReceipt, Installed, Copied, Copies, Importing!Valid
  <2>4. Accounted'
    BY <1>8 DEF Importing!Goes, Importing!OpenReceipt, Accounted, Installed
  <2>5. Undisturbed'
    BY <1>8 DEF Importing!Goes, Importing!OpenReceipt, Undisturbed, MeansEvidence, Current, Installed, Copied, Copies, Importing!Valid
  <2>6. QED
    BY <2>1, <2>2, <2>3, <2>4, <2>5
<1>9. ASSUME NEW i \in Importers, Importing!WriteReceipt(i)
      PROVE  ImportInv'
  <2>1. ImportTypes'
    BY <1>9 DEF Importing!Goes, Importing!WriteReceipt, Copies
  <2>2. Copied'
    BY <1>9 DEF Importing!Goes, Importing!WriteReceipt, Copied, Copies, Importing!Valid
  <2>3. Installed'
    BY <1>9 DEF Importing!Goes, Importing!WriteReceipt, Installed, Copied, Copies, Importing!Valid
  <2>4. Accounted'
    BY <1>9 DEF Importing!Goes, Importing!WriteReceipt, Accounted, Installed
  <2>5. Undisturbed'
    BY <1>9 DEF Importing!Goes, Importing!WriteReceipt, Undisturbed, MeansEvidence, Current, Installed, Copied, Copies, Importing!Valid
  <2>6. QED
    BY <2>1, <2>2, <2>3, <2>4, <2>5
<1>10. ASSUME NEW i \in Importers, Importing!Install(i)
      PROVE  ImportInv'
  <2>1. ImportTypes'
    BY <1>10 DEF Importing!Goes, Importing!Install, Copies
  <2>2. Copied'
    BY <1>10 DEF Importing!Goes, Importing!Install, Copied, Copies, Importing!Valid
  <2>3. Installed'
    BY <1>10 DEF Importing!Goes, Importing!Install, Installed, Copied, Copies, Importing!Valid
  <2>4. Accounted'
    BY <1>10 DEF Importing!Goes, Importing!Install, Accounted, Installed
  <2>5. Undisturbed'
    BY <1>10 DEF Importing!Goes, Importing!Install, Undisturbed, MeansEvidence, Current, Installed, Copied, Copies, Importing!Valid
  <2>6. QED
    BY <2>1, <2>2, <2>3, <2>4, <2>5
<1>11. ASSUME NEW i \in Importers, Importing!Replace(i)
      PROVE  ImportInv'
  <2>1. ImportTypes'
    BY <1>11 DEF Importing!Goes, Importing!Replace, Copies
  <2>2. Copied'
    BY <1>11 DEF Importing!Goes, Importing!Replace, Copied, Copies, Importing!Valid
  <2>3. Installed'
    BY <1>11 DEF Importing!Goes, Importing!Replace, Installed, Copied, Copies, Importing!Valid
  <2>4. Accounted'
    BY <1>11 DEF Importing!Goes, Importing!Replace, Accounted, Installed
  <2>5. Undisturbed'
    BY <1>11 DEF Importing!Goes, Importing!Replace, Undisturbed, MeansEvidence, Current, Installed, Copied, Copies, Importing!Valid
  <2>6. QED
    BY <2>1, <2>2, <2>3, <2>4, <2>5
<1>12. ASSUME NEW i \in Importers, Importing!Rollback(i)
      PROVE  ImportInv'
  <2>1. ImportTypes'
    BY <1>12 DEF Importing!Goes, Importing!Rollback, Copies
  <2>2. Copied'
    BY <1>12 DEF Importing!Goes, Importing!Rollback, Copied, Copies, Importing!Valid
  <2>3. Installed'
    BY <1>12 DEF Importing!Goes, Importing!Rollback, Installed, Copied, Copies, Importing!Valid
  <2>4. Accounted'
    BY <1>12 DEF Importing!Goes, Importing!Rollback, Accounted, Installed
  <2>5. Undisturbed'
    BY <1>12 DEF Importing!Goes, Importing!Rollback, Undisturbed, MeansEvidence, Current, Installed, Copied, Copies, Importing!Valid
  <2>6. QED
    BY <2>1, <2>2, <2>3, <2>4, <2>5
<1>13. ASSUME NEW i \in Importers, Importing!Cleanup(i)
      PROVE  ImportInv'
  <2>1. ImportTypes'
    BY <1>13 DEF Importing!Goes, Importing!Cleanup, Copies
  <2>2. Copied'
    BY <1>13 DEF Importing!Goes, Importing!Cleanup, Copied, Copies, Importing!Valid
  <2>3. Installed'
    BY <1>13 DEF Importing!Goes, Importing!Cleanup, Installed, Copied, Copies, Importing!Valid
  <2>4. Accounted'
    BY <1>13 DEF Importing!Goes, Importing!Cleanup, Accounted, Installed
  <2>5. Undisturbed'
    BY <1>13 DEF Importing!Goes, Importing!Cleanup, Undisturbed, MeansEvidence, Current, Installed, Copied, Copies, Importing!Valid
  <2>6. QED
    BY <2>1, <2>2, <2>3, <2>4, <2>5
<1>14. ASSUME NEW i \in Importers, Importing!Unlink(i)
      PROVE  ImportInv'
  <2>1. ImportTypes'
    BY <1>14 DEF Importing!Goes, Importing!Unlink, Copies
  <2>2. Copied'
    BY <1>14 DEF Importing!Goes, Importing!Unlink, Copied, Copies, Importing!Valid
  <2>3. Installed'
    BY <1>14 DEF Importing!Goes, Importing!Unlink, Installed, Copied, Copies, Importing!Valid
  <2>4. Accounted'
    BY <1>14 DEF Importing!Goes, Importing!Unlink, Accounted, Installed
  <2>5. Undisturbed'
    BY <1>14 DEF Importing!Goes, Importing!Unlink, Undisturbed, MeansEvidence, Current, Installed, Copied, Copies, Importing!Valid
  <2>6. QED
    BY <2>1, <2>2, <2>3, <2>4, <2>5
<1>15. ASSUME NEW i \in Importers, Importing!Fails(i)
      PROVE  ImportInv'
  <2>1. ImportTypes'
    BY <1>15 DEF Importing!Goes, Importing!Fails, Copies
  <2>2. Copied'
    BY <1>15 DEF Importing!Goes, Importing!Fails, Copied, Copies, Importing!Valid
  <2>3. Installed'
    BY <1>15 DEF Importing!Goes, Importing!Fails, Installed, Copied, Copies, Importing!Valid
  <2>4. Accounted'
    BY <1>15 DEF Importing!Goes, Importing!Fails, Accounted, Installed
  <2>5. Undisturbed'
    BY <1>15 DEF Importing!Goes, Importing!Fails, Undisturbed, MeansEvidence, Current, Installed, Copied, Copies, Importing!Valid
  <2>6. QED
    BY <2>1, <2>2, <2>3, <2>4, <2>5
<1>16. ASSUME NEW i \in Importers, Importing!Kill(i)
      PROVE  ImportInv'
  <2>1. ImportTypes'
    BY <1>16 DEF Importing!Goes, Importing!Kill, Copies
  <2>2. Copied'
    BY <1>16 DEF Importing!Goes, Importing!Kill, Copied, Copies, Importing!Valid
  <2>3. Installed'
    BY <1>16 DEF Importing!Goes, Importing!Kill, Installed, Copied, Copies, Importing!Valid
  <2>4. Accounted'
    BY <1>16 DEF Importing!Goes, Importing!Kill, Accounted, Installed
  <2>5. Undisturbed'
    BY <1>16 DEF Importing!Goes, Importing!Kill, Undisturbed, MeansEvidence, Current, Installed, Copied, Copies, Importing!Valid
  <2>6. QED
    BY <2>1, <2>2, <2>3, <2>4, <2>5
<1>17. CASE UNCHANGED importVars
  BY <1>17 DEF importVars, Copied, Installed, Accounted, Undisturbed, MeansEvidence,
     Current, Importing!Valid
<1>18. QED
  BY <1>1, <1>2, <1>3, <1>4, <1>5, <1>6, <1>7, <1>8, <1>9, <1>10, <1>11, <1>12, <1>13, <1>14, <1>15, <1>16, <1>17 DEF Importing!ImportNext, Importing!Import

LEMMA ImportInvSuffices == ASSUME ImportInv PROVE Importing!ImportIsWhole
<1>1. taken # Nothing /\ text[taken] # Torn =>
        /\ output # Nothing /\ Importing!Valid(output)
        /\ ~disturbed => text[taken] = [count |-> output.files, sums |-> output.sums]
  BY DEF ImportInv, Installed, Undisturbed
<1>2. ASSUME \A i \in Importers : place[i] \in Importing!Ended \ {"killed"}
      PROVE  /\ \A i \in Importers : staging[i] = Nothing
             /\ temp = Nothing
             /\ output # Nothing <=> taken # Nothing
  BY <1>2 DEF ImportInv, Copied, Installed, Accounted, Importing!Ended, Opened, Settling
<1>3. QED
  BY <1>1, <1>2 DEF Importing!ImportIsWhole

(* ImportIsWhole of EvidenceImport: the importers of a first score leave   *)
(* evidence and receipt in place together or not at all, and the receipt   *)
(* speaks of just the evidence that is there, however many of them overlap *)
(* and whichever of their steps fail.                                      *)
THEOREM ImportsAreWhole == BenchmarksSpec => []ImportIsWhole
<1>1. BenchmarksInit => ImportInv
  BY InitImportInv DEF BenchmarksInit
<1>2. ImportInv /\ [BenchmarksNext]_allVars => ImportInv'
  BY NextImportInv DEF BenchmarksNext, allVars
<1>3. ImportInv => ImportIsWhole
  BY ImportInvSuffices DEF ImportIsWhole
<1>4. QED
  BY <1>1, <1>2, <1>3, PTL DEF BenchmarksSpec

--------------------------------------------------------------------------------
(* PublicValidation: any number of runs, items, outcomes and faults.       *)

Runners == Validation!Runs
Folders == Validation!Dirs
Trusted == ~Validation!Excluded

ValidationTypes ==
  /\ suite \in Validation!Suites
  /\ DOMAIN at = Runners /\ DOMAIN todo = Runners /\ DOMAIN loaded = Runners
  /\ DOMAIN dir = Runners
  /\ \A r \in Runners : at[r] \in {"preflight", "attempt", "scoring"} => dir[r] \in Folders
  /\ DOMAIN scores = Folders /\ DOMAIN receipt = Folders
  /\ \A d \in Folders : DOMAIN scores[d] = Validation!ResultFiles
  /\ pbc # Nothing => \E m, a, w : \E s \in Nat :
       pbc = [manifest |-> m, accepted |-> a, size |-> s, whole |-> w]

(* A directory is made by one run, which writes its receipt last.          *)
Owned ==
  suite # "jls2" =>
    /\ \A r \in Runners : at[r] = "scoring" =>
         dir[r] \in made /\ receipt[dir[r]] = Nothing
    /\ \A q, r \in Runners :
         at[q] = "scoring" /\ at[r] = "scoring" /\ dir[q] = dir[r] => q = r
    /\ \A d \in Folders \ made :
         receipt[d] = Nothing /\ \A f \in Validation!ResultFiles : scores[d][f] = Nothing

(* What a run may have left to do.                                         *)
Left ==
  IF suite = "clue"
  THEN {<<"performance", "proof", "accepted">>, <<"proof", "accepted">>, <<"accepted">>, <<>>}
  ELSE IF suite = "tbl1"
  THEN {<<"performance", "memory", "proof">>, <<"memory", "proof">>, <<"proof">>, <<>>}
  ELSE {<<"baseline", "baseline_memory", "performance", "memory">>,
        <<"baseline_memory", "performance", "memory">>,
        <<"performance", "memory">>, <<"memory">>, <<>>}

(* Results are the run's own, of files its suite has, and the two of the   *)
(* candidate in dms2 are of one corpus.                                    *)
OwnFiles ==
  IF suite = "clue" THEN Validation!ResultFiles
  ELSE IF suite = "tbl1" THEN {"performance", "memory"}
  ELSE {"performance", "memory", "baseline", "baseline_memory"}
OwnResults(results, r) ==
  \A f \in Validation!ResultFiles : results[f] # Nothing =>
    results[f].by = r /\ f \in OwnFiles
OneOrigin(results) ==
  suite = "dms2" /\ results.memory # Nothing
    => results.performance.corpus = results.memory.corpus

(* What a run has measured, and what it has not.                           *)
OfCandidate(r) ==
  suite = "dms2" =>
    /\ todo[r] \in {<<"memory">>, <<>>} => scores[dir[r]].performance.corpus = loaded[r]
    /\ scores[dir[r]].memory # Nothing
         => todo[r] = <<>> /\ scores[dir[r]].memory.corpus = loaded[r]
Unmeasured(r) ==
  suite = "clue" /\ todo[r] = <<"performance", "proof", "accepted">>
    => scores[dir[r]].performance = Nothing
Measuring ==
  suite # "jls2" => \A r \in Runners : at[r] = "scoring" =>
    /\ todo[r] \in Left /\ OwnResults(scores[dir[r]], r)
    /\ OfCandidate(r) /\ Unmeasured(r)

Sized ==
  suite = "clue" => \A d \in Folders :
    scores[d].performance # Nothing => scores[d].performance.bytes \in [Items -> Nat]

Receipts ==
  suite # "jls2" => \A d \in Folders : receipt[d] # Nothing =>
    /\ OwnResults(receipt[d].scores, receipt[d].by) /\ OneOrigin(receipt[d].scores)
    /\ suite = "clue" /\ receipt[d].completed => receipt[d].scores = scores[d]

(* What an evaluator has read is still so when it decides.                 *)
HeldOf(d, e) ==
  /\ d \in Folders /\ e \in Folders
  /\ receipt[d] # Nothing /\ reading.receipt = receipt[d]
  /\ suite # "clue" => d = e /\ reading.scores = scores[e]
  /\ suite = "clue" =>
       /\ reading.receipt.completed /\ scores[e].performance # Nothing
       /\ reading.scores.performance = scores[e].performance
       /\ pbc # Nothing /\ reading.pbc = pbc
Held ==
  reading # Nothing =>
    /\ suite = "jls2" => reading.result = result
    /\ suite # "jls2" => HeldOf(reading.dir, reading.other)

(* What a passed decision of clue says of the three sources it binds.      *)
Judged ==
  suite = "clue" /\ decision # Nothing /\ decision.passed =>
    (\A x, y, z : decision.sources = <<x, y, z>> =>
       /\ x # Nothing /\ x.completed /\ x.sound
       /\ y # Nothing /\ z.whole /\ z.manifest = y.corpus
       /\ \A i \in Items : Validation!Gains(y.bytes[i], z.size, 5))

ValidationInv ==
  /\ ValidationTypes /\ Owned
  /\ Trusted => /\ Measuring /\ Sized /\ Receipts /\ Held /\ Judged
                /\ Validation!PassIsEarned


LEMMA HeadsAndTails ==
  /\ \A a : Head(<<a>>) = a /\ Tail(<<a>>) = <<>>
  /\ \A a, b : Head(<<a, b>>) = a /\ Tail(<<a, b>>) = <<b>>
  /\ \A a, b, c : Head(<<a, b, c>>) = a /\ Tail(<<a, b, c>>) = <<b, c>>
  /\ \A a, b, c, d : Head(<<a, b, c, d>>) = a /\ Tail(<<a, b, c, d>>) = <<b, c, d>>
<1>1. \A a : Head(<<a>>) = a /\ Tail(<<a>>) = <<>>
  OBVIOUS
<1>2. \A a, b : Head(<<a, b>>) = a /\ Tail(<<a, b>>) = <<b>>
  OBVIOUS
<1>3. \A a, b, c : Head(<<a, b, c>>) = a /\ Tail(<<a, b, c>>) = <<b, c>>
  OBVIOUS
<1>4. \A a, b, c, d : Head(<<a, b, c, d>>) = a /\ Tail(<<a, b, c, d>>) = <<b, c, d>>
  OBVIOUS
<1> QED
  BY <1>1, <1>2, <1>3, <1>4

(* What a run has left, and which stage is next.                           *)
LEMMA NextStage ==
  ASSUME suite \in {"clue", "tbl1", "dms2"}, NEW left, left \in Left, left # <<>>
  PROVE  /\ Tail(left) \in Left /\ Head(left) \in Validation!ResultFiles \cup {"proof"}
         /\ Head(left) # "proof" => Head(left) \in OwnFiles
         /\ Head(left) = "proof" => suite # "dms2"
         /\ Tail(left) # <<"performance", "proof", "accepted">>
         /\ suite = "clue" /\ Head(left) = "performance"
              => left = <<"performance", "proof", "accepted">>
         /\ suite = "dms2" =>
              /\ Head(left) = "memory" => left = <<"memory">>
              /\ Tail(left) = <<"memory">> => Head(left) = "performance"
              /\ Head(left) # "memory" => Tail(left) # <<>>
<1>1. CASE suite = "clue"
  <2>1. CASE left = <<"performance", "proof", "accepted">>
    BY <1>1, <2>1, HeadsAndTails DEF Left, OwnFiles, Validation!ResultFiles
  <2>2. CASE left = <<"proof", "accepted">>
    BY <1>1, <2>2, HeadsAndTails DEF Left, OwnFiles, Validation!ResultFiles
  <2>3. CASE left = <<"accepted">>
    BY <1>1, <2>3, HeadsAndTails DEF Left, OwnFiles, Validation!ResultFiles
  <2> QED
    BY <1>1, <2>1, <2>2, <2>3 DEF Left
<1>2. CASE suite = "tbl1"
  <2>1. CASE left = <<"performance", "memory", "proof">>
    BY <1>2, <2>1, HeadsAndTails DEF Left, OwnFiles, Validation!ResultFiles
  <2>2. CASE left = <<"memory", "proof">>
    BY <1>2, <2>2, HeadsAndTails DEF Left, OwnFiles, Validation!ResultFiles
  <2>3. CASE left = <<"proof">>
    BY <1>2, <2>3, HeadsAndTails DEF Left, OwnFiles, Validation!ResultFiles
  <2> QED
    BY <1>2, <2>1, <2>2, <2>3 DEF Left
<1>3. CASE suite = "dms2"
  <2>1. CASE left = <<"baseline", "baseline_memory", "performance", "memory">>
    BY <1>3, <2>1, HeadsAndTails DEF Left, OwnFiles, Validation!ResultFiles
  <2>2. CASE left = <<"baseline_memory", "performance", "memory">>
    BY <1>3, <2>2, HeadsAndTails DEF Left, OwnFiles, Validation!ResultFiles
  <2>3. CASE left = <<"performance", "memory">>
    BY <1>3, <2>3, HeadsAndTails DEF Left, OwnFiles, Validation!ResultFiles
  <2>4. CASE left = <<"memory">>
    BY <1>3, <2>4, HeadsAndTails DEF Left, OwnFiles, Validation!ResultFiles
  <2> QED
    BY <1>3, <2>1, <2>2, <2>3, <2>4 DEF Left
<1> QED
  BY <1>1, <1>2, <1>3


LEMMA ValidationCounts ==
  /\ \A S : Validation!Cardinality(S) = Cardinality(S)
  /\ \A S : Validation!IsFiniteSet(S) = IsFiniteSet(S)
<1>1. \A S : Validation!Cardinality(S) = Cardinality(S)
  BY DEF Validation!Cardinality, Cardinality
<1>2. \A S : Validation!IsFiniteSet(S) = IsFiniteSet(S)
  BY DEF Validation!IsFiniteSet, IsFiniteSet
<1> QED
  BY <1>1, <1>2

LEMMA InitValidationInv ==
  ASSUME Validation!ValidationInit
  PROVE  ValidationInv
<1> USE DEF Validation!ValidationInit, Validation!RunsInit, Validation!FilesInit, Runners, Folders
<1>1. ValidationTypes
  BY DEF ValidationTypes, Validation!NoScores
<1>2. Owned
  BY DEF Owned, Validation!NoScores
<1>3. Measuring /\ Sized
  BY DEF Measuring, Sized, Validation!NoScores, Validation!ResultFiles
<1>4. Receipts /\ Held /\ Judged
  BY DEF Receipts, Held, Judged
<1>5. Validation!PassIsEarned
  BY DEF Validation!PassIsEarned
<1> QED
  BY <1>1, <1>2, <1>3, <1>4, <1>5 DEF ValidationInv

LEMMA StutterValidationInv ==
  ASSUME ValidationInv, UNCHANGED Validation!validationVars
  PROVE  ValidationInv'
<1> USE DEF Validation!validationVars, Validation!runVars, Validation!fileVars,
            Validation!verdictVars, Validation!corpusVars
<1>1. /\ suite' = suite /\ scores' = scores /\ receipt' = receipt /\ made' = made
      /\ pbc' = pbc /\ result' = result /\ reading' = reading /\ decision' = decision
      /\ at' = at /\ dir' = dir /\ todo' = todo /\ loaded' = loaded
      /\ crossed' = crossed /\ replaced' = replaced
  OBVIOUS
<1>2. ValidationTypes' = ValidationTypes /\ Owned' = Owned
  BY <1>1 DEF ValidationTypes, Owned
<1>3. Measuring' = Measuring
  BY <1>1 DEF Measuring, Left, OwnResults, OwnFiles, OfCandidate, Unmeasured
<1>4. Sized' = Sized /\ Receipts' = Receipts
  BY <1>1 DEF Sized, Receipts, OwnResults, OwnFiles, OneOrigin
<1>5. Held' = Held
  BY <1>1 DEF Held, HeldOf
<1>6. Judged' = Judged
  BY <1>1 DEF Judged, Validation!Gains
<1>7. Trusted' = Trusted /\ Validation!PassIsEarned' = Validation!PassIsEarned
  BY <1>1 DEF Trusted, Validation!Excluded, Validation!PassIsEarned
<1> QED
  BY <1>2, <1>3, <1>4, <1>5, <1>6, <1>7 DEF ValidationInv

(* The runs go on, and no file or verdict changes.                         *)
LEMMA RunsGoOn ==
  ASSUME ValidationInv, Trusted,
         suite' = suite, scores' = scores, receipt' = receipt, made' = made, pbc' = pbc,
         result' = result, reading' = reading, decision' = decision,
         DOMAIN at' = Runners, DOMAIN todo' = Runners, DOMAIN loaded' = Runners,
         DOMAIN dir' = Runners,
         \A q \in Runners : at'[q] \in {"preflight", "attempt", "scoring"} => dir'[q] \in Folders,
         \A q \in Runners : at'[q] = "scoring" =>
           /\ at[q] = "scoring" /\ dir'[q] = dir[q] /\ loaded'[q] = loaded[q]
           /\ \/ todo'[q] = todo[q]
              \/ todo[q] # <<>> /\ Head(todo[q]) = "proof" /\ todo'[q] = Tail(todo[q])
  PROVE  ValidationInv'
<1>0. Measuring /\ Sized /\ Receipts /\ Held /\ Judged /\ Validation!PassIsEarned
      /\ ValidationTypes /\ Owned
  BY DEF ValidationInv
<1>1. ValidationTypes'
  BY <1>0 DEF ValidationTypes, Runners, Folders
<1>2. Owned'
  BY <1>0 DEF Owned, Folders, Runners
<1>3. Measuring'
  <2> SUFFICES ASSUME suite # "jls2", NEW r \in Runners, at'[r] = "scoring"
               PROVE  (/\ todo[r] \in Left /\ OwnResults(scores[dir[r]], r)
                       /\ OfCandidate(r) /\ Unmeasured(r))'
    BY DEF Measuring, Runners
  <2>1. /\ at[r] = "scoring" /\ dir'[r] = dir[r] /\ loaded'[r] = loaded[r]
        /\ \/ todo'[r] = todo[r]
           \/ todo[r] # <<>> /\ Head(todo[r]) = "proof" /\ todo'[r] = Tail(todo[r])
    OBVIOUS
  <2>2. /\ todo[r] \in Left /\ OwnResults(scores[dir[r]], r)
        /\ OfCandidate(r) /\ Unmeasured(r)
    BY <1>0, <2>1 DEF Measuring
  <2>3. OwnResults(scores[dir[r]], r)'
    BY <2>1, <2>2 DEF OwnResults, OwnFiles
  <2>4. suite \in {"clue", "tbl1", "dms2"}
    BY <1>0 DEF ValidationTypes, Validation!Suites
  <2>5. CASE todo'[r] = todo[r]
    BY <2>1, <2>2, <2>3, <2>5 DEF Left, OfCandidate, Unmeasured
  <2>6. CASE todo[r] # <<>> /\ Head(todo[r]) = "proof" /\ todo'[r] = Tail(todo[r])
    <3>1. /\ Tail(todo[r]) \in Left /\ suite # "dms2"
          /\ Tail(todo[r]) # <<"performance", "proof", "accepted">>
      BY <2>2, <2>4, <2>6, NextStage
    <3>2. (todo[r] \in Left)'
      BY <2>6, <3>1 DEF Left
    <3> QED
      BY <2>6, <3>1, <3>2, <2>3 DEF OfCandidate, Unmeasured
  <2> QED
    BY <2>1, <2>5, <2>6
<1>4. Sized' /\ Receipts'
  BY <1>0 DEF Sized, Receipts, OwnResults, OwnFiles, OneOrigin, Folders
<1>5. Held' /\ Judged'
  BY <1>0 DEF Held, HeldOf, Folders, Judged, Validation!Gains
<1>6. Trusted' => Validation!PassIsEarned'
  BY <1>0 DEF Trusted, Validation!PassIsEarned
<1> QED
  BY <1>1, <1>2, <1>3, <1>4, <1>5, <1>6 DEF ValidationInv


LEMMA CorpusKeepsValidationInv ==
  ASSUME ValidationInv, Trusted, Validation!EditCorpus
  PROVE  ValidationInv'
<1>1. /\ suite' = suite /\ scores' = scores /\ receipt' = receipt /\ made' = made
      /\ pbc' = pbc /\ result' = result /\ reading' = reading /\ decision' = decision
      /\ at' = at /\ dir' = dir /\ todo' = todo /\ loaded' = loaded
  BY DEF Validation!EditCorpus, Validation!runVars, Validation!fileVars, Validation!verdictVars
<1>2. ValidationTypes
  BY DEF ValidationInv
<1> QED
  BY <1>1, <1>2, RunsGoOn DEF ValidationTypes

LEMMA StartKeepsValidationInv ==
  ASSUME ValidationInv, Trusted, NEW r \in Runners,
         \/ \E d \in Folders : Validation!Start(r, d)
         \/ Validation!Preflight(r) \/ Validation!ChecksRefuse(r) \/ Validation!Kill(r)
  PROVE  ValidationInv'
<1>1. /\ suite' = suite /\ scores' = scores /\ receipt' = receipt /\ made' = made
      /\ pbc' = pbc /\ result' = result /\ reading' = reading /\ decision' = decision
      /\ todo' = todo
  BY DEF Validation!Start, Validation!Preflight, Validation!ChecksRefuse, Validation!Kill,
         Validation!runVars, Validation!fileVars, Validation!verdictVars
<1>2. ValidationTypes
  BY DEF ValidationInv
<1>3. /\ DOMAIN at' = Runners /\ DOMAIN loaded' = Runners /\ DOMAIN dir' = Runners
      /\ \A q \in Runners : at'[q] \in {"preflight", "attempt", "scoring"} => dir'[q] \in Folders
      /\ \A q \in Runners : at'[q] = "scoring" =>
           at[q] = "scoring" /\ dir'[q] = dir[q] /\ loaded'[q] = loaded[q]
  <2>1. CASE \E d \in Folders : Validation!Start(r, d)
    BY <1>2, <2>1 DEF ValidationTypes, Validation!Start
  <2>2. CASE Validation!Preflight(r)
    BY <1>2, <2>2 DEF ValidationTypes, Validation!Preflight
  <2>3. CASE Validation!ChecksRefuse(r)
    BY <1>2, <2>3 DEF ValidationTypes, Validation!ChecksRefuse
  <2>4. CASE Validation!Kill(r)
    BY <1>2, <2>4 DEF ValidationTypes, Validation!Kill
  <2> QED
    BY <2>1, <2>2, <2>3, <2>4
<1> QED
  BY <1>1, <1>2, <1>3, RunsGoOn DEF ValidationTypes

LEMMA ProofKeepsValidationInv ==
  ASSUME ValidationInv, Trusted, NEW r \in Runners, NEW proven, Validation!Proves(r, proven)
  PROVE  ValidationInv'
<1>1. /\ suite' = suite /\ scores' = scores /\ receipt' = receipt /\ made' = made
      /\ pbc' = pbc /\ result' = result /\ reading' = reading /\ decision' = decision
      /\ at' = at /\ dir' = dir /\ loaded' = loaded
  BY DEF Validation!Proves, Validation!fileVars, Validation!verdictVars
<1>2. ValidationTypes
  BY DEF ValidationInv
<1>3. /\ todo[r] # <<>> /\ Head(todo[r]) = "proof"
      /\ todo' = [todo EXCEPT ![r] = Tail(todo[r])]
  BY DEF Validation!Proves, Validation!Does, Validation!Done
<1>4. /\ DOMAIN todo' = Runners
      /\ \A q \in Runners :
           \/ todo'[q] = todo[q]
           \/ todo[q] # <<>> /\ Head(todo[q]) = "proof" /\ todo'[q] = Tail(todo[q])
  BY <1>2, <1>3 DEF ValidationTypes
<1> QED
  BY <1>1, <1>2, <1>4, RunsGoOn DEF ValidationTypes

(* A run owns a directory of its own from now on, or is refused.           *)
LEMMA AttemptKeepsValidationInv ==
  ASSUME ValidationInv, Trusted, NEW r \in Runners, Validation!Attempt(r)
  PROVE  ValidationInv'
<1>0. Measuring /\ Sized /\ Receipts /\ Held /\ Judged /\ Validation!PassIsEarned
      /\ ValidationTypes /\ Owned
  BY DEF ValidationInv
<1>1. /\ suite' = suite /\ scores' = scores /\ receipt' = receipt
      /\ pbc' = pbc /\ result' = result /\ reading' = reading /\ decision' = decision
      /\ dir' = dir /\ loaded' = loaded
  BY DEF Validation!Attempt, Validation!verdictVars
<1>2. CASE suite # "jls2" /\ dir[r] \in made
  <2>1. /\ todo' = todo /\ made' = made
        /\ at' = [at EXCEPT ![r] = "refused"]
    BY <1>2 DEF Validation!Attempt
  <2>2. /\ DOMAIN at' = Runners
        /\ \A q \in Runners : at'[q] = IF q = r THEN "refused" ELSE at[q]
    BY <1>0, <2>1 DEF ValidationTypes
  <2>3. \A q \in Runners : at'[q] \in {"preflight", "attempt", "scoring"} => dir'[q] \in Folders
    BY <1>0, <1>1, <2>2 DEF ValidationTypes
  <2> QED
    BY <1>0, <1>1, <2>1, <2>2, <2>3, RunsGoOn DEF ValidationTypes
<1>3. CASE ~(suite # "jls2" /\ dir[r] \in made)
  <2>1. /\ at[r] = "attempt" /\ made' = made \cup {dir[r]}
        /\ at' = [at EXCEPT ![r] = "scoring"]
        /\ todo' = [todo EXCEPT ![r] = Validation!Stages[suite]]
    BY <1>3 DEF Validation!Attempt
  <2>2. /\ DOMAIN at' = Runners /\ DOMAIN todo' = Runners
        /\ at'[r] = "scoring" /\ todo'[r] = Validation!Stages[suite]
        /\ \A q \in Runners \ {r} : at'[q] = at[q] /\ todo'[q] = todo[q]
    BY <1>0, <2>1 DEF ValidationTypes
  <2>3. dir[r] \in Folders
    BY <1>0, <2>1 DEF ValidationTypes
  <2>4. ValidationTypes'
    BY <1>0, <1>1, <2>2, <2>3 DEF ValidationTypes, Runners, Folders
  <2>5. suite # "jls2" =>
          /\ receipt[dir[r]] = Nothing
          /\ \A f \in Validation!ResultFiles : scores[dir[r]][f] = Nothing
    BY <1>0, <1>3, <2>3 DEF Owned
  <2>6. Owned'
    <3> SUFFICES ASSUME suite # "jls2" PROVE Owned'
      BY <1>1 DEF Owned
    <3>1. \A q \in Runners : at'[q] = "scoring" =>
            dir'[q] \in made' /\ receipt'[dir'[q]] = Nothing
      BY <1>0, <1>1, <2>1, <2>2, <2>5 DEF Owned
    <3>2. \A p, q \in Runners :
            at'[p] = "scoring" /\ at'[q] = "scoring" /\ dir'[p] = dir'[q] => p = q
      BY <1>0, <1>1, <1>3, <2>2 DEF Owned
    <3>3. \A d \in Folders \ made' :
            receipt'[d] = Nothing /\ \A f \in Validation!ResultFiles : scores'[d][f] = Nothing
      BY <1>0, <1>1, <2>1 DEF Owned
    <3> QED
      BY <3>1, <3>2, <3>3 DEF Owned, Runners, Folders
  <2>7. Measuring'
    <3> SUFFICES ASSUME suite # "jls2", NEW q \in Runners, at'[q] = "scoring"
                 PROVE  (/\ todo[q] \in Left /\ OwnResults(scores[dir[q]], q)
                         /\ OfCandidate(q) /\ Unmeasured(q))'
      BY <1>1 DEF Measuring, Runners
    <3>1. CASE q = r
      <4>1. suite \in {"clue", "tbl1", "dms2"}
        BY <1>0 DEF ValidationTypes, Validation!Suites
      <4>2. /\ suite = "clue" => Validation!Stages[suite] = <<"performance", "proof", "accepted">>
            /\ suite = "tbl1" => Validation!Stages[suite] = <<"performance", "memory", "proof">>
            /\ suite = "dms2" => Validation!Stages[suite] =
                 <<"baseline", "baseline_memory", "performance", "memory">>
        BY DEF Validation!Stages
      <4>3. (todo[q] \in Left)'
        BY <1>1, <2>2, <3>1, <4>1, <4>2 DEF Left
      <4>4. suite = "dms2" => todo'[q] \notin {<<"memory">>, <<>>}
        BY <2>2, <3>1, <4>2
      <4> QED
        BY <1>1, <2>5, <3>1, <4>3, <4>4
           DEF OwnResults, OfCandidate, Unmeasured, Validation!ResultFiles
    <3>2. CASE q # r
      <4>1. /\ todo[q] \in Left /\ OwnResults(scores[dir[q]], q)
            /\ OfCandidate(q) /\ Unmeasured(q)
        BY <1>0, <2>2, <3>2 DEF Measuring
      <4>2. todo'[q] = todo[q]
        BY <2>2, <3>2
      <4> QED
        BY <1>1, <4>1, <4>2 DEF Left, OwnResults, OwnFiles, OfCandidate, Unmeasured
    <3> QED
      BY <3>1, <3>2
  <2>8. Sized' /\ Receipts'
    BY <1>0, <1>1 DEF Sized, Receipts, OwnResults, OwnFiles, OneOrigin, Folders
  <2>9. Held' /\ Judged'
    BY <1>0, <1>1 DEF Held, HeldOf, Folders, Judged, Validation!Gains
  <2>10. Trusted' => Validation!PassIsEarned'
    BY <1>0, <1>1 DEF Trusted, Validation!PassIsEarned
  <2> QED
    BY <2>4, <2>6, <2>7, <2>8, <2>9, <2>10 DEF ValidationInv
<1> QED
  BY <1>2, <1>3


(* A run measures into its own directory.                                  *)
LEMMA MeasuringKeepsValidationInv ==
  ASSUME ValidationInv, Trusted, NEW r \in Runners, NEW f \in Validation!ResultFiles, NEW m,
         at[r] = "scoring", todo[r] # <<>>, f = Head(todo[r]),
         scores' = [scores EXCEPT ![dir[r]][f] = m],
         todo' = [todo EXCEPT ![r] = Tail(todo[r])],
         m.by = r, suite = "dms2" /\ f \in {"performance", "memory"} => m.corpus = loaded[r],
         suite = "clue" /\ f = "performance" => m.bytes \in [Items -> Nat],
         suite' = suite, at' = at, dir' = dir, loaded' = loaded, made' = made,
         receipt' = receipt, result' = result, pbc' = pbc, reading' = reading,
         decision' = decision
  PROVE  ValidationInv'
<1>0. Measuring /\ Sized /\ Receipts /\ Held /\ Judged /\ Validation!PassIsEarned
      /\ ValidationTypes /\ Owned
  BY DEF ValidationInv
<1>1. /\ dir[r] \in Folders /\ DOMAIN scores = Folders
      /\ \A d \in Folders : DOMAIN scores[d] = Validation!ResultFiles
      /\ DOMAIN todo = Runners
  BY <1>0 DEF ValidationTypes
<1>2. /\ DOMAIN scores' = Folders
      /\ \A d \in Folders : DOMAIN scores'[d] = Validation!ResultFiles
      /\ scores'[dir[r]] = [scores[dir[r]] EXCEPT ![f] = m]
      /\ scores'[dir[r]][f] = m
      /\ \A g \in Validation!ResultFiles \ {f} : scores'[dir[r]][g] = scores[dir[r]][g]
      /\ \A d \in Folders \ {dir[r]} : scores'[d] = scores[d]
  BY <1>1
<1>3. /\ DOMAIN todo' = Runners /\ todo'[r] = Tail(todo[r])
      /\ \A q \in Runners \ {r} : todo'[q] = todo[q]
  BY <1>1
<1>4. ValidationTypes'
  BY <1>0, <1>2, <1>3 DEF ValidationTypes, Runners, Folders, Validation!ResultFiles
<1>5. suite # "jls2" => dir[r] \in made /\ receipt[dir[r]] = Nothing
  BY <1>0 DEF Owned
<1>6. Owned'
  <2> SUFFICES ASSUME suite # "jls2" PROVE Owned'
    BY DEF Owned
  <2>1. \A d \in Folders \ made : scores'[d] = scores[d]
    BY <1>2, <1>5
  <2> QED
    BY <1>0, <2>1 DEF Owned, Runners, Folders, Validation!ResultFiles
<1>7. suite \in {"clue", "tbl1", "dms2"} \/ suite = "jls2"
  BY <1>0 DEF ValidationTypes, Validation!Suites
<1>8. suite # "jls2" =>
        /\ todo[r] \in Left /\ OwnResults(scores[dir[r]], r)
        /\ OfCandidate(r) /\ Unmeasured(r)
  BY <1>0 DEF Measuring
<1>9. suite # "jls2" =>
        /\ Tail(todo[r]) \in Left /\ f \in OwnFiles
        /\ Tail(todo[r]) # <<"performance", "proof", "accepted">>
        /\ suite = "clue" /\ f = "performance"
             => todo[r] = <<"performance", "proof", "accepted">>
        /\ suite = "dms2" =>
             /\ f = "memory" => todo[r] = <<"memory">>
             /\ Tail(todo[r]) = <<"memory">> => f = "performance"
             /\ f # "memory" => Tail(todo[r]) # <<>>
  <2> SUFFICES ASSUME suite # "jls2"
               PROVE  /\ Tail(todo[r]) \in Left /\ f \in OwnFiles
                      /\ Tail(todo[r]) # <<"performance", "proof", "accepted">>
                      /\ suite = "clue" /\ f = "performance"
                           => todo[r] = <<"performance", "proof", "accepted">>
                      /\ suite = "dms2" =>
                           /\ f = "memory" => todo[r] = <<"memory">>
                           /\ Tail(todo[r]) = <<"memory">> => f = "performance"
                           /\ f # "memory" => Tail(todo[r]) # <<>>
    OBVIOUS
  <2>1. f # "proof"
    BY DEF Validation!ResultFiles
  <2> QED
    BY <1>7, <1>8, <2>1, NextStage
<1>10. Measuring'
  <2> SUFFICES ASSUME suite # "jls2", NEW q \in Runners, at[q] = "scoring"
               PROVE  (/\ todo[q] \in Left /\ OwnResults(scores[dir[q]], q)
                       /\ OfCandidate(q) /\ Unmeasured(q))'
    BY DEF Measuring, Runners
  <2>1. CASE q = r
    <3>1. (todo[q] \in Left)'
      BY <1>3, <1>9, <2>1 DEF Left
    <3>2. OwnResults(scores[dir[q]], q)'
      BY <1>2, <1>8, <1>9, <2>1 DEF OwnResults, OwnFiles
    <3>3. OfCandidate(q)'
      <4> SUFFICES ASSUME suite = "dms2"
                   PROVE  /\ todo'[r] \in {<<"memory">>, <<>>}
                               => scores'[dir[r]].performance.corpus = loaded[r]
                          /\ scores'[dir[r]].memory # Nothing
                               => todo'[r] = <<>> /\ scores'[dir[r]].memory.corpus = loaded[r]
        BY <2>1 DEF OfCandidate
      <4>1. /\ todo[r] \in {<<"memory">>, <<>>} => scores[dir[r]].performance.corpus = loaded[r]
            /\ scores[dir[r]].memory # Nothing => todo[r] = <<>>
        BY <1>8 DEF OfCandidate
      <4>2. scores[dir[r]].memory = Nothing
        BY <4>1
      <4>3. CASE f = "memory"
        <5>1. todo[r] = <<"memory">> /\ Tail(<<"memory">>) = <<>>
          BY <1>9, <4>3, HeadsAndTails
        <5>2. /\ scores'[dir[r]].performance = scores[dir[r]].performance
              /\ scores'[dir[r]].memory = m
          BY <1>2, <4>3 DEF Validation!ResultFiles
        <5> QED
          BY <1>3, <4>1, <4>3, <5>1, <5>2
      <4>4. CASE f = "performance"
        <5>1. /\ scores'[dir[r]].performance = m
              /\ scores'[dir[r]].memory = Nothing
          BY <1>2, <4>2, <4>4 DEF Validation!ResultFiles
        <5> QED
          BY <4>4, <5>1
      <4>5. CASE f \notin {"performance", "memory"}
        <5>1. todo'[r] \notin {<<"memory">>, <<>>}
          BY <1>3, <1>9, <4>5
        <5>2. scores'[dir[r]].memory = Nothing
          BY <1>2, <4>2, <4>5 DEF Validation!ResultFiles
        <5> QED
          BY <5>1, <5>2
      <4> QED
        BY <4>3, <4>4, <4>5
    <3>4. Unmeasured(q)'
      BY <1>3, <1>9, <2>1 DEF Unmeasured
    <3> QED
      BY <3>1, <3>2, <3>3, <3>4
  <2>2. CASE q # r
    <3>1. dir[q] \in Folders \ {dir[r]}
      BY <1>0, <2>2 DEF Owned, ValidationTypes
    <3>2. scores'[dir[q]] = scores[dir[q]] /\ todo'[q] = todo[q]
      BY <1>2, <1>3, <2>2, <3>1
    <3>3. /\ todo[q] \in Left /\ OwnResults(scores[dir[q]], q)
          /\ OfCandidate(q) /\ Unmeasured(q)
      BY <1>0 DEF Measuring
    <3> QED
      BY <3>2, <3>3 DEF Left, OwnResults, OwnFiles, OfCandidate, Unmeasured
  <2> QED
    BY <2>1, <2>2
<1>11. Sized'
  <2> SUFFICES ASSUME suite = "clue", NEW d \in Folders, scores'[d].performance # Nothing
               PROVE  scores'[d].performance.bytes \in [Items -> Nat]
    BY DEF Sized, Folders
  <2>1. scores[d].performance # Nothing => scores[d].performance.bytes \in [Items -> Nat]
    BY <1>0 DEF Sized
  <2>2. CASE d = dir[r] /\ f = "performance"
    BY <1>2, <2>2
  <2>3. CASE ~(d = dir[r] /\ f = "performance")
    <3>1. scores'[d].performance = scores[d].performance
      BY <1>2, <2>3 DEF Validation!ResultFiles
    <3> QED
      BY <2>1, <3>1
  <2> QED
    BY <2>2, <2>3
<1>12. Receipts'
  <2> SUFFICES ASSUME suite # "jls2", NEW d \in Folders, receipt[d] # Nothing
               PROVE  /\ OwnResults(receipt[d].scores, receipt[d].by)'
                      /\ OneOrigin(receipt[d].scores)'
                      /\ suite = "clue" /\ receipt[d].completed => receipt[d].scores = scores'[d]
    BY DEF Receipts, Folders
  <2>1. scores'[d] = scores[d]
    BY <1>2, <1>5
  <2> QED
    BY <1>0, <2>1 DEF Receipts, OwnResults, OwnFiles, OneOrigin
<1>13. Held'
  <2> SUFFICES ASSUME reading # Nothing, suite # "jls2"
               PROVE  HeldOf(reading.dir, reading.other)'
    BY <1>0 DEF Held
  <2>1. HeldOf(reading.dir, reading.other)
    BY <1>0 DEF Held
  <2>2. CASE suite # "clue"
    <3>1. scores'[reading.dir] = scores[reading.dir]
      BY <1>2, <1>5, <2>1 DEF HeldOf
    <3> QED
      BY <2>1, <2>2, <3>1 DEF HeldOf, Folders
  <2>3. CASE suite = "clue"
    <3>1. scores'[reading.other].performance = scores[reading.other].performance
      <4>1. CASE f = "performance"
        <5>1. scores[dir[r]].performance = Nothing
          BY <1>8, <1>9, <2>3, <4>1 DEF Unmeasured
        <5>2. reading.other \in Folders \ {dir[r]}
          BY <2>1, <2>3, <5>1 DEF HeldOf
        <5> QED
          BY <1>2, <5>2
      <4>2. CASE f # "performance"
        BY <1>2, <2>1, <4>2 DEF HeldOf, Validation!ResultFiles
      <4> QED
        BY <4>1, <4>2
    <3> QED
      BY <2>1, <2>3, <3>1 DEF HeldOf, Folders
  <2> QED
    BY <2>2, <2>3
<1>14. Judged'
  BY <1>0 DEF Judged, Validation!Gains
<1>15. Trusted' => Validation!PassIsEarned'
  BY <1>0 DEF Trusted, Validation!PassIsEarned
<1> QED
  BY <1>4, <1>6, <1>10, <1>11, <1>12, <1>13, <1>14, <1>15 DEF ValidationInv

LEMMA BenchmarkKeepsValidationInv ==
  ASSUME Validation!ValidationAssumption, ValidationInv, Trusted, NEW r \in Runners,
         \/ Validation!Benchmark(r) \/ Validation!CandidatePerformance(r)
         \/ Validation!CandidateMemory(r) \/ Validation!Accept(r)
  PROVE  ValidationInv'
<1>1. \A who, corpus, more, bytes, good :
        LET m == Validation!Result(who, corpus, more, bytes, good)
        IN m.by = who /\ m.corpus = corpus /\ m.bytes = bytes
  BY DEF Validation!Result
<1>2. \A o \in Outcomes : o.bytes \in [Items -> Nat]
  BY DEF Validation!ValidationAssumption
<1>3. /\ suite' = suite /\ at' = at /\ dir' = dir /\ loaded' = loaded /\ made' = made
      /\ receipt' = receipt /\ result' = result /\ pbc' = pbc /\ reading' = reading
      /\ decision' = decision
      /\ todo' = [todo EXCEPT ![r] = Tail(todo[r])]
  BY DEF Validation!Benchmark, Validation!CandidatePerformance, Validation!CandidateMemory,
         Validation!Accept, Validation!Done, Validation!verdictVars
<1>4. \E f \in Validation!ResultFiles : \E m :
        /\ at[r] = "scoring" /\ todo[r] # <<>> /\ f = Head(todo[r])
        /\ scores' = [scores EXCEPT ![dir[r]][f] = m]
        /\ m.by = r
        /\ suite = "dms2" /\ f \in {"performance", "memory"} => m.corpus = loaded[r]
        /\ suite = "clue" /\ f = "performance" => m.bytes \in [Items -> Nat]
  <2>1. CASE Validation!Benchmark(r)
    <3>1. PICK f \in {"performance", "memory", "baseline", "baseline_memory"} :
            /\ Validation!Does(r, f)
            /\ suite = "dms2" => f \in {"baseline", "baseline_memory"}
            /\ \E o \in Validation!Measures(f) :
                 scores' = [scores EXCEPT ![dir[r]][f] =
                   Validation!Result(r, Validation!Listed.version, Validation!Listed.more,
                                     o.bytes, o.good)]
      BY <2>1 DEF Validation!Benchmark
    <3>2. PICK o \in Validation!Measures(f) :
            scores' = [scores EXCEPT ![dir[r]][f] =
              Validation!Result(r, Validation!Listed.version, Validation!Listed.more,
                                o.bytes, o.good)]
      BY <3>1
    <3>3. PICK m : m = Validation!Result(r, Validation!Listed.version,
                                         Validation!Listed.more, o.bytes, o.good)
      OBVIOUS
    <3>4. m.by = r /\ m.bytes = o.bytes
      BY <1>1, <3>3
    <3>5. f = "performance" => m.bytes \in [Items -> Nat]
      BY <1>2, <3>4 DEF Validation!Measures
    <3>6. at[r] = "scoring" /\ todo[r] # <<>> /\ f = Head(todo[r])
      BY <3>1 DEF Validation!Does
    <3>7. f \in Validation!ResultFiles
      BY DEF Validation!ResultFiles
    <3>8. suite = "dms2" /\ f \in {"performance", "memory"} => m.corpus = loaded[r]
      BY <3>1
    <3>9. scores' = [scores EXCEPT ![dir[r]][f] = m]
      BY <3>2, <3>3
    <3> QED
      BY <3>4, <3>5, <3>6, <3>7, <3>8, <3>9
  <2>2. CASE Validation!CandidatePerformance(r)
    <3>1. PICK o \in Validation!Measures("performance") :
            scores' = [scores EXCEPT ![dir[r]].performance =
              Validation!Result(r, loaded[r], FALSE, o.bytes, o.good)]
      BY <2>2 DEF Validation!CandidatePerformance
    <3>2. PICK m : m = Validation!Result(r, loaded[r], FALSE, o.bytes, o.good)
      OBVIOUS
    <3>3. m.by = r /\ m.corpus = loaded[r]
      BY <3>2 DEF Validation!Result
    <3>4. /\ suite = "dms2" /\ at[r] = "scoring" /\ todo[r] # <<>>
          /\ "performance" = Head(todo[r])
      BY <2>2 DEF Validation!CandidatePerformance, Validation!Does
    <3>5. scores' = [scores EXCEPT ![dir[r]]["performance"] = m]
      BY <3>1, <3>2
    <3>6. "performance" \in Validation!ResultFiles
      BY DEF Validation!ResultFiles
    <3> QED
      BY <3>3, <3>4, <3>5, <3>6
  <2>3. CASE Validation!CandidateMemory(r)
    <3>1. PICK o \in Validation!Measures("memory") :
            scores' = [scores EXCEPT ![dir[r]].memory =
              Validation!Result(r, loaded[r], FALSE, o.bytes, o.good)]
      BY <2>3 DEF Validation!CandidateMemory
    <3>2. PICK m : m = Validation!Result(r, loaded[r], FALSE, o.bytes, o.good)
      OBVIOUS
    <3>3. m.by = r /\ m.corpus = loaded[r]
      BY <3>2 DEF Validation!Result
    <3>4. /\ suite = "dms2" /\ at[r] = "scoring" /\ todo[r] # <<>>
          /\ "memory" = Head(todo[r])
      BY <2>3 DEF Validation!CandidateMemory, Validation!Does
    <3>5. scores' = [scores EXCEPT ![dir[r]]["memory"] = m]
      BY <3>1, <3>2
    <3>6. "memory" \in Validation!ResultFiles
      BY DEF Validation!ResultFiles
    <3> QED
      BY <3>3, <3>4, <3>5, <3>6
  <2>4. CASE Validation!Accept(r)
    <3>1. scores' = [scores EXCEPT ![dir[r]].accepted =
            Validation!Result(r, loaded[r], FALSE, scores[dir[r]].performance.bytes, TRUE)]
      BY <2>4 DEF Validation!Accept
    <3>2. PICK m : m = Validation!Result(r, loaded[r], FALSE,
                                         scores[dir[r]].performance.bytes, TRUE)
      OBVIOUS
    <3>3. m.by = r /\ m.corpus = loaded[r]
      BY <3>2 DEF Validation!Result
    <3>4. /\ at[r] = "scoring" /\ todo[r] # <<>>
          /\ "accepted" = Head(todo[r])
      BY <2>4 DEF Validation!Accept, Validation!Does
    <3>5. scores' = [scores EXCEPT ![dir[r]]["accepted"] = m]
      BY <3>1, <3>2
    <3>6. "accepted" \in Validation!ResultFiles
      BY DEF Validation!ResultFiles
    <3> QED
      BY <3>3, <3>4, <3>5, <3>6
  <2> QED
    BY <2>1, <2>2, <2>3, <2>4
<1>5. PICK f \in Validation!ResultFiles : \E m :
        /\ at[r] = "scoring" /\ todo[r] # <<>> /\ f = Head(todo[r])
        /\ scores' = [scores EXCEPT ![dir[r]][f] = m]
        /\ m.by = r
        /\ suite = "dms2" /\ f \in {"performance", "memory"} => m.corpus = loaded[r]
        /\ suite = "clue" /\ f = "performance" => m.bytes \in [Items -> Nat]
  BY <1>4, Zenon
<1> QED
  BY <1>3, <1>5, MeasuringKeepsValidationInv


(* A run binds in its directory what it measured, or nothing.              *)
LEMMA ReceiptKeepsValidationInv ==
  ASSUME ValidationInv, Trusted, NEW r \in Runners,
         Validation!WriteReceipt(r) \/ Validation!Fail(r)
  PROVE  ValidationInv'
<1>0. Measuring /\ Sized /\ Receipts /\ Held /\ Judged /\ Validation!PassIsEarned
      /\ ValidationTypes /\ Owned
  BY DEF ValidationInv
<1>1. /\ suite # "jls2" /\ at[r] = "scoring"
      /\ at' = [at EXCEPT ![r] = "ended"]
      /\ suite' = suite /\ scores' = scores /\ made' = made /\ pbc' = pbc
      /\ result' = result /\ reading' = reading /\ decision' = decision
      /\ dir' = dir /\ loaded' = loaded /\ todo' = todo
  BY DEF Validation!WriteReceipt, Validation!Fail, Validation!verdictVars
<1>2. \E x : /\ receipt' = [receipt EXCEPT ![dir[r]] = x]
             /\ OwnResults(x.scores, x.by) /\ OneOrigin(x.scores)
             /\ x.completed => x.scores = scores[dir[r]]
  <2>1. CASE Validation!WriteReceipt(r)
    <3>1. todo[r] = <<>>
      BY <2>1 DEF Validation!WriteReceipt
    <3>2. PICK x : x = [by |-> r, completed |-> TRUE, manifest |-> hashed[r],
                        scores |-> scores[dir[r]], sound |-> sound[r]]
      OBVIOUS
    <3>3. receipt' = [receipt EXCEPT ![dir[r]] = x]
      BY <2>1, <3>2 DEF Validation!WriteReceipt
    <3>4. x.by = r /\ x.scores = scores[dir[r]]
      BY <3>2
    <3>5. OwnResults(scores[dir[r]], r) /\ OfCandidate(r)
      BY <1>0, <1>1 DEF Measuring
    <3>6. OneOrigin(scores[dir[r]])
      BY <3>1, <3>5 DEF OneOrigin, OfCandidate
    <3> QED
      BY <3>3, <3>4, <3>5, <3>6
  <2>2. CASE Validation!Fail(r)
    <3>1. PICK x : x = [by |-> r, completed |-> FALSE, manifest |-> hashed[r],
                        scores |-> Validation!NoScores, sound |-> FALSE]
      OBVIOUS
    <3>2. receipt' = [receipt EXCEPT ![dir[r]] = x]
      BY <2>2, <3>1 DEF Validation!Fail
    <3>3. x.scores = Validation!NoScores /\ ~x.completed
      BY <3>1
    <3>4. OwnResults(x.scores, x.by) /\ OneOrigin(x.scores)
      BY <3>3 DEF OwnResults, OneOrigin, Validation!NoScores, Validation!ResultFiles
    <3> QED
      BY <3>2, <3>3, <3>4
  <2> QED
    BY <2>1, <2>2
<1>3. PICK x : /\ receipt' = [receipt EXCEPT ![dir[r]] = x]
               /\ OwnResults(x.scores, x.by) /\ OneOrigin(x.scores)
               /\ x.completed => x.scores = scores[dir[r]]
  BY <1>2
<1>4. /\ DOMAIN at' = Runners /\ at'[r] = "ended"
      /\ \A q \in Runners \ {r} : at'[q] = at[q]
  BY <1>0, <1>1 DEF ValidationTypes
<1>5. /\ dir[r] \in Folders /\ dir[r] \in made /\ receipt[dir[r]] = Nothing
      /\ \A q \in Runners \ {r} : at[q] = "scoring" => dir[q] # dir[r]
  BY <1>0, <1>1 DEF ValidationTypes, Owned
<1>6. /\ DOMAIN receipt' = Folders /\ receipt'[dir[r]] = x
      /\ \A d \in Folders \ {dir[r]} : receipt'[d] = receipt[d]
  BY <1>0, <1>3, <1>5 DEF ValidationTypes
<1>7. ValidationTypes'
  BY <1>0, <1>1, <1>4, <1>6 DEF ValidationTypes, Runners, Folders
<1>8. Owned'
  <2>1. \A q \in Runners : at'[q] = "scoring" =>
          dir'[q] \in made' /\ receipt'[dir'[q]] = Nothing
    BY <1>0, <1>1, <1>4, <1>5, <1>6 DEF Owned, ValidationTypes
  <2>2. \A p, q \in Runners :
          at'[p] = "scoring" /\ at'[q] = "scoring" /\ dir'[p] = dir'[q] => p = q
    BY <1>0, <1>1, <1>4 DEF Owned
  <2>3. \A d \in Folders \ made' :
          receipt'[d] = Nothing /\ \A f \in Validation!ResultFiles : scores'[d][f] = Nothing
    BY <1>0, <1>1, <1>5, <1>6 DEF Owned
  <2> QED
    BY <2>1, <2>2, <2>3 DEF Owned, Runners, Folders, Validation!ResultFiles
<1>9. Measuring'
  <2> SUFFICES ASSUME NEW q \in Runners, at'[q] = "scoring"
               PROVE  (/\ todo[q] \in Left /\ OwnResults(scores[dir[q]], q)
                       /\ OfCandidate(q) /\ Unmeasured(q))'
    BY DEF Measuring, Runners
  <2>1. at[q] = "scoring"
    BY <1>4
  <2>2. /\ todo[q] \in Left /\ OwnResults(scores[dir[q]], q)
        /\ OfCandidate(q) /\ Unmeasured(q)
    BY <1>0, <1>1, <2>1 DEF Measuring
  <2> QED
    BY <1>1, <2>2 DEF Left, OwnResults, OwnFiles, OfCandidate, Unmeasured
<1>10. Sized' /\ Judged'
  BY <1>0, <1>1 DEF Sized, Judged, Folders, Validation!Gains
<1>11. Receipts'
  <2> SUFFICES ASSUME NEW d \in Folders, receipt'[d] # Nothing
               PROVE  /\ OwnResults(receipt[d].scores, receipt[d].by)'
                      /\ OneOrigin(receipt[d].scores)'
                      /\ suite = "clue" /\ receipt'[d].completed
                           => receipt'[d].scores = scores'[d]
    BY <1>1 DEF Receipts, Folders
  <2>1. CASE d = dir[r]
    BY <1>1, <1>3, <1>6, <2>1 DEF OwnResults, OwnFiles, OneOrigin
  <2>2. CASE d # dir[r]
    <3>1. receipt'[d] = receipt[d]
      BY <1>6, <2>2
    <3> QED
      BY <1>0, <1>1, <3>1 DEF Receipts, OwnResults, OwnFiles, OneOrigin
  <2> QED
    BY <2>1, <2>2
<1>12. Held'
  <2> SUFFICES ASSUME reading # Nothing PROVE HeldOf(reading.dir, reading.other)'
    BY <1>1 DEF Held
  <2>1. HeldOf(reading.dir, reading.other)
    BY <1>0, <1>1 DEF Held
  <2>2. reading.dir \in Folders \ {dir[r]}
    BY <1>5, <2>1 DEF HeldOf
  <2>3. receipt'[reading.dir] = receipt[reading.dir]
    BY <1>6, <2>2
  <2> QED
    BY <1>1, <2>1, <2>3 DEF HeldOf, Folders
<1>13. Trusted' => Validation!PassIsEarned'
  BY <1>0, <1>1 DEF Trusted, Validation!PassIsEarned
<1> QED
  BY <1>7, <1>8, <1>9, <1>10, <1>11, <1>12, <1>13 DEF ValidationInv

(* The file of jls2 is replaced, which an evaluator that has read it does  *)
(* not survive.                                                            *)
LEMMA FamilyKeepsValidationInv ==
  ASSUME ValidationInv, Trusted, NEW r \in Runners,
         Validation!Family(r) \/ Validation!Complete(r)
  PROVE  ValidationInv'
<1>0. Measuring /\ Sized /\ Receipts /\ Held /\ Judged /\ Validation!PassIsEarned
      /\ ValidationTypes /\ Owned
  BY DEF ValidationInv
<1>1. /\ suite' = suite /\ scores' = scores /\ made' = made /\ pbc' = pbc
      /\ receipt' = receipt /\ reading' = reading /\ decision' = decision
      /\ dir' = dir /\ loaded' = loaded /\ at[r] = "scoring"
  BY DEF Validation!Family, Validation!Complete, Validation!Does, Validation!verdictVars
<1>2. suite = "jls2"
  <2>1. CASE Validation!Family(r)
    <3>1. todo[r] # <<>> /\ Head(todo[r]) = "family"
      BY <2>1 DEF Validation!Family, Validation!Does
    <3> SUFFICES ASSUME suite # "jls2" PROVE FALSE
      OBVIOUS
    <3>2. suite \in {"clue", "tbl1", "dms2"} /\ todo[r] \in Left
      BY <1>0, <1>1 DEF ValidationTypes, Validation!Suites, Measuring
    <3>3. Head(todo[r]) \in Validation!ResultFiles \cup {"proof"}
      BY <3>1, <3>2, NextStage
    <3> QED
      BY <3>1, <3>3 DEF Validation!ResultFiles
  <2>2. CASE Validation!Complete(r)
    BY <2>2 DEF Validation!Complete
  <2> QED
    BY <2>1, <2>2
<1>3. /\ DOMAIN at' = Runners /\ DOMAIN todo' = Runners
      /\ \A q \in Runners : at'[q] = at[q] \/ at'[q] = "ended"
  <2>1. CASE Validation!Family(r)
    BY <1>0, <2>1 DEF ValidationTypes, Validation!Family, Validation!Done
  <2>2. CASE Validation!Complete(r)
    BY <1>0, <2>2 DEF ValidationTypes, Validation!Complete
  <2> QED
    BY <2>1, <2>2
<1>4. ValidationTypes'
  BY <1>0, <1>1, <1>3 DEF ValidationTypes, Runners, Folders
<1>5. Owned' /\ Measuring' /\ Sized' /\ Receipts' /\ Judged'
  BY <1>1, <1>2 DEF Owned, Measuring, Sized, Receipts, Judged
<1>6. Trusted' => reading = Nothing
  <2>1. crossed' = (crossed \/ reading # Nothing)
    BY DEF Validation!Family, Validation!Complete
  <2> QED
    BY <2>1 DEF Trusted, Validation!Excluded
<1>7. Trusted' => Held'
  BY <1>1, <1>6 DEF Held
<1>8. Trusted' => Validation!PassIsEarned'
  BY <1>0, <1>1 DEF Trusted, Validation!PassIsEarned
<1> QED
  BY <1>4, <1>5, <1>7, <1>8 DEF ValidationInv

(* PBC writes its result anew, which an evaluator does not survive.        *)
LEMMA PbcKeepsValidationInv ==
  ASSUME Validation!ValidationAssumption, ValidationInv, Trusted,
         (\E d \in Folders : Validation!PbcBegins(d)) \/ Validation!PbcEnds
  PROVE  ValidationInv'
<1>0. Measuring /\ Sized /\ Receipts /\ Held /\ Judged /\ Validation!PassIsEarned
      /\ ValidationTypes /\ Owned
  BY DEF ValidationInv
<1>1. /\ suite' = suite /\ scores' = scores /\ made' = made /\ result' = result
      /\ receipt' = receipt /\ reading' = reading /\ decision' = decision
      /\ at' = at /\ dir' = dir /\ loaded' = loaded /\ todo' = todo
  BY DEF Validation!PbcBegins, Validation!PbcEnds, Validation!runVars,
         Validation!fileVars, Validation!verdictVars
<1>2. \E w, a, b : \E s \in Nat :
        pbc' = [manifest |-> w, accepted |-> a, size |-> s, whole |-> b]
  <2>1. CASE \E d \in Folders : Validation!PbcBegins(d)
    <3>1. PICK d \in Folders : \E size \in PbcSizes :
            pbc' = [manifest |-> listing, accepted |-> Validation!Accepted(d),
                    size |-> size, whole |-> FALSE]
      BY <2>1 DEF Validation!PbcBegins
    <3>2. PICK size \in PbcSizes :
            pbc' = [manifest |-> listing, accepted |-> Validation!Accepted(d),
                    size |-> size, whole |-> FALSE]
      BY <3>1
    <3>3. size \in Nat
      BY DEF Validation!ValidationAssumption
    <3> QED
      BY <3>2, <3>3
  <2>2. CASE Validation!PbcEnds
    <3>1. pbc # Nothing /\ pbc' = [pbc EXCEPT !.whole = TRUE]
      BY <2>2 DEF Validation!PbcEnds
    <3>2. PICK w, a, b : \E s \in Nat :
            pbc = [manifest |-> w, accepted |-> a, size |-> s, whole |-> b]
      BY <1>0, <3>1 DEF ValidationTypes
    <3>3. PICK s \in Nat :
            pbc = [manifest |-> w, accepted |-> a, size |-> s, whole |-> b]
      BY <3>2
    <3>4. pbc' = [manifest |-> w, accepted |-> a, size |-> s, whole |-> TRUE]
      BY <3>1, <3>3
    <3> QED
      BY <3>4
  <2> QED
    BY <2>1, <2>2
<1>3. ValidationTypes'
  BY <1>0, <1>1, <1>2 DEF ValidationTypes, Runners, Folders
<1>4. Owned'
  BY <1>0, <1>1 DEF Owned, Runners, Folders
<1>5. Measuring'
  BY <1>0, <1>1 DEF Measuring, Left, OwnResults, OwnFiles, OfCandidate, Unmeasured, Runners
<1>6. Sized' /\ Receipts'
  BY <1>0, <1>1 DEF Sized, Receipts, OwnResults, OwnFiles, OneOrigin, Folders
<1>7. Judged'
  BY <1>0, <1>1 DEF Judged, Validation!Gains
<1>8. Trusted' => reading = Nothing
  <2>1. crossed' = (crossed \/ reading # Nothing)
    BY DEF Validation!PbcBegins, Validation!PbcEnds
  <2> QED
    BY <2>1 DEF Trusted, Validation!Excluded
<1>9. Trusted' => Held'
  BY <1>1, <1>8 DEF Held
<1>10. Trusted' => Validation!PassIsEarned'
  BY <1>0, <1>1 DEF Trusted, Validation!PassIsEarned
<1> QED
  BY <1>3, <1>4, <1>5, <1>6, <1>7, <1>9, <1>10 DEF ValidationInv


(* Results are replaced from outside: after the receipt, or it is no       *)
(* longer a matter of trust.                                               *)
LEMMA ReplaceKeepsValidationInv ==
  ASSUME ValidationInv, Trusted, NEW d \in Folders, NEW f \in Validation!ResultFiles,
         Validation!Replace(d, f)
  PROVE  ValidationInv'
<1>0. Measuring /\ Sized /\ Receipts /\ Held /\ Judged /\ Validation!PassIsEarned
      /\ ValidationTypes /\ Owned
  BY DEF ValidationInv
<1>1. /\ suite' = suite /\ made' = made /\ result' = result /\ pbc' = pbc
      /\ receipt' = receipt /\ reading' = reading /\ decision' = decision
      /\ at' = at /\ dir' = dir /\ loaded' = loaded /\ todo' = todo
      /\ scores[d][f] # Nothing
  BY DEF Validation!Replace, Validation!runVars, Validation!verdictVars
<1>2. \E m : scores' = [scores EXCEPT ![d][f] = m]
  <2>1. \E o \in Validation!Measures(f) :
          scores' = [scores EXCEPT ![d][f] =
            Validation!Result(Nothing, content, FALSE, o.bytes, o.good)]
    BY DEF Validation!Replace
  <2>2. PICK o \in Validation!Measures(f) :
          scores' = [scores EXCEPT ![d][f] =
            Validation!Result(Nothing, content, FALSE, o.bytes, o.good)]
    BY <2>1, Zenon
  <2>3. PICK m : m = Validation!Result(Nothing, content, FALSE, o.bytes, o.good)
    OBVIOUS
  <2> QED
    BY <2>2, <2>3
<1>3. PICK m : scores' = [scores EXCEPT ![d][f] = m]
  BY <1>2
<1>4. /\ DOMAIN scores' = Folders
      /\ \A e \in Folders : DOMAIN scores'[e] = Validation!ResultFiles
      /\ \A e \in Folders \ {d} : scores'[e] = scores[e]
  BY <1>0, <1>3 DEF ValidationTypes
<1>5. ValidationTypes'
  BY <1>0, <1>1, <1>4 DEF ValidationTypes, Runners, Folders, Validation!ResultFiles
<1>6. Owned'
  <2> SUFFICES ASSUME suite # "jls2" PROVE Owned'
    BY <1>1 DEF Owned
  <2>1. d \in made
    BY <1>0, <1>1 DEF Owned
  <2>2. \A e \in Folders \ made : scores'[e] = scores[e]
    BY <1>4, <2>1
  <2> QED
    BY <1>0, <1>1, <2>2 DEF Owned, Runners, Folders, Validation!ResultFiles
<1>7. Trusted' => reading = Nothing /\ receipt[d] # Nothing /\ suite # "clue"
  <2>1. /\ crossed' = (crossed \/ reading # Nothing)
        /\ replaced' = replaced \cup {IF receipt[d] = Nothing THEN "before_receipt"
                                      ELSE "after_receipt"}
    BY DEF Validation!Replace
  <2>2. CASE receipt[d] = Nothing
    BY <2>1, <2>2 DEF Trusted, Validation!Excluded
  <2>3. CASE receipt[d] # Nothing
    BY <1>1, <2>1, <2>3 DEF Trusted, Validation!Excluded
  <2> QED
    BY <2>2, <2>3
<1> SUFFICES ASSUME Trusted'
             PROVE  /\ Measuring' /\ Sized' /\ Receipts' /\ Held' /\ Judged'
                    /\ Validation!PassIsEarned'
  BY <1>5, <1>6 DEF ValidationInv
<1>8. Measuring'
  <2> SUFFICES ASSUME suite # "jls2", NEW q \in Runners, at[q] = "scoring"
               PROVE  (/\ todo[q] \in Left /\ OwnResults(scores[dir[q]], q)
                       /\ OfCandidate(q) /\ Unmeasured(q))'
    BY <1>1 DEF Measuring, Runners
  <2>1. dir[q] \in Folders \ {d}
    BY <1>0, <1>7 DEF Owned, ValidationTypes
  <2>2. /\ todo[q] \in Left /\ OwnResults(scores[dir[q]], q)
        /\ OfCandidate(q) /\ Unmeasured(q)
    BY <1>0 DEF Measuring
  <2>3. scores'[dir[q]] = scores[dir[q]]
    BY <1>4, <2>1
  <2> QED
    BY <1>1, <2>2, <2>3 DEF Left, OwnResults, OwnFiles, OfCandidate, Unmeasured
<1>9. Sized' /\ Judged' /\ Held'
  BY <1>1, <1>7 DEF Sized, Judged, Held
<1>10. Receipts'
  BY <1>0, <1>1, <1>7 DEF Receipts, OwnResults, OwnFiles, OneOrigin, Folders
<1>11. Validation!PassIsEarned'
  BY <1>0, <1>1 DEF Trusted, Validation!PassIsEarned
<1> QED
  BY <1>8, <1>9, <1>10, <1>11

(* The runs and the files stay, while evaluators and publishers work.      *)
LEMMA FilesStay ==
  ASSUME ValidationInv, Trusted,
         suite' = suite, scores' = scores, receipt' = receipt, made' = made, pbc' = pbc,
         result' = result, at' = at, dir' = dir, todo' = todo, loaded' = loaded
  PROVE  /\ ValidationTypes' /\ Owned' /\ Measuring' /\ Sized' /\ Receipts'
<1>0. Measuring /\ Sized /\ Receipts /\ ValidationTypes /\ Owned
  BY DEF ValidationInv
<1>1. ValidationTypes'
  BY <1>0 DEF ValidationTypes, Runners, Folders
<1>2. Owned'
  BY <1>0 DEF Owned, Runners, Folders
<1>3. Measuring'
  BY <1>0 DEF Measuring, Left, OwnResults, OwnFiles, OfCandidate, Unmeasured, Runners
<1>4. Sized' /\ Receipts'
  BY <1>0 DEF Sized, Receipts, OwnResults, OwnFiles, OneOrigin, Folders
<1> QED
  BY <1>1, <1>2, <1>3, <1>4

LEMMA ReadKeepsValidationInv ==
  ASSUME ValidationInv, Trusted,
         \/ \E d, e \in Folders : Validation!Read(d, e)
         \/ Validation!ReadResult
  PROVE  ValidationInv'
<1>0. Judged /\ Validation!PassIsEarned
  BY DEF ValidationInv
<1>1. /\ suite' = suite /\ made' = made /\ result' = result /\ pbc' = pbc
      /\ receipt' = receipt /\ scores' = scores /\ decision' = decision
      /\ at' = at /\ dir' = dir /\ loaded' = loaded /\ todo' = todo
  BY DEF Validation!Read, Validation!ReadResult, Validation!runVars, Validation!fileVars
<1>2. Held'
  <2>1. CASE \E d, e \in Folders : Validation!Read(d, e)
    <3>1. PICK d \in Folders, e \in Folders : Validation!Read(d, e)
      BY <2>1
    <3>2. /\ suite # "jls2" /\ receipt[d] # Nothing
          /\ suite = "clue" =>
               receipt[d].completed /\ scores[e].performance # Nothing /\ pbc # Nothing
          /\ suite # "clue" => d = e
          /\ reading' = [dir |-> d, other |-> e, receipt |-> receipt[d], scores |-> scores[e],
                         pbc |-> pbc, listing |-> listing, result |-> Nothing]
      BY <3>1 DEF Validation!Read
    <3>3. /\ reading'.dir = d /\ reading'.other = e /\ reading'.receipt = receipt[d]
          /\ reading'.scores = scores[e] /\ reading'.pbc = pbc
      BY <3>2
    <3>4. HeldOf(d, e)'
      BY <1>1, <3>2, <3>3 DEF HeldOf, Folders
    <3>5. HeldOf(reading.dir, reading.other)'
      BY <3>3, <3>4 DEF HeldOf
    <3> QED
      BY <1>1, <3>2, <3>5 DEF Held
  <2>2. CASE Validation!ReadResult
    <3>1. /\ suite = "jls2"
          /\ reading' = [dir |-> Nothing, other |-> Nothing, receipt |-> Nothing,
                         scores |-> Validation!NoScores,
                         pbc |-> pbc, listing |-> listing, result |-> result]
      BY <2>2 DEF Validation!ReadResult
    <3>2. reading'.result = result
      BY <3>1
    <3> QED
      BY <1>1, <3>1, <3>2 DEF Held
  <2> QED
    BY <2>1, <2>2
<1>3. Judged'
  BY <1>0, <1>1 DEF Judged, Validation!Gains
<1>4. Trusted' => Validation!PassIsEarned'
  BY <1>0, <1>1 DEF Trusted, Validation!PassIsEarned
<1> QED
  BY <1>1, <1>2, <1>3, <1>4, FilesStay DEF ValidationInv

LEMMA PublishingKeepsValidationInv ==
  ASSUME ValidationInv, Trusted,
         \/ Validation!GivesUp \/ Validation!PublishEnds
         \/ \E d, e \in Folders : Validation!PublishBegins(d, e)
  PROVE  ValidationInv'
<1>0. Held /\ Judged /\ Validation!PassIsEarned
  BY DEF ValidationInv
<1>1. /\ suite' = suite /\ made' = made /\ result' = result /\ pbc' = pbc
      /\ receipt' = receipt /\ scores' = scores /\ decision' = decision
      /\ at' = at /\ dir' = dir /\ loaded' = loaded /\ todo' = todo
  BY DEF Validation!GivesUp, Validation!PublishBegins, Validation!PublishEnds,
         Validation!runVars, Validation!fileVars
<1>2. reading' = Nothing \/ reading' = reading
  BY DEF Validation!GivesUp, Validation!PublishBegins, Validation!PublishEnds
<1>3. Held'
  BY <1>0, <1>1, <1>2 DEF Held, HeldOf, Folders
<1>4. Judged'
  BY <1>0, <1>1 DEF Judged, Validation!Gains
<1>5. Trusted' => Validation!PassIsEarned'
  BY <1>0, <1>1 DEF Trusted, Validation!PassIsEarned
<1> QED
  BY <1>1, <1>3, <1>4, <1>5, FilesStay DEF ValidationInv


(* All families gain, and then against a weaker competitor too.            *)
LEMMA EachFamilyGains ==
  ASSUME Validation!ValidationAssumption, suite = "clue",
         NEW bytes \in [Items -> Nat], NEW strongest \in Nat, NEW weaker \in Nat,
         strongest <= weaker, Validation!Ratio(bytes, strongest, 5)
  PROVE  \A i \in Items : Validation!Gains(bytes[i], weaker, 5)
<1> DEFINE Gaining == {i \in Items : Validation!Gains(bytes[i], strongest, 5)}
<1>1. IsFiniteSet(Items)
  BY ValidationCounts DEF Validation!ValidationAssumption
<1>2. Cardinality(Gaining) >= Cardinality(Items)
  <2>1. Validation!MinFamilies[suite] = Validation!Cardinality(Items)
    BY DEF Validation!MinFamilies
  <2>2. Validation!Cardinality(Gaining) >= Validation!MinFamilies[suite]
    BY DEF Validation!Ratio
  <2> QED
    BY <2>1, <2>2, ValidationCounts
<1>3. Gaining \subseteq Items
  OBVIOUS
<1>4. Gaining = Items
  <2> HIDE DEF Gaining
  <2>1. /\ IsFiniteSet(Gaining) /\ Cardinality(Gaining) <= Cardinality(Items)
        /\ Cardinality(Gaining) = Cardinality(Items) => Gaining = Items
    BY <1>1, <1>3, FS_Subset
  <2>2. Cardinality(Gaining) \in Nat /\ Cardinality(Items) \in Nat
    BY <1>1, <2>1, FS_CardinalityType
  <2> QED
    BY <1>2, <2>1, <2>2
<1>5. ASSUME NEW i \in Items PROVE Validation!Gains(bytes[i], weaker, 5)
  <2>1. Validation!Gains(bytes[i], strongest, 5) /\ bytes[i] \in Nat
    BY <1>4
  <2> HIDE DEF Gaining
  <2>2. PICK b \in Nat : b = bytes[i]
    BY <2>1
  <2>3. (strongest - b) * 100 >= 5 * strongest
    BY <2>1, <2>2 DEF Validation!Gains
  <2>4. (weaker - b) * 100 >= 5 * weaker
    BY <2>3
  <2> QED
    BY <2>2, <2>4 DEF Validation!Gains
<1> QED
  BY <1>5

LEMMA DecisionKeepsValidationInv ==
  ASSUME Validation!ValidationAssumption, ValidationInv, Trusted, Validation!Decide
  PROVE  ValidationInv'
<1>0. Measuring /\ Sized /\ Receipts /\ Held /\ ValidationTypes
  BY DEF ValidationInv
<1>1. /\ suite' = suite /\ made' = made /\ result' = result /\ pbc' = pbc
      /\ receipt' = receipt /\ scores' = scores /\ reading' = Nothing
      /\ at' = at /\ dir' = dir /\ loaded' = loaded /\ todo' = todo
      /\ reading # Nothing
  BY DEF Validation!Decide, Validation!runVars, Validation!fileVars
<1> DEFINE passed == CASE suite = "clue" -> Validation!ClueGates
                       [] suite = "tbl1" -> reading.receipt.completed /\ Validation!TableGates
                       [] suite = "dms2" -> reading.receipt.completed /\ Validation!DenseGates
                       [] suite = "jls2" -> Validation!LogGates
           sources == IF reading.dir = Nothing THEN <<result, pbc>>
                      ELSE <<receipt[reading.dir], scores[reading.other].performance, pbc>>
<1>2. /\ suite = "clue" => Validation!ClueInputs
      /\ suite = "jls2" => Validation!LogInputs
      /\ decision' = [passed |-> passed, basis |-> reading, sources |-> sources]
  BY DEF Validation!Decide
<1>3. /\ passed /\ suite = "clue" => Validation!ClueGates
      /\ passed /\ suite = "tbl1" => Validation!TableGates
      /\ passed /\ suite = "dms2" => Validation!DenseGates
      /\ passed /\ suite = "jls2" => Validation!LogGates
  <2>1. CASE suite = "clue"
    BY <2>1
  <2>2. CASE suite = "tbl1"
    BY <2>2
  <2>3. CASE suite = "dms2"
    BY <2>3
  <2>4. CASE suite = "jls2"
    BY <2>4
  <2> QED
    BY <1>0, <2>1, <2>2, <2>3, <2>4 DEF ValidationTypes, Validation!Suites
<1> HIDE DEF passed
<1>4. /\ decision'.passed = passed /\ decision'.basis = reading
      /\ decision'.sources = sources
  BY <1>2
<1>5. suite # "jls2" => HeldOf(reading.dir, reading.other)
  BY <1>0, <1>1 DEF Held
<1>6. Held'
  BY <1>1 DEF Held
<1>7. Judged'
  <2> SUFFICES ASSUME suite = "clue", passed, NEW x, NEW y, NEW z, sources = <<x, y, z>>
               PROVE  /\ x # Nothing /\ x.completed /\ x.sound
                      /\ y # Nothing /\ z.whole /\ z.manifest = y.corpus
                      /\ \A i \in Items : Validation!Gains(y.bytes[i], z.size, 5)
    BY <1>1, <1>4 DEF Judged, Validation!Gains
  <2>1. /\ x = receipt[reading.dir] /\ y = scores[reading.other].performance /\ z = pbc
    BY Zenon DEF sources
  <2> HIDE DEF sources
  <2>2. /\ reading.other \in Folders /\ x # Nothing /\ reading.receipt = x
        /\ reading.receipt.completed /\ y # Nothing /\ z # Nothing
        /\ reading.scores.performance = y /\ reading.pbc = z
    BY <1>5, <2>1 DEF HeldOf
  <2>3. z.whole /\ z.manifest = y.corpus
    BY <1>2, <2>2 DEF Validation!ClueInputs
  <2>4. x.sound /\ Validation!Ratio(y.bytes, Validation!Strongest, 5)
    BY <1>3, <2>2 DEF Validation!ClueGates
  <2>5. y.bytes \in [Items -> Nat]
    BY <1>0, <2>1, <2>2 DEF Sized
  <2>6. z.size \in Nat
    BY <1>0, <2>1, <2>2 DEF ValidationTypes
  <2>7. Validation!Strongest \in Nat /\ Validation!Strongest <= z.size
    BY <2>2, <2>6 DEF Validation!Strongest, Validation!ValidationAssumption
  <2>8. \A i \in Items : Validation!Gains(y.bytes[i], z.size, 5)
    BY <2>4, <2>5, <2>6, <2>7, EachFamilyGains
  <2> QED
    BY <2>2, <2>3, <2>4, <2>8
<1> HIDE DEF sources
<1>8. Trusted' => Validation!PassIsEarned'
  <2> SUFFICES ASSUME suite # "clue", passed
               PROVE  IF suite = "jls2"
                      THEN /\ reading.result.completed /\ reading.pbc.whole
                           /\ reading.pbc.accepted = reading.result
                           /\ reading.pbc.manifest = reading.result.corpus
                      ELSE LET measured ==
                                 {reading.scores[f] : f \in Validation!ResultFiles} \ {Nothing}
                           IN  /\ \A m \in measured : m.by = reading.receipt.by
                               /\ \A m, n \in measured : m.corpus = n.corpus
                               /\ reading.receipt.sound
    BY <1>1, <1>4, Zenon DEF Validation!PassIsEarned, Validation!ResultFiles
  <2>1. CASE suite = "jls2"
    <3>1. reading.result = result
      BY <1>0, <1>1, <2>1 DEF Held
    <3> QED
      BY <1>2, <1>3, <2>1, <3>1 DEF Validation!LogGates, Validation!LogInputs
  <2>2. CASE suite # "jls2"
    <3>1. /\ reading.dir \in Folders /\ receipt[reading.dir] # Nothing
          /\ reading.receipt = receipt[reading.dir]
          /\ reading.dir = reading.other /\ reading.scores = scores[reading.dir]
      BY <1>5, <2>2 DEF HeldOf
    <3>2. suite \in {"tbl1", "dms2"}
      BY <1>0, <2>2 DEF ValidationTypes, Validation!Suites
    <3>3. /\ reading.receipt.scores = reading.scores /\ reading.receipt.sound
      BY <1>3, <3>1, <3>2 DEF Validation!TableGates, Validation!DenseGates,
                              Validation!ResultDigests
    <3>4. /\ OwnResults(reading.scores, reading.receipt.by) /\ OneOrigin(reading.scores)
      BY <1>0, <2>2, <3>1, <3>3 DEF Receipts
    <3>5. \A f \in Validation!ResultFiles : reading.scores[f] # Nothing =>
            /\ reading.scores[f].by = reading.receipt.by
            /\ reading.scores[f].corpus = reading.listing
      <4>1. CASE suite = "tbl1"
        <5>1. Validation!OneCorpus({"performance", "memory"})
          BY <1>3, <4>1 DEF Validation!TableGates
        <5> QED
          BY <3>4, <4>1, <5>1 DEF OwnResults, OwnFiles, Validation!OneCorpus
      <4>2. CASE suite = "dms2"
        <5>1. Validation!OneCorpus({"performance", "baseline", "baseline_memory"})
          BY <1>3, <4>2 DEF Validation!DenseGates
        <5>2. /\ reading.scores.performance.corpus = reading.listing
              /\ reading.scores.baseline.corpus = reading.listing
              /\ reading.scores["baseline_memory"].corpus = reading.listing
          BY <5>1 DEF Validation!OneCorpus
        <5>3. reading.scores.memory # Nothing => reading.scores.memory.corpus = reading.listing
          BY <3>4, <4>2, <5>2 DEF OneOrigin
        <5> QED
          BY <3>4, <4>2, <5>2, <5>3 DEF OwnResults, OwnFiles
      <4> QED
        BY <3>2, <4>1, <4>2
    <3> QED
      BY <2>2, <3>3, <3>5
  <2> QED
    BY <2>1, <2>2
<1> QED
  BY <1>1, <1>6, <1>7, <1>8, FilesStay DEF ValidationInv

LEMMA NextValidationInv ==
  ASSUME Validation!ValidationAssumption, ValidationInv,
         [Validation!ValidationNext]_Validation!validationVars
  PROVE  ValidationInv'
<1>1. CASE UNCHANGED Validation!validationVars
  BY <1>1, StutterValidationInv
<1>2. CASE Validation!ValidationNext
  <2>1. Trusted
    BY <1>2 DEF Validation!ValidationNext, Trusted
  <2>2. CASE Validation!EditCorpus
    BY <2>1, <2>2, CorpusKeepsValidationInv
  <2>3. CASE \E r \in Runners : Validation!Run(r)
    <3>1. PICK r \in Runners : Validation!Run(r)
      BY <2>3
    <3>2. CASE \/ \E d \in Folders : Validation!Start(r, d)
               \/ Validation!Preflight(r) \/ Validation!ChecksRefuse(r) \/ Validation!Kill(r)
      BY <2>1, <3>2, StartKeepsValidationInv
    <3>3. CASE Validation!Attempt(r)
      BY <2>1, <3>3, AttemptKeepsValidationInv
    <3>4. CASE \/ Validation!Benchmark(r) \/ Validation!CandidatePerformance(r)
               \/ Validation!CandidateMemory(r) \/ Validation!Accept(r)
      BY <2>1, <3>4, BenchmarkKeepsValidationInv
    <3>5. CASE Validation!CandidateProof(r) \/ Validation!DeterministicProof(r)
      <4>1. \E proven \in BOOLEAN : Validation!Proves(r, proven)
        BY <3>5 DEF Validation!CandidateProof, Validation!DeterministicProof
      <4> QED
        BY <2>1, <4>1, ProofKeepsValidationInv
    <3>6. CASE Validation!WriteReceipt(r) \/ Validation!Fail(r)
      BY <2>1, <3>6, ReceiptKeepsValidationInv
    <3>7. CASE Validation!Family(r) \/ Validation!Complete(r)
      BY <2>1, <3>7, FamilyKeepsValidationInv
    <3> QED
      BY <3>1, <3>2, <3>3, <3>4, <3>5, <3>6, <3>7 DEF Validation!Run, Folders
  <2>4. CASE (\E d \in Folders : Validation!PbcBegins(d)) \/ Validation!PbcEnds
    BY <2>1, <2>4, PbcKeepsValidationInv
  <2>5. CASE \E d \in Folders : \E f \in Validation!ResultFiles : Validation!Replace(d, f)
    BY <2>1, <2>5, ReplaceKeepsValidationInv
  <2>6. CASE (\E d, e \in Folders : Validation!Read(d, e)) \/ Validation!ReadResult
    BY <2>1, <2>6, ReadKeepsValidationInv
  <2>7. CASE Validation!Decide
    BY <2>1, <2>7, DecisionKeepsValidationInv
  <2>8. CASE \/ Validation!GivesUp \/ Validation!PublishEnds
             \/ \E d, e \in Folders : Validation!PublishBegins(d, e)
    BY <2>1, <2>8, PublishingKeepsValidationInv
  <2>9. \/ Validation!EditCorpus \/ (\E r \in Runners : Validation!Run(r))
        \/ (\E d \in Folders : Validation!PbcBegins(d)) \/ Validation!PbcEnds
        \/ (\E d \in Folders : \E f \in Validation!ResultFiles : Validation!Replace(d, f))
        \/ (\E d, e \in Folders : Validation!Read(d, e)) \/ Validation!ReadResult
        \/ Validation!Decide \/ Validation!GivesUp \/ Validation!PublishEnds
        \/ (\E d, e \in Folders : Validation!PublishBegins(d, e))
    BY <1>2, Zenon DEF Validation!ValidationNext, Runners, Folders
  <2> QED
    BY <2>2, <2>3, <2>4, <2>5, <2>6, <2>7, <2>8, <2>9
<1> QED
  BY <1>1, <1>2

(* What follows for evidence that can be imported.                         *)
LEMMA EvidenceFromInv ==
  ASSUME ValidationInv
  PROVE  Validation!EvidenceIsOneAttempt
<1> SUFFICES ASSUME suite = "clue", Trusted, NEW d \in Folders,
                    Validation!Importable(d), decision.passed
             PROVE  /\ receipt[d].completed /\ receipt[d].sound
                    /\ scores[d].performance.by = receipt[d].by
                    /\ receipt[d].scores.performance = scores[d].performance
                    /\ pbc.whole /\ pbc.manifest = scores[d].performance.corpus
                    /\ \A i \in Items :
                         Validation!Gains(scores[d].performance.bytes[i], pbc.size, 5)
  BY DEF Validation!EvidenceIsOneAttempt, Trusted, Folders
<1>1. Receipts /\ Judged
  BY DEF ValidationInv
<1>2. decision # Nothing /\ decision.sources = <<receipt[d], scores[d].performance, pbc>>
  BY DEF Validation!Importable, Validation!Bound
<1>3. /\ receipt[d] # Nothing /\ receipt[d].completed /\ receipt[d].sound
      /\ scores[d].performance # Nothing /\ pbc.whole
      /\ pbc.manifest = scores[d].performance.corpus
      /\ \A i \in Items : Validation!Gains(scores[d].performance.bytes[i], pbc.size, 5)
  <2>1. \A x, y, z : decision.sources = <<x, y, z>> =>
          /\ x # Nothing /\ x.completed /\ x.sound
          /\ y # Nothing /\ z.whole /\ z.manifest = y.corpus
          /\ \A i \in Items : Validation!Gains(y.bytes[i], z.size, 5)
    BY <1>1, <1>2, Zenon DEF Judged
  <2> QED
    BY ONLY <1>2, <2>1, Zenon
<1>4. receipt[d].scores = scores[d] /\ OwnResults(receipt[d].scores, receipt[d].by)
  BY <1>1, <1>3 DEF Receipts
<1>5. scores[d].performance.by = receipt[d].by
  BY <1>3, <1>4 DEF OwnResults, Validation!ResultFiles
<1> QED
  BY <1>3, <1>4, <1>5

LEMMA ValidationInvHolds == BenchmarksSpec => [](which = "validation" => ValidationInv)
<1>0. Validation!ValidationAssumption
  BY MCValidationAssumption
<1>1. BenchmarksInit => (which = "validation" => ValidationInv)
  BY InitValidationInv DEF BenchmarksInit
<1>2. (which = "validation" => ValidationInv) /\ [BenchmarksNext]_allVars
        => (which = "validation" => ValidationInv)'
  <2> SUFFICES ASSUME which = "validation" => ValidationInv, [BenchmarksNext]_allVars,
                      which' = "validation"
               PROVE  ValidationInv'
    OBVIOUS
  <2>1. which = "validation" /\ [Validation!ValidationNext]_Validation!validationVars
    BY DEF BenchmarksNext, allVars, benchmarkVars, Validation!validationVars,
           Validation!corpusVars, Validation!runVars, Validation!fileVars,
           Validation!verdictVars
  <2> QED
    BY <1>0, <2>1, NextValidationInv
<1> QED
  BY <1>1, <1>2, PTL DEF BenchmarksSpec

(* A passed decision of tbl1, dms2 or jls2 is about one attempt on one     *)
(* corpus (PublicValidation!PassIsEarned).                                 *)
THEOREM PassesAreEarned == BenchmarksSpec => []PassIsEarned
<1>1. (which = "validation" => ValidationInv) => PassIsEarned
  BY DEF PassIsEarned, ValidationInv, Trusted, Validation!PassIsEarned
<1> QED
  BY <1>1, ValidationInvHolds, PTL

(* Passing evidence of clue that the importer takes is of one attempt      *)
(* (PublicValidation!EvidenceIsOneAttempt).                                *)
THEOREM EvidenceOfOneAttempt == BenchmarksSpec => []EvidenceIsOneAttempt
<1>1. (which = "validation" => ValidationInv) => EvidenceIsOneAttempt
  BY EvidenceFromInv DEF EvidenceIsOneAttempt
<1> QED
  BY <1>1, ValidationInvHolds, PTL
=================================================================================
