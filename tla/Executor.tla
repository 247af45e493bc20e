------------------------------- MODULE Executor -------------------------------
(***************************************************************************)
(* concurrent.futures.ThreadPoolExecutor as json_log_codec.py and          *)
(* tabular_transform.py use it: tasks are started in the order they were   *)
(* submitted, at most `workers` at a time, finish in any order, and        *)
(* leaving the with-block waits until every submitted task has finished    *)
(* (shutdown(wait=True) without cancel_futures).                           *)
(***************************************************************************)
EXTENDS Naturals, Sequences, FiniteSets

CONSTANT MaxSegments   \* bound: how many tasks may be submitted

(* One task per segment, numbered like the segments. *)
Tasks == 1..MaxSegments

VARIABLES
  workers,  \* max_workers of the pool
  queue,    \* submitted tasks no thread has picked up, oldest first
  task      \* task[t]: what became of t

poolVars == <<workers, queue, task>>

TaskStates == {"new", "queued", "running", "done", "failed"}

Running == {t \in Tasks : task[t] = "running"}

PoolInit(n) ==
  /\ workers = n
  /\ queue = <<>>
  /\ task = [t \in Tasks |-> "new"]

(* executor.submit(...) *)
Submit(t) ==
  /\ queue' = Append(queue, t)
  /\ task' = [task EXCEPT ![t] = "queued"]
  /\ UNCHANGED workers

(* An idle thread takes the oldest task. *)
StartTask ==
  /\ queue # <<>>
  /\ Cardinality(Running) < workers
  /\ task' = [task EXCEPT ![Head(queue)] = "running"]
  /\ queue' = Tail(queue)
  /\ UNCHANGED workers

(* A task returns or raises. *)
FinishTask(t, outcome) ==
  /\ task[t] = "running"
  /\ task' = [task EXCEPT ![t] = outcome]
  /\ UNCHANGED <<workers, queue>>

(* The condition on which leaving the with-block waits. *)
AllFinished == \A t \in Tasks : task[t] \in {"new", "done", "failed"}

PoolTypeOK ==
  /\ workers \in Nat \ {0}
  /\ queue \in Seq(Tasks)
  /\ task \in [Tasks -> TaskStates]
==============================================================================
