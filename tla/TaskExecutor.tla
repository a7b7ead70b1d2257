---------------------------- MODULE TaskExecutor ----------------------------
(***************************************************************************)
(* What dpool::ThreadPool promises its clients, with no threads, locks or  *)
(* timeouts: submitted tasks start in submission order, at most            *)
(* maxThreads of them run at a time, each one runs exactly once, and the   *)
(* executor is gone only when all it accepted has run.                     *)
(*                                                                         *)
(* ThreadPool implements this specification; CapturePipeline is composed   *)
(* with it.                                                                *)
(***************************************************************************)
EXTENDS Integers, Sequences, FiniteSets

CONSTANTS Task,        \* the tasks that can ever be submitted
          maxThreads   \* how many tasks may run at once

VARIABLES queue,       \* accepted, not started, in submission order
          running,     \* started, not finished
          done,        \* finished: the task's future is ready
          phase        \* "open", "closing" (destructor called) or "gone"

execVars == <<queue, running, done, phase>>

InQueue(k) == \E i \in DOMAIN queue : queue[i] = k

\* The promises below are about tasks that are submitted once: every call of
\* ThreadPool::submit makes a new packaged_task.
Fresh(k) == ~InQueue(k) /\ k \notin running /\ k \notin done

ExecInit ==
    /\ queue = <<>>
    /\ running = {}
    /\ done = {}
    /\ phase = "open"

Submit(k) ==
    /\ phase = "open"
    /\ Fresh(k)
    /\ queue' = Append(queue, k)
    /\ UNCHANGED <<running, done, phase>>

Start ==
    /\ queue # <<>>
    /\ Cardinality(running) < maxThreads
    /\ queue' = Tail(queue)
    /\ running' = running \cup {Head(queue)}
    /\ UNCHANGED <<done, phase>>

Finish(k) ==
    /\ k \in running
    /\ running' = running \ {k}
    /\ done' = done \cup {k}
    /\ UNCHANGED <<queue, phase>>

Close ==
    /\ phase = "open"
    /\ phase' = "closing"
    /\ UNCHANGED <<queue, running, done>>

Vanish ==
    /\ phase = "closing"
    /\ queue = <<>>
    /\ running = {}
    /\ phase' = "gone"
    /\ UNCHANGED <<queue, running, done>>

ExecNext ==
    \/ \E k \in Task : Submit(k) \/ Finish(k)
    \/ Start
    \/ Close
    \/ Vanish

ExecSpec == ExecInit /\ [][ExecNext]_execVars

=============================================================================
