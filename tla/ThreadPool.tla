----------------------------- MODULE ThreadPool -----------------------------
(***************************************************************************)
(* dpool::ThreadPool (yolov8_demo/include/ThreadPool.hpp): a pool that     *)
(* creates a worker only when no worker is idle, and whose workers leave   *)
(* after WAIT_SECONDS without work, each one joining those that left       *)
(* before it.                                                              *)
(*                                                                         *)
(* A critical section of mutex_ is one step, with one exception: a worker  *)
(* that leaves on a timeout keeps mutex_ while it joins other threads, and *)
(* a join blocks.  That worker is in pc "joining", so mutex_ is free       *)
(* exactly when no worker is there.                                        *)
(***************************************************************************)
EXTENDS Integers, Sequences, FiniteSets

CONSTANTS Task,         \* the tasks clients may submit, each once
          ThreadID,     \* what std::thread::get_id() may return
          maxThreads_,
          NoTask        \* the empty std::function of a worker between two tasks

ASSUME PoolAssumption ==
    /\ maxThreads_ \in Nat \ {0}
    /\ NoTask \notin Task

VARIABLES
    quit_,
    currentThreads_,
    idleThreads_,
    tasks_,
    finishedThreadIDs_,
    threads_,           \* keys of the map: threads not joined and erased yet
    pc,                 \* where each worker is
    job,                \* worker's local variable task
    done,               \* tasks that ran: their futures are ready
    dtor,               \* where the thread in ~ThreadPool is
    joined              \* threads ~ThreadPool has joined

vars == <<quit_, currentThreads_, idleThreads_, tasks_, finishedThreadIDs_,
          threads_, pc, job, done, dtor, joined>>

counters == <<currentThreads_, idleThreads_>>
dtorVars == <<quit_, dtor, joined>>

-----------------------------------------------------------------------------
(* Worker locations:                                                       *)
(*   "none"      no such thread                                            *)
(*   "locking"   at the top of the loop, about to lock mutex_              *)
(*   "waiting"   blocked in cv_.wait_for                                   *)
(*   "woken"     notified (or woken for no reason), must lock mutex_ again *)
(*   "timedout"  the 2 seconds are over, must lock mutex_ again            *)
(*   "running"   executing its task, mutex_ not held                       *)
(*   "joining"   inside joinFinishedThreads, mutex_ held                   *)
(*   "returning" has left worker(), not terminated yet                     *)
(*   "exited"    terminated, can be joined without blocking                *)

InWait   == {"waiting", "woken", "timedout"}
Serving  == InWait \cup {"locking", "running"}
Leaving  == {"returning", "exited"}
Location == Serving \cup Leaving \cup {"none", "joining"}

At(locations) == {t \in ThreadID : pc[t] \in locations}

MutexFree == \A t \in ThreadID : pc[t] # "joining"

Running == {job[t] : t \in At({"running"})}
Queued(k) == \E i \in DOMAIN tasks_ : tasks_[i] = k
Accepted(k) == Queued(k) \/ k \in Running \/ k \in done

Goto(t, location) == pc' = [pc EXCEPT ![t] = location]

Init ==
    /\ quit_ = FALSE
    /\ currentThreads_ = 0
    /\ idleThreads_ = 0
    /\ tasks_ = <<>>
    /\ finishedThreadIDs_ = <<>>
    /\ threads_ = {}
    /\ pc = [t \in ThreadID |-> "none"]
    /\ job = [t \in ThreadID |-> NoTask]
    /\ done = {}
    /\ dtor = "outside"
    /\ joined = {}

-----------------------------------------------------------------------------
(* submit *)

\* Mutant: submit forgets to notify.
NotifyNobody == UNCHANGED pc

\* cv_.notify_one(): one blocked waiter, if there is one, leaves the wait set.
NotifyOne ==
    \/ \E t \in At({"waiting"}) : Goto(t, "woken")
    \/ At({"waiting"}) = {} /\ UNCHANGED pc

\* Thread t(&ThreadPool::worker, this): an id no unjoined thread has.
CreateThread ==
    \E t \in ThreadID \ threads_ :
        /\ threads_' = threads_ \cup {t}
        /\ Goto(t, "locking")
        /\ currentThreads_' = currentThreads_ + 1

submit(k) ==
    /\ MutexFree
    /\ ~quit_
    /\ ~Accepted(k)
    /\ tasks_' = Append(tasks_, k)
    /\ \/ /\ idleThreads_ > 0
          /\ NotifyOne
          /\ UNCHANGED <<threads_, currentThreads_>>
       \/ /\ idleThreads_ = 0
          /\ currentThreads_ < maxThreads_
          /\ CreateThread
       \/ /\ idleThreads_ = 0
          /\ currentThreads_ >= maxThreads_
          /\ UNCHANGED <<pc, threads_, currentThreads_>>
    /\ UNCHANGED <<idleThreads_, finishedThreadIDs_, job, done, dtorVars>>

-----------------------------------------------------------------------------
(* worker *)

\* The predicate of cv_.wait_for.
HasWork == quit_ \/ tasks_ # <<>>

\* What the three ends of a wait do; each mutant below gets one of them wrong.
TakeTask(t) ==
    /\ tasks_ # <<>>
    /\ job' = [job EXCEPT ![t] = Head(tasks_)]
    /\ tasks_' = Tail(tasks_)
    /\ Goto(t, "running")
    /\ UNCHANGED currentThreads_

Leave(t, location) ==
    /\ currentThreads_' = currentThreads_ - 1
    /\ Goto(t, location)
    /\ UNCHANGED <<job, tasks_>>

\* Mutant: a worker that times out is still counted.
AfterWaitStillCounted(t) ==
    \/ TakeTask(t)
    \/ tasks_ = <<>> /\ quit_ /\ Leave(t, "returning")
    \/ /\ tasks_ = <<>> /\ ~quit_
       /\ Goto(t, "joining")
       /\ UNCHANGED <<currentThreads_, job, tasks_>>

\* Mutant: the deadline is looked at before quit_.
AfterWaitDeadlineFirst(t) ==
    \/ TakeTask(t)
    \/ tasks_ = <<>> /\ quit_ /\ pc[t] # "timedout" /\ Leave(t, "returning")
    \/ tasks_ = <<>> /\ (~quit_ \/ pc[t] = "timedout") /\ Leave(t, "joining")

\* Mutant: quit_ is looked at before the queue.
AfterWaitQuitFirst(t) ==
    \/ ~quit_ /\ TakeTask(t)
    \/ quit_ /\ Leave(t, "returning")
    \/ tasks_ = <<>> /\ ~quit_ /\ Leave(t, "joining")

\* From the return of wait_for to the end of the critical section. wait_for
\* returns the predicate, so hasTimedout is ~HasWork.
AfterWait(t) ==
    \/ TakeTask(t)
    \/ tasks_ = <<>> /\ quit_ /\ Leave(t, "returning")
    \/ tasks_ = <<>> /\ ~quit_ /\ Leave(t, "joining")

\* Mutant: only a worker that blocks counts itself in, but all count themselves out.
EnterWaitUncounted(t) ==
    /\ pc[t] = "locking"
    /\ MutexFree
    /\ \/ HasWork /\ AfterWait(t) /\ idleThreads_' = idleThreads_ - 1
       \/ /\ ~HasWork /\ Goto(t, "waiting")
          /\ idleThreads_' = idleThreads_ + 1
          /\ UNCHANGED <<currentThreads_, tasks_, job>>
    /\ UNCHANGED <<finishedThreadIDs_, threads_, done, dtorVars>>

\* Mutant: wait_for without the predicate.
EnterWaitBlindly(t) ==
    /\ pc[t] = "locking"
    /\ MutexFree
    /\ Goto(t, "waiting")
    /\ idleThreads_' = idleThreads_ + 1
    /\ UNCHANGED <<currentThreads_, tasks_, job, finishedThreadIDs_, threads_, done, dtorVars>>

\* Lock mutex_ at the top of the loop and call wait_for, which blocks only if
\* there is nothing to do.
EnterWait(t) ==
    /\ pc[t] = "locking"
    /\ MutexFree
    /\ \/ /\ HasWork
          /\ AfterWait(t)
          /\ UNCHANGED idleThreads_
       \/ /\ ~HasWork
          /\ idleThreads_' = idleThreads_ + 1
          /\ Goto(t, "waiting")
          /\ UNCHANGED <<currentThreads_, tasks_, job>>
    /\ UNCHANGED <<finishedThreadIDs_, threads_, done, dtorVars>>

\* The wait set is left without a notification: at the deadline, or for no
\* reason at all.
LeaveWaitSet(t) ==
    /\ pc[t] = "waiting"
    /\ \/ Goto(t, "timedout")
       \/ Goto(t, "woken")
    /\ UNCHANGED <<counters, tasks_, finishedThreadIDs_, threads_, job, done, dtorVars>>

\* Woken: mutex_ is locked again and the predicate re-evaluated.
WakeUp(t) ==
    /\ pc[t] = "woken"
    /\ MutexFree
    /\ \/ /\ HasWork
          /\ idleThreads_' = idleThreads_ - 1
          /\ AfterWait(t)
       \/ /\ ~HasWork
          /\ Goto(t, "waiting")
          /\ UNCHANGED <<counters, tasks_, job>>
    /\ UNCHANGED <<finishedThreadIDs_, threads_, done, dtorVars>>

\* Timed out: wait_for returns whatever the predicate is.
TimeOut(t) ==
    /\ pc[t] = "timedout"
    /\ MutexFree
    /\ idleThreads_' = idleThreads_ - 1
    /\ AfterWait(t)
    /\ UNCHANGED <<finishedThreadIDs_, threads_, done, dtorVars>>

\* Mutant: the joined thread object stays in the map.
JoinFinishedNoErase(t) ==
    /\ pc[t] = "joining"
    /\ finishedThreadIDs_ # <<>>
    /\ pc[Head(finishedThreadIDs_)] = "exited"
    /\ finishedThreadIDs_' = Tail(finishedThreadIDs_)
    /\ Goto(Head(finishedThreadIDs_), "none")
    /\ UNCHANGED <<counters, tasks_, threads_, job, done, dtorVars>>

\* joinFinishedThreads, one iteration: blocks until the thread has exited.
JoinFinished(t) ==
    /\ pc[t] = "joining"
    /\ finishedThreadIDs_ # <<>>
    /\ LET id == Head(finishedThreadIDs_)
       IN  /\ pc[id] = "exited"
           /\ finishedThreadIDs_' = Tail(finishedThreadIDs_)
           /\ threads_' = threads_ \ {id}
           /\ Goto(id, "none")
    /\ UNCHANGED <<counters, tasks_, job, done, dtorVars>>

\* Mutant: a leaving worker joins nobody.
AnnounceExitOnly(t) ==
    /\ pc[t] = "joining"
    /\ finishedThreadIDs_' = Append(finishedThreadIDs_, t)
    /\ Goto(t, "returning")
    /\ UNCHANGED <<counters, tasks_, threads_, job, done, dtorVars>>

\* The queue is empty: push the own id, return and so unlock.
AnnounceExit(t) ==
    /\ pc[t] = "joining"
    /\ finishedThreadIDs_ = <<>>
    /\ finishedThreadIDs_' = <<t>>
    /\ Goto(t, "returning")
    /\ UNCHANGED <<counters, tasks_, threads_, job, done, dtorVars>>

Exit(t) ==
    /\ pc[t] = "returning"
    /\ Goto(t, "exited")
    /\ UNCHANGED <<counters, tasks_, finishedThreadIDs_, threads_, job, done, dtorVars>>

\* task(): runs to its end without mutex_ and makes the future ready.
RunTask(t) ==
    /\ pc[t] = "running"
    /\ done' = done \cup {job[t]}
    /\ job' = [job EXCEPT ![t] = NoTask]
    /\ Goto(t, "locking")
    /\ UNCHANGED <<counters, tasks_, finishedThreadIDs_, threads_, dtorVars>>

worker(t) ==
    \/ EnterWait(t)
    \/ WakeUp(t)
    \/ TimeOut(t)
    \/ JoinFinished(t)
    \/ AnnounceExit(t)
    \/ Exit(t)
    \/ RunTask(t)

-----------------------------------------------------------------------------
(* ~ThreadPool *)

SetQuit ==
    /\ dtor = "outside"
    /\ MutexFree
    /\ quit_' = TRUE
    /\ dtor' = "notifying"
    /\ UNCHANGED <<counters, tasks_, finishedThreadIDs_, threads_, pc, job, done, joined>>

\* Mutant: one worker is notified instead of all.
NotifyAllOnce ==
    /\ dtor = "notifying"
    /\ NotifyOne
    /\ dtor' = "joining"
    /\ UNCHANGED <<counters, tasks_, finishedThreadIDs_, threads_, job, done, quit_, joined>>

NotifyAll ==
    /\ dtor = "notifying"
    /\ pc' = [t \in ThreadID |-> IF pc[t] = "waiting" THEN "woken" ELSE pc[t]]
    /\ dtor' = "joining"
    /\ UNCHANGED <<counters, tasks_, finishedThreadIDs_, threads_, job, done, quit_, joined>>

\* The loop over threads_ runs without mutex_, in the map's own order.
JoinElement(t) ==
    /\ dtor = "joining"
    /\ t \in threads_ \ joined
    /\ pc[t] = "exited"
    /\ joined' = joined \cup {t}
    /\ UNCHANGED <<counters, tasks_, finishedThreadIDs_, threads_, pc, job, done, quit_, dtor>>

DtorReturn ==
    /\ dtor = "joining"
    /\ joined = threads_
    /\ dtor' = "returned"
    /\ UNCHANGED <<counters, tasks_, finishedThreadIDs_, threads_, pc, job, done, quit_, joined>>

destructor ==
    \/ SetQuit
    \/ NotifyAll
    \/ \E t \in ThreadID : JoinElement(t)
    \/ DtorReturn

-----------------------------------------------------------------------------

(* The client is free to submit, or to destroy the pool, whenever it likes;  *)
(* the last disjunct says that a destroyed pool does nothing more.           *)

Destroyed == dtor = "returned" /\ UNCHANGED vars

Next ==
    \/ \E k \in Task : submit(k)
    \/ \E t \in ThreadID : worker(t)
    \/ \E t \in ThreadID : LeaveWaitSet(t)
    \/ destructor
    \/ Destroyed

Spec == Init /\ [][Next]_vars

(* Fairness: a worker that can take a step takes one (tasks terminate, the   *)
(* scheduler runs every thread, and mutex_ is never held for ever), and so   *)
(* does a destructor that was called.  Nobody has to submit, to destroy the  *)
(* pool, to time out or to wake up for no reason.                            *)
FairSpec ==
    /\ Spec
    /\ \A t \in ThreadID : WF_vars(worker(t))
    /\ \A t \in ThreadID : WF_vars(JoinElement(t))
    /\ WF_vars(NotifyAll)
    /\ WF_vars(DtorReturn)

-----------------------------------------------------------------------------
(* Properties *)

\* Every variable has its type; idleThreads_ and currentThreads_ are size_t, so
\* this also says that no decrement in worker ever wraps below zero.
TypeOK ==
    /\ quit_ \in BOOLEAN
    /\ currentThreads_ \in Nat
    /\ idleThreads_ \in Nat
    /\ tasks_ \in Seq(Task)
    /\ finishedThreadIDs_ \in Seq(ThreadID)
    /\ threads_ \in SUBSET ThreadID
    /\ pc \in [ThreadID -> Location]
    /\ job \in [ThreadID -> Task \cup {NoTask}]
    /\ done \in SUBSET Task
    /\ dtor \in {"outside", "notifying", "joining", "returned"}
    /\ joined \in SUBSET ThreadID

\* The two counters that submit decides by count what they are meant to:
\* currentThreads_ the workers that will still look at the queue, and
\* idleThreads_ those inside wait_for, whether blocked, notified or timed out.
CountersExact ==
    /\ currentThreads_ = Cardinality(At(Serving))
    /\ idleThreads_ = Cardinality(At(InWait))
    /\ currentThreads_ <= maxThreads_

\* threads_ holds exactly the threads that were created and not joined, and
\* finishedThreadIDs_ at most one of them, which has already let go of mutex_.
\* So the asserts of joinFinishedThreads hold, no thread joins itself, and the
\* join under mutex_ never waits for a thread that itself waits for mutex_.
JoinsAreSafe ==
    /\ threads_ = {t \in ThreadID : pc[t] # "none"}
    /\ Len(finishedThreadIDs_) <= 1
    /\ \A i \in DOMAIN finishedThreadIDs_ : pc[finishedThreadIDs_[i]] \in Leaving

\* Thread objects do not pile up, however often workers time out and are
\* created again: at most one finished worker waits to be joined.
ThreadObjectsBounded == Cardinality(threads_) <= maxThreads_ + 1

\* No lost wakeup: while a task is queued some worker is on its way to the
\* queue, awake. Workers that are all blocked in wait_for, or that all left on
\* a timeout just as submit counted them as idle, would strand the task.
NoStrandedTask ==
    tasks_ # <<>> => \E t \in ThreadID : pc[t] \in Serving \ {"waiting"}

\* ~ThreadPool walks threads_ without mutex_: once quit_ is set no worker and
\* no client changes the map under it.
DestructorOwnsThreads == [][quit_ => UNCHANGED threads_]_vars

\* The pool does what TaskExecutor promises: tasks start in order, no more than
\* maxThreads_ run at once, none is lost or run twice, and ~ThreadPool returns
\* only when all that was submitted has run.
Executor == INSTANCE TaskExecutor WITH
    maxThreads <- maxThreads_,
    queue <- tasks_,
    running <- Running,
    phase <- IF ~quit_ THEN "open" ELSE IF dtor = "returned" THEN "gone" ELSE "closing"

ImplementsExecutor == Executor!ExecSpec

\* Every submitted task is run in the end, whatever timeouts, spurious wakeups
\* and destructor calls happen around it.
EveryTaskRuns == \A k \in Task : Queued(k) ~> k \in done

\* ~ThreadPool, once called, returns: every join in it ends.
DestructorReturns == quit_ ~> dtor = "returned"

=============================================================================
