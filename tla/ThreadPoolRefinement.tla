------------------------ MODULE ThreadPoolRefinement ------------------------
(***************************************************************************)
(* ThreadPool implements TaskExecutor, for every pool size, and its        *)
(* destructor may walk threads_ without mutex_.                            *)
(*                                                                         *)
(* Beside PoolInv the argument needs that a task is in one place at a time *)
(* (or finishing one would finish another worker's), and what the          *)
(* destructor knows: nobody is inside joinFinishedThreads once quit_ is    *)
(* set, and what it joined has exited.                                     *)
(***************************************************************************)
EXTENDS ThreadPoolProofs

\* Each task is queued once, or held by one worker.
TasksDistinct ==
    /\ \A i, j \in DOMAIN tasks_ : tasks_[i] = tasks_[j] => i = j
    /\ \A t, u \in At({"running"}) : job[t] = job[u] => t = u
    /\ \A t \in At({"running"}), i \in DOMAIN tasks_ : job[t] # tasks_[i]

\* What holds from each point of the destructor on.
DestructorKnows ==
    /\ quit_ <=> dtor # "outside"
    /\ quit_ => MutexFree
    /\ ~quit_ => joined = {}
    /\ \A t \in joined : pc[t] = "exited"
    /\ dtor = "returned" => joined = threads_

RefInv == PoolInv /\ TasksDistinct /\ DestructorKnows

-----------------------------------------------------------------------------

\* A pop keeps the tasks apart: the head moves to the worker.
LEMMA TakeTaskDistinct ==
    ASSUME RefInv, NEW t \in ThreadID, TakeTask(t), pc[t] # "running"
    PROVE  /\ TasksDistinct'
           /\ Running' = Running \cup {Head(tasks_)}
<1>1. /\ tasks_ \in Seq(Task) /\ tasks_ # <<>> /\ tasks_' = Tail(tasks_)
      /\ job \in [ThreadID -> Task \cup {NoTask}] /\ job' = [job EXCEPT ![t] = Head(tasks_)]
      /\ pc \in [ThreadID -> Location] /\ pc' = [pc EXCEPT ![t] = "running"]
  BY DEF RefInv, PoolInv, TypeOK, TakeTask, Goto
<1>2. /\ Len(tasks_) \in Nat \ {0} /\ DOMAIN tasks_ = 1 .. Len(tasks_)
      /\ DOMAIN tasks_' = 1 .. Len(tasks_) - 1
      /\ \A i \in DOMAIN tasks_' : i + 1 \in DOMAIN tasks_ /\ tasks_'[i] = tasks_[i + 1]
      /\ 1 \in DOMAIN tasks_ /\ Head(tasks_) = tasks_[1]
  <2>1. Len(tasks_) \in Nat \ {0} /\ DOMAIN tasks_ = 1 .. Len(tasks_)
    BY <1>1, EmptySeq, LenProperties
  <2>2. Len(tasks_') = Len(tasks_) - 1 /\ tasks_' \in Seq(Task)
    BY <1>1, HeadTailProperties
  <2>3. DOMAIN tasks_' = 1 .. Len(tasks_) - 1
    BY <2>2, LenProperties
  <2> QED
    BY <1>1, <2>1, <2>3
<1>3. At({"running"})' = At({"running"}) \cup {t} /\ t \notin At({"running"})
  BY <1>1 DEF At
<1>4. \A u \in At({"running"}) : u \in ThreadID /\ u # t /\ job'[u] = job[u]
  BY <1>1, <1>3 DEF At
<1>5. job'[t] = Head(tasks_)
  BY <1>1
<1>6. \A i, j \in DOMAIN tasks_' : tasks_'[i] = tasks_'[j] => i = j
  <2> SUFFICES ASSUME NEW i \in DOMAIN tasks_', NEW j \in DOMAIN tasks_',
                      tasks_'[i] = tasks_'[j]
               PROVE  i = j
    OBVIOUS
  <2>1. i + 1 = j + 1
    BY <1>2 DEF RefInv, TasksDistinct
  <2> QED
    BY <1>2, <2>1
<1>7. \A u, v \in At({"running"})' : job'[u] = job'[v] => u = v
  BY <1>2, <1>3, <1>4, <1>5 DEF RefInv, TasksDistinct
<1>8. \A u \in At({"running"})', i \in DOMAIN tasks_' : job'[u] # tasks_'[i]
  <2> SUFFICES ASSUME NEW u \in At({"running"})', NEW i \in DOMAIN tasks_'
               PROVE  job'[u] # tasks_'[i]
    OBVIOUS
  <2>1. i + 1 \in DOMAIN tasks_ /\ tasks_'[i] = tasks_[i + 1] /\ i + 1 # 1
    BY <1>2
  <2>2. CASE u = t
    BY <1>2, <1>5, <2>1, <2>2 DEF RefInv, TasksDistinct
  <2>3. CASE u # t
    BY <1>3, <1>4, <2>1, <2>3 DEF RefInv, TasksDistinct
  <2> QED
    BY <2>2, <2>3
<1>9. Running' = Running \cup {Head(tasks_)}
  BY <1>3, <1>4, <1>5 DEF Running
<1> QED
  BY <1>6, <1>7, <1>8, <1>9 DEF TasksDistinct

\* A worker about to pop is not running, so one of the maxThreads_ is free.
LEMMA RunningBelowMax ==
    ASSUME PoolInv, NEW t \in At(Serving), pc[t] # "running"
    PROVE  Cardinality(Running) < maxThreads_
<1> DEFINE R == At({"running"})
           f == [u \in R |-> job[u]]
<1>1. IsFiniteSet(At(Serving)) /\ currentThreads_ = Cardinality(At(Serving))
      /\ currentThreads_ <= maxThreads_
  BY FiniteAt DEF PoolInv, CountersExact
<1>2. currentThreads_ \in Nat /\ maxThreads_ \in Nat
  BY PoolAssumption DEF PoolInv, TypeOK
<1>3. /\ IsFiniteSet(At(Serving) \ {t})
      /\ Cardinality(At(Serving) \ {t}) = currentThreads_ - 1
  BY <1>1, FS_RemoveElement
<1>4. R \subseteq At(Serving) \ {t}
  BY DEF At, Serving
<1>5. IsFiniteSet(R) /\ Cardinality(R) <= currentThreads_ - 1
  BY <1>3, <1>4, FS_Subset
<1>6. f \in Surjection(R, Running)
  BY DEF Running, Surjection
<1> HIDE DEF R, f
<1>7. IsFiniteSet(Running) /\ Cardinality(Running) <= Cardinality(R)
  BY <1>5, <1>6, FS_Surjection
<1>8. Cardinality(R) \in Nat /\ Cardinality(Running) \in Nat
  BY <1>5, <1>7, FS_CardinalityType
<1> QED
  BY <1>1, <1>2, <1>5, <1>7, <1>8

\* A step that leaves the queue, the popped tasks and who runs as they were.
LEMMA QuietTasks ==
    ASSUME RefInv, UNCHANGED <<tasks_, job>>, At({"running"})' = At({"running"})
    PROVE  TasksDistinct' /\ Running' = Running
BY DEF RefInv, TasksDistinct, Running

\* The end of a critical section of worker, in TaskExecutor's terms.
LEMMA AfterWaitStep ==
    ASSUME RefInv, NEW t \in ThreadID, AfterWait(t), MutexFree,
           pc[t] \in InWait \cup {"locking"},
           UNCHANGED <<done, threads_, dtorVars>>
    PROVE  /\ TasksDistinct' /\ DestructorKnows'
           /\ Executor!Start \/ UNCHANGED Executor!execVars
<1>1. pc[t] # "running" /\ pc[t] # "exited" /\ t \in At(Serving)
  BY DEF InWait, Serving, At
<1>2. pc \in [ThreadID -> Location]
  BY DEF RefInv, PoolInv, TypeOK
<1>3. UNCHANGED <<done, threads_, quit_, dtor, joined>>
  BY DEF dtorVars
<1>4. ASSUME NEW l \in {"running", "returning", "joining"}, Goto(t, l), l = "joining" => ~quit_
      PROVE  DestructorKnows'
  <2>1. pc' = [pc EXCEPT ![t] = l]
    BY <1>4 DEF Goto
  <2> QED
    BY <1>1, <1>2, <1>3, <1>4, <2>1 DEF RefInv, DestructorKnows, MutexFree
<1>5. CASE TakeTask(t)
  <2>1. TasksDistinct' /\ Running' = Running \cup {Head(tasks_)}
    BY <1>1, <1>5, TakeTaskDistinct
  <2>2. Cardinality(Running) < maxThreads_
    BY <1>1, RunningBelowMax DEF RefInv
  <2>3. Executor!Start
    <3>1. Executor!Cardinality(Running) = Cardinality(Running)
      BY DEF Executor!Cardinality, Cardinality
    <3> QED
      BY <1>3, <1>5, <2>1, <2>2, <3>1 DEF Executor!Start, TakeTask
  <2>4. DestructorKnows'
    BY <1>4, <1>5 DEF TakeTask
  <2> QED
    BY <2>1, <2>3, <2>4
<1>6. ASSUME NEW l \in {"returning", "joining"}, Leave(t, l), l = "joining" => ~quit_
      PROVE  TasksDistinct' /\ DestructorKnows' /\ UNCHANGED Executor!execVars
  <2>1. At({"running"})' = At({"running"})
    BY <1>1, <1>2, <1>6 DEF Leave, Goto, At
  <2>2. TasksDistinct' /\ Running' = Running
    BY <1>6, <2>1, QuietTasks DEF Leave
  <2>3. DestructorKnows'
    BY <1>4, <1>6 DEF Leave
  <2>4. UNCHANGED Executor!execVars
    BY <1>3, <1>6, <2>2 DEF Executor!execVars, Leave
  <2> QED
    BY <2>2, <2>3, <2>4
<1> QED
  BY <1>5, <1>6 DEF AfterWait

\* A worker that moves without touching queue or task, and is not joined.
LEMMA QuietWorkerStep ==
    ASSUME RefInv, NEW t \in ThreadID, NEW l \in Location \ {"running"}, Goto(t, l),
           pc[t] # "running", pc[t] # "exited", l # "joining",
           UNCHANGED <<tasks_, job, done, threads_, dtorVars>>
    PROVE  TasksDistinct' /\ DestructorKnows' /\ UNCHANGED Executor!execVars
<1>1. pc \in [ThreadID -> Location] /\ pc' = [pc EXCEPT ![t] = l]
  BY DEF RefInv, PoolInv, TypeOK, Goto
<1>2. UNCHANGED <<tasks_, job, done, threads_, quit_, dtor, joined>>
  BY DEF dtorVars
<1>3. At({"running"})' = At({"running"})
  BY <1>1 DEF At
<1>4. TasksDistinct' /\ Running' = Running
  BY <1>2, <1>3, QuietTasks
<1>5. DestructorKnows'
  BY <1>1, <1>2 DEF RefInv, DestructorKnows, MutexFree
<1> QED
  BY <1>2, <1>4, <1>5 DEF Executor!execVars

\* Every step of a worker is a Start, a Finish or invisible.
LEMMA WorkerStep ==
    ASSUME RefInv, NEW t \in ThreadID, worker(t) \/ LeaveWaitSet(t)
    PROVE  /\ TasksDistinct' /\ DestructorKnows'
           /\ Executor!ExecNext \/ UNCHANGED Executor!execVars
           /\ quit_ => UNCHANGED threads_
<1>1. pc \in [ThreadID -> Location]
  BY DEF RefInv, PoolInv, TypeOK
<1>2. ASSUME AfterWait(t), MutexFree, pc[t] \in InWait \cup {"locking"},
             UNCHANGED <<done, threads_, dtorVars>>
      PROVE  /\ TasksDistinct' /\ DestructorKnows'
             /\ Executor!ExecNext \/ UNCHANGED Executor!execVars
             /\ quit_ => UNCHANGED threads_
  BY <1>2, AfterWaitStep DEF Executor!ExecNext
<1>3. ASSUME NEW l \in Location \ {"running"}, Goto(t, l), pc[t] # "running", pc[t] # "exited",
             l # "joining", UNCHANGED <<tasks_, job, done, threads_, dtorVars>>
      PROVE  /\ TasksDistinct' /\ DestructorKnows'
             /\ Executor!ExecNext \/ UNCHANGED Executor!execVars
             /\ quit_ => UNCHANGED threads_
  BY <1>3, QuietWorkerStep
<1>4. CASE EnterWait(t)
  <2>1. "waiting" \in Location
    BY DEF Location, Serving, InWait
  <2> QED
    BY <1>2, <1>3, <1>4, <2>1 DEF EnterWait
<1>5. CASE WakeUp(t)
  <2>1. "waiting" \in Location /\ "woken" \in InWait
    BY DEF Location, Serving, InWait
  <2> QED
    BY <1>2, <1>3, <1>5, <2>1 DEF WakeUp
<1>6. CASE TimeOut(t)
  BY <1>2, <1>6 DEF TimeOut, InWait
<1>7. CASE JoinFinished(t)
  <2> DEFINE id == Head(finishedThreadIDs_)
  <2>1. /\ pc[id] = "exited" /\ pc' = [pc EXCEPT ![id] = "none"] /\ pc[t] = "joining"
        /\ UNCHANGED <<tasks_, job, done, quit_, dtor, joined>>
    BY <1>7 DEF JoinFinished, Goto, dtorVars
  <2>2. id \in ThreadID
    BY <1>7, HeadTailProperties DEF JoinFinished, RefInv, PoolInv, TypeOK
  <2> HIDE DEF id
  <2>3. ~quit_ /\ joined = joined'
    BY <2>1 DEF RefInv, DestructorKnows, MutexFree
  <2>4. At({"running"})' = At({"running"})
    BY <1>1, <2>1 DEF At
  <2>5. TasksDistinct' /\ Running' = Running
    BY <2>1, <2>4, QuietTasks
  <2>6. joined = {}
    BY <2>3 DEF RefInv, DestructorKnows
  <2> QED
    BY <2>1, <2>3, <2>5, <2>6 DEF Executor!execVars, DestructorKnows, RefInv
<1>8. CASE AnnounceExit(t)
  <2>1. "returning" \in Location
    BY DEF Location, Leaving
  <2> QED
    BY <1>3, <1>8, <2>1 DEF AnnounceExit
<1>9. CASE Exit(t)
  <2>1. "exited" \in Location
    BY DEF Location, Leaving
  <2> QED
    BY <1>3, <1>9, <2>1 DEF Exit
<1>10. CASE LeaveWaitSet(t)
  <2>1. "woken" \in Location /\ "timedout" \in Location
    BY DEF Location, Serving, InWait
  <2> QED
    BY <1>3, <1>10, <2>1 DEF LeaveWaitSet
<1>11. CASE RunTask(t)
  <2>1. /\ pc[t] = "running" /\ pc' = [pc EXCEPT ![t] = "locking"]
        /\ job \in [ThreadID -> Task \cup {NoTask}] /\ job' = [job EXCEPT ![t] = NoTask]
        /\ done' = done \cup {job[t]}
        /\ UNCHANGED <<tasks_, threads_, quit_, dtor, joined>>
    BY <1>11 DEF RunTask, Goto, dtorVars, RefInv, PoolInv, TypeOK
  <2>2. t \in At({"running"}) /\ At({"running"})' = At({"running"}) \ {t}
    BY <1>1, <2>1 DEF At
  <2>3. \A u \in At({"running"}) \ {t} : u \in ThreadID /\ job'[u] = job[u] /\ job[u] # job[t]
    BY <2>1, <2>2 DEF At, RefInv, TasksDistinct
  <2>4. TasksDistinct'
    BY <2>1, <2>2, <2>3 DEF RefInv, TasksDistinct
  <2>5. Running' = Running \ {job[t]} /\ job[t] \in Running
    BY <2>2, <2>3 DEF Running
  <2>6. job[t] \in Task
    BY <2>1 DEF RefInv, PoolInv, JobsTracked
  <2>7. Executor!Finish(job[t])
    BY <2>1, <2>5 DEF Executor!Finish
  <2>8. DestructorKnows'
    BY <1>1, <2>1 DEF RefInv, DestructorKnows, MutexFree
  <2> QED
    BY <2>1, <2>4, <2>6, <2>7, <2>8 DEF Executor!ExecNext
<1> QED
  BY <1>4, <1>5, <1>6, <1>7, <1>8, <1>9, <1>10, <1>11 DEF worker

\* submit is Submit: what it does to the workers is invisible.
LEMMA SubmitStep ==
    ASSUME RefInv, NEW k \in Task, submit(k)
    PROVE  TasksDistinct' /\ DestructorKnows' /\ Executor!Submit(k) /\ ~quit_
<1>1. /\ ~quit_ /\ ~Accepted(k) /\ tasks_' = Append(tasks_, k) /\ tasks_ \in Seq(Task)
      /\ pc \in [ThreadID -> Location]
      /\ UNCHANGED <<job, done, quit_, dtor, joined>>
  BY DEF submit, dtorVars, RefInv, PoolInv, TypeOK
<1>2. /\ DOMAIN tasks_ = 1 .. Len(tasks_) /\ Len(tasks_) \in Nat
      /\ DOMAIN tasks_' = 1 .. Len(tasks_) + 1
      /\ \A i \in DOMAIN tasks_ : tasks_'[i] = tasks_[i]
      /\ tasks_'[Len(tasks_) + 1] = k
  BY <1>1
<1>3. \A i \in DOMAIN tasks_ : tasks_[i] # k
  BY <1>1 DEF Accepted, Queued
<1>4. \A t \in At({"running"}) : job[t] # k
  BY <1>1 DEF Accepted, Running
<1>5. At({"running"})' = At({"running"})
  <2>1. \A t \in ThreadID : pc'[t] = "running" <=> pc[t] = "running"
    <3>1. CASE pc' = pc
      BY <3>1
    <3>2. CASE \E t \in At({"waiting"}) : Goto(t, "woken")
      BY <1>1, <3>2 DEF At, Goto
    <3>3. CASE CreateThread
      BY <1>1, <3>3 DEF CreateThread, Goto, RefInv, PoolInv, JoinsAreSafe
    <3> QED
      BY <3>1, <3>2, <3>3 DEF submit, NotifyOne
  <2> QED
    BY <2>1 DEF At
<1>6. Running' = Running
  BY <1>1, <1>5 DEF Running
<1>7. TasksDistinct'
  <2>1. \A i, j \in DOMAIN tasks_' : tasks_'[i] = tasks_'[j] => i = j
    BY <1>2, <1>3 DEF RefInv, TasksDistinct
  <2>2. \A t \in At({"running"})', i \in DOMAIN tasks_' : job'[t] # tasks_'[i]
    BY <1>1, <1>2, <1>4, <1>5 DEF RefInv, TasksDistinct
  <2>3. \A t, u \in At({"running"})' : job'[t] = job'[u] => t = u
    BY <1>1, <1>5 DEF RefInv, TasksDistinct
  <2> QED
    BY <2>1, <2>2, <2>3 DEF TasksDistinct
<1>8. DestructorKnows'
  BY <1>1 DEF RefInv, DestructorKnows
<1>9. Executor!Submit(k)
  BY <1>1, <1>6 DEF Executor!Submit, Executor!Fresh, Executor!InQueue, Accepted, Queued
<1> QED
  BY <1>1, <1>7, <1>8, <1>9

\* Setting quit_ is Close, returning is Vanish: all threads have exited then,
\* so by NoStrandedTask nothing is queued.
LEMMA DestructorStep ==
    ASSUME RefInv, destructor
    PROVE  /\ TasksDistinct' /\ DestructorKnows'
           /\ Executor!ExecNext \/ UNCHANGED Executor!execVars
           /\ UNCHANGED threads_
<1>1. pc \in [ThreadID -> Location]
  BY DEF RefInv, PoolInv, TypeOK
<1>2. CASE SetQuit
  <2>1. /\ ~quit_ /\ quit_' /\ dtor' = "notifying" /\ joined' = joined /\ joined = {}
        /\ UNCHANGED <<tasks_, threads_, pc, job, done>> /\ MutexFree
    BY <1>2 DEF SetQuit, RefInv, DestructorKnows
  <2>2. TasksDistinct' /\ Running' = Running
    BY <2>1, QuietTasks DEF At
  <2>3. DestructorKnows'
    BY <2>1 DEF DestructorKnows, MutexFree
  <2>4. Executor!Close
    BY <2>1, <2>2 DEF Executor!Close
  <2> QED
    BY <2>1, <2>2, <2>3, <2>4 DEF Executor!ExecNext
<1>3. CASE NotifyAll
  <2>1. /\ quit_ /\ quit_' = quit_ /\ dtor = "notifying" /\ dtor' = "joining" /\ joined' = joined
        /\ UNCHANGED <<tasks_, threads_, job, done>>
        /\ pc' = [t \in ThreadID |-> IF pc[t] = "waiting" THEN "woken" ELSE pc[t]]
        /\ joined \subseteq ThreadID
    BY <1>3 DEF NotifyAll, RefInv, DestructorKnows, PoolInv, TypeOK
  <2>2. At({"running"})' = At({"running"})
    BY <1>1, <2>1 DEF At
  <2>3. TasksDistinct' /\ Running' = Running
    BY <2>1, <2>2, QuietTasks
  <2>4. DestructorKnows'
    BY <1>1, <2>1 DEF RefInv, DestructorKnows, MutexFree
  <2> QED
    BY <2>1, <2>3, <2>4 DEF Executor!execVars
<1>4. ASSUME NEW t \in ThreadID, JoinElement(t)
      PROVE  TasksDistinct' /\ DestructorKnows' /\ UNCHANGED Executor!execVars /\ UNCHANGED threads_
  <2>1. /\ dtor = "joining" /\ pc[t] = "exited" /\ joined' = joined \cup {t}
        /\ UNCHANGED <<tasks_, threads_, pc, job, done, quit_, dtor>>
    BY <1>4 DEF JoinElement
  <2>2. TasksDistinct' /\ Running' = Running
    BY <2>1, QuietTasks DEF At
  <2>3. DestructorKnows'
    BY <2>1 DEF RefInv, DestructorKnows, MutexFree
  <2> QED
    BY <2>1, <2>2, <2>3 DEF Executor!execVars
<1>5. CASE DtorReturn
  <2>1. /\ dtor = "joining" /\ joined = threads_ /\ dtor' = "returned"
        /\ UNCHANGED <<tasks_, threads_, pc, job, done, quit_, joined>>
    BY <1>5 DEF DtorReturn
  <2>2. TasksDistinct' /\ Running' = Running
    BY <2>1, QuietTasks DEF At
  <2>3. quit_
    BY <2>1 DEF RefInv, DestructorKnows
  <2>4. DestructorKnows'
    BY <2>1, <2>3 DEF RefInv, DestructorKnows, MutexFree
  <2>5. \A t \in ThreadID : pc[t] = "none" \/ pc[t] = "exited"
    BY <2>1 DEF RefInv, PoolInv, JoinsAreSafe, DestructorKnows
  <2>6. tasks_ = <<>>
    BY <2>5 DEF RefInv, PoolInv, NoStrandedTask, Serving, InWait
  <2>7. Running = {}
    BY <2>5 DEF Running, At
  <2>8. Executor!Vanish
    BY <2>1, <2>2, <2>3, <2>6, <2>7 DEF Executor!Vanish
  <2> QED
    BY <2>1, <2>2, <2>4, <2>8 DEF Executor!ExecNext
<1> QED
  BY <1>2, <1>3, <1>4, <1>5 DEF destructor

\* Every step, in TaskExecutor's terms and in the destructor's.
LEMMA PoolStep ==
    ASSUME RefInv, [Next]_vars
    PROVE  /\ RefInv'
           /\ [Executor!ExecNext]_(Executor!execVars)
           /\ quit_ => UNCHANGED threads_
<1>1. PoolInv'
  BY PoolInvNext DEF RefInv
<1>2. ASSUME NEW k \in Task, submit(k)
      PROVE  TasksDistinct' /\ DestructorKnows' /\ Executor!ExecNext /\ ~quit_
  BY <1>2, SubmitStep DEF Executor!ExecNext
<1>3. ASSUME NEW t \in ThreadID, worker(t) \/ LeaveWaitSet(t)
      PROVE  /\ TasksDistinct' /\ DestructorKnows'
             /\ Executor!ExecNext \/ UNCHANGED Executor!execVars
             /\ quit_ => UNCHANGED threads_
  BY <1>3, WorkerStep
<1>4. CASE UNCHANGED vars
  <2>1. /\ UNCHANGED <<quit_, tasks_, threads_, pc, job, done, dtor, joined>>
    BY <1>4 DEF vars
  <2>2. TasksDistinct' /\ Running' = Running
    BY <2>1, QuietTasks DEF At
  <2>3. DestructorKnows'
    BY <2>1 DEF RefInv, DestructorKnows, MutexFree
  <2> QED
    BY <1>1, <2>1, <2>2, <2>3 DEF RefInv, Executor!execVars
<1>5. CASE destructor
  BY <1>1, <1>5, DestructorStep DEF RefInv
<1>6. CASE \E k \in Task : submit(k)
  BY <1>1, <1>2, <1>6 DEF RefInv
<1>7. CASE \E t \in ThreadID : worker(t) \/ LeaveWaitSet(t)
  BY <1>1, <1>3, <1>7 DEF RefInv
<1> QED
  BY <1>4, <1>5, <1>6, <1>7 DEF Next, Destroyed

\* The invariant of the refinement holds throughout.
LEMMA RefInvariant == Spec => []RefInv
<1>1. Init => RefInv
  <2> SUFFICES ASSUME Init PROVE RefInv
    OBVIOUS
  <2>1. DOMAIN tasks_ = {} /\ At({"running"}) = {}
    BY DEF Init, At
  <2>2. TasksDistinct
    BY <2>1 DEF TasksDistinct
  <2>3. DestructorKnows
    BY DEF Init, DestructorKnows, MutexFree
  <2> QED
    BY <2>2, <2>3, PoolInvInit DEF RefInv
<1>2. RefInv /\ [Next]_vars => RefInv'
  BY PoolStep
<1> QED
  BY <1>1, <1>2, PTL DEF Spec

\* Tasks start in order, at most maxThreads_ at once, each runs once, and the
\* destructor returns only when all have run: for every pool size.
THEOREM PoolImplementsExecutor == Spec => ImplementsExecutor
<1>1. Init => Executor!ExecInit
  <2> SUFFICES ASSUME Init PROVE Executor!ExecInit
    OBVIOUS
  <2>1. Running = {}
    BY DEF Init, Running, At
  <2> QED
    BY <2>1 DEF Init, Executor!ExecInit
<1>2. RefInv /\ [Next]_vars => [Executor!ExecNext]_(Executor!execVars)
  BY PoolStep
<1> QED
  BY <1>1, <1>2, RefInvariant, PTL DEF Spec, ImplementsExecutor, Executor!ExecSpec

\* Once quit_ is set nobody changes the map the destructor iterates over.
THEOREM DestructorSafety == Spec => DestructorOwnsThreads
<1>1. RefInv /\ [Next]_vars => [quit_ => UNCHANGED threads_]_vars
  BY PoolStep
<1> QED
  BY <1>1, RefInvariant, PTL DEF Spec, DestructorOwnsThreads

=============================================================================
