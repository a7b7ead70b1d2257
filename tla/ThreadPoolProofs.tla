-------------------------- MODULE ThreadPoolProofs --------------------------
(***************************************************************************)
(* Theorems about ThreadPool for every maxThreads_, every set of tasks and *)
(* every set of thread ids.                                                *)
(*                                                                         *)
(* None of the properties is inductive alone: submit's decision uses the   *)
(* counters, the counters are exact only because every thread is where     *)
(* threads_ says, and threads_ stays small only because a worker that left *)
(* before quit_ is in finishedThreadIDs_.  PoolInv conjoins them.          *)
(***************************************************************************)
EXTENDS ThreadPool, FiniteSetTheorems, SequenceTheorems, TLAPS

\* Before the destructor is called, a worker that left is waiting to be joined.
LeaversAnnounced ==
    ~quit_ => \A t \in At(Leaving) : \E i \in DOMAIN finishedThreadIDs_ :
                                          finishedThreadIDs_[i] = t

\* A worker holds a task exactly while it runs one.
JobsTracked == \A t \in ThreadID : job[t] \in Task <=> pc[t] = "running"

\* The inductive invariant.
PoolInv ==
    /\ TypeOK
    /\ IsFiniteSet(threads_)
    /\ CountersExact
    /\ JoinsAreSafe
    /\ LeaversAnnounced
    /\ ThreadObjectsBounded
    /\ NoStrandedTask
    /\ JobsTracked

\* finishedThreadIDs_ is such a queue.
LEMMA ShortSeq ==
    ASSUME NEW S, NEW s \in Seq(S), Len(s) <= 1, s # <<>>
    PROVE  Len(s) = 1 /\ DOMAIN s = {1} /\ Tail(s) = <<>>
<1>1. Len(s) \in Nat \ {0} /\ DOMAIN s = 1 .. Len(s)
  BY EmptySeq, LenProperties
<1>2. Len(s) = 1
  BY <1>1
<1>3. Tail(s) \in Seq(S) /\ Len(Tail(s)) = 0
  BY <1>2, HeadTailProperties
<1>4. Tail(s) = <<>>
  BY <1>3, EmptySeq
<1> QED
  BY <1>1, <1>2, <1>4

-----------------------------------------------------------------------------
(* Where a move of one worker leaves the sets the counters count. *)

\* Goto changes the membership of its thread, and of no other, in every At(L).
LEMMA MoveAt ==
    ASSUME NEW t \in ThreadID, NEW l, NEW L,
           pc \in [ThreadID -> Location], Goto(t, l)
    PROVE  At(L)' = IF l \in L THEN At(L) \cup {t} ELSE At(L) \ {t}
BY DEF At, Goto

\* The same, counted.
LEMMA MoveCount ==
    ASSUME NEW t \in ThreadID, NEW l, NEW L, IsFiniteSet(At(L)),
           pc \in [ThreadID -> Location], Goto(t, l)
    PROVE  /\ Cardinality(At(L)) \in Nat
           /\ Cardinality(At(L))' =
                Cardinality(At(L)) + (IF l \in L THEN 1 ELSE 0)
                                   - (IF pc[t] \in L THEN 1 ELSE 0)
<1>1. Cardinality(At(L)) \in Nat
  BY FS_CardinalityType
<1>2. Cardinality(At(L) \cup {t}) =
        IF t \in At(L) THEN Cardinality(At(L)) ELSE Cardinality(At(L)) + 1
  BY FS_AddElement
<1>3. Cardinality(At(L) \ {t}) =
        IF t \in At(L) THEN Cardinality(At(L)) - 1 ELSE Cardinality(At(L))
  BY FS_RemoveElement
<1>4. At(L)' = IF l \in L THEN At(L) \cup {t} ELSE At(L) \ {t}
  BY MoveAt
<1>5. t \in At(L) <=> pc[t] \in L
  BY DEF At
<1>6. Cardinality(At(L))' = Cardinality(IF l \in L THEN At(L) \cup {t} ELSE At(L) \ {t})
  BY <1>4
<1>7. CASE l \in L
  BY <1>1, <1>2, <1>5, <1>6, <1>7
<1>8. CASE l \notin L
  BY <1>1, <1>3, <1>5, <1>6, <1>8
<1> QED
  BY <1>7, <1>8

\* The sets that are counted are finite: they are part of threads_.
LEMMA FiniteAt ==
    ASSUME IsFiniteSet(threads_), JoinsAreSafe
    PROVE  /\ IsFiniteSet(At(Serving))
           /\ IsFiniteSet(At(InWait))
<1>1. At(Serving) \subseteq threads_ /\ At(InWait) \subseteq threads_
  BY DEF At, JoinsAreSafe, Serving, InWait
<1> QED
  BY <1>1, FS_Subset

\* What a move does to the two numbers submit decides by.
LEMMA MoveCounters ==
    ASSUME PoolInv, NEW t \in ThreadID, NEW l, Goto(t, l)
    PROVE  /\ Cardinality(At(Serving))' =
                currentThreads_ + (IF l \in Serving THEN 1 ELSE 0)
                                - (IF pc[t] \in Serving THEN 1 ELSE 0)
           /\ Cardinality(At(InWait))' =
                idleThreads_ + (IF l \in InWait THEN 1 ELSE 0)
                             - (IF pc[t] \in InWait THEN 1 ELSE 0)
<1>1. pc \in [ThreadID -> Location]
  BY DEF PoolInv, TypeOK
<1>2. IsFiniteSet(At(Serving)) /\ IsFiniteSet(At(InWait))
  BY FiniteAt DEF PoolInv
<1>3. currentThreads_ = Cardinality(At(Serving)) /\ idleThreads_ = Cardinality(At(InWait))
  BY DEF PoolInv, CountersExact
<1> QED
  BY <1>1, <1>2, <1>3, MoveCount

\* A counter of a set with a member is positive, and a positive counter counts
\* something: what makes the decrements safe and submit's decision right.
LEMMA CountersMean ==
    ASSUME PoolInv
    PROVE  /\ \A t \in At(Serving) : currentThreads_ > 0
           /\ \A t \in At(InWait) : idleThreads_ > 0
           /\ idleThreads_ > 0 => At(InWait) # {}
           /\ idleThreads_ = 0 => At(InWait) = {}
           /\ currentThreads_ > 0 => At(Serving) # {}
<1>1. IsFiniteSet(At(Serving)) /\ IsFiniteSet(At(InWait))
  BY FiniteAt DEF PoolInv
<1>2. currentThreads_ = Cardinality(At(Serving)) /\ idleThreads_ = Cardinality(At(InWait))
  BY DEF PoolInv, CountersExact
<1>3. currentThreads_ \in Nat /\ idleThreads_ \in Nat
  BY DEF PoolInv, TypeOK
<1>4. (currentThreads_ = 0 <=> At(Serving) = {}) /\ (idleThreads_ = 0 <=> At(InWait) = {})
  BY <1>1, <1>2, FS_EmptySet
<1> QED
  BY <1>3, <1>4

\* While mutex_ is free and the destructor was not called there is room for
\* one more thread object whenever submit creates a worker.
LEMMA RoomForWorker ==
    ASSUME PoolInv, MutexFree, ~quit_, currentThreads_ < maxThreads_
    PROVE  Cardinality(threads_) <= maxThreads_
<1>1. IsFiniteSet(At(Serving)) /\ currentThreads_ = Cardinality(At(Serving))
  BY FiniteAt DEF PoolInv, CountersExact
<1>2. maxThreads_ \in Nat /\ currentThreads_ \in Nat
  BY PoolAssumption DEF PoolInv, TypeOK
<1>3. CASE finishedThreadIDs_ = <<>>
  <2>0. DOMAIN finishedThreadIDs_ = {}
    BY <1>3
  <2>1. threads_ = At(Serving)
    <3>1. At(Leaving) = {}
      BY <2>0 DEF PoolInv, LeaversAnnounced
    <3>2. \A t \in ThreadID : pc[t] # "none" <=> pc[t] \in Serving
      BY <3>1 DEF PoolInv, TypeOK, MutexFree, At, Location, Serving, InWait
    <3> QED
      BY <3>2 DEF PoolInv, JoinsAreSafe, At
  <2> QED
    BY <1>1, <1>2, <2>1
<1>4. CASE finishedThreadIDs_ # <<>>
  <2> DEFINE f == finishedThreadIDs_[1]
  <2>1. Len(finishedThreadIDs_) = 1 /\ DOMAIN finishedThreadIDs_ = {1}
    <3>1. finishedThreadIDs_ \in Seq(ThreadID) /\ Len(finishedThreadIDs_) <= 1
      BY DEF PoolInv, TypeOK, JoinsAreSafe
    <3> QED
      BY <1>4, <3>1, ShortSeq
  <2>2. threads_ \subseteq At(Serving) \cup {f}
    BY <2>1 DEF PoolInv, TypeOK, JoinsAreSafe, LeaversAnnounced, MutexFree, At, Location
  <2> HIDE DEF f
  <2>3. /\ IsFiniteSet(At(Serving) \cup {f})
        /\ Cardinality(At(Serving) \cup {f}) <= currentThreads_ + 1
    BY <1>1, <1>2, FS_AddElement
  <2>4. Cardinality(threads_) <= Cardinality(At(Serving) \cup {f})
    BY <2>2, <2>3, FS_Subset
  <2>5. Cardinality(threads_) \in Nat /\ Cardinality(At(Serving) \cup {f}) \in Nat
    BY <2>3, FS_CardinalityType DEF PoolInv
  <2> QED
    BY <1>2, <2>3, <2>4, <2>5
<1> QED
  BY <1>3, <1>4

-----------------------------------------------------------------------------
(* Each action keeps the invariant. *)

\* A worker that moves without being created, joined or announced changes
\* nothing about threads_ and finishedThreadIDs_.
LEMMA MoveStructure ==
    ASSUME PoolInv, NEW t \in ThreadID, NEW l \in Location \ {"none"}, Goto(t, l),
           UNCHANGED <<threads_, finishedThreadIDs_, quit_>>,
           pc[t] # "none",
           pc[t] \in Leaving => l \in Leaving,
           l \in Leaving => pc[t] \in Leaving \/ quit_
    PROVE  /\ pc' \in [ThreadID -> Location]
           /\ IsFiniteSet(threads_)'
           /\ JoinsAreSafe'
           /\ LeaversAnnounced'
           /\ ThreadObjectsBounded'
           /\ (job' = job /\ pc[t] # "running" /\ l # "running" => JobsTracked')
<1>1. pc \in [ThreadID -> Location] /\ finishedThreadIDs_ \in Seq(ThreadID)
  BY DEF PoolInv, TypeOK
<1>2. pc' \in [ThreadID -> Location] /\ pc' = [pc EXCEPT ![t] = l]
  BY <1>1 DEF Goto
<1>3. IsFiniteSet(threads_)' /\ ThreadObjectsBounded'
  BY DEF PoolInv, ThreadObjectsBounded
<1>4. JoinsAreSafe'
  BY <1>1, <1>2 DEF PoolInv, JoinsAreSafe
<1>5. LeaversAnnounced'
  BY <1>1, <1>2 DEF PoolInv, LeaversAnnounced, At
<1>6. job' = job /\ pc[t] # "running" /\ l # "running" => JobsTracked'
  BY <1>1, <1>2 DEF PoolInv, JobsTracked
<1> QED
  BY <1>2, <1>3, <1>4, <1>5, <1>6

\* The part of the critical section after wait_for, entered with the idle
\* counter already (or still) without t.
LEMMA AfterWaitInv ==
    ASSUME PoolInv, NEW t \in ThreadID, AfterWait(t),
           pc[t] \in InWait \cup {"locking"},
           idleThreads_' = idleThreads_ - (IF pc[t] \in InWait THEN 1 ELSE 0),
           UNCHANGED <<finishedThreadIDs_, threads_, done, dtorVars>>
    PROVE  PoolInv'
<1>1. pc[t] \in Serving /\ pc[t] \notin Leaving /\ pc[t] # "none"
  BY DEF Serving, InWait, Leaving
<1>2. t \in At(Serving) /\ (pc[t] \in InWait => t \in At(InWait))
  BY <1>1 DEF At
<1>3. currentThreads_ > 0 /\ (pc[t] \in InWait => idleThreads_ > 0)
  BY <1>2, CountersMean
<1>4. currentThreads_ \in Nat /\ idleThreads_ \in Nat /\ idleThreads_' \in Nat
  BY <1>3 DEF PoolInv, TypeOK
<1>5. UNCHANGED <<threads_, finishedThreadIDs_, quit_, done, dtor, joined>>
  BY DEF dtorVars
<1>6. CASE TakeTask(t)
  <2>1. Goto(t, "running") /\ "running" \in Serving /\ "running" \notin InWait
        /\ "running" \notin Leaving /\ "running" \in Location \ {"none"}
    BY <1>6 DEF TakeTask, Serving, InWait, Leaving, Location
  <2>2. /\ pc' \in [ThreadID -> Location] /\ IsFiniteSet(threads_)'
        /\ JoinsAreSafe' /\ LeaversAnnounced' /\ ThreadObjectsBounded'
    BY <1>1, <1>5, <2>1, MoveStructure
  <2>3. TypeOK'
    <3>1. Head(tasks_) \in Task /\ Tail(tasks_) \in Seq(Task)
      BY <1>6, HeadTailProperties DEF PoolInv, TypeOK, TakeTask
    <3> QED
      BY <1>4, <1>5, <1>6, <2>2, <3>1 DEF PoolInv, TypeOK, TakeTask
  <2>4. CountersExact'
    BY SMTT(30), <1>1, <1>4, <1>6, <2>1, MoveCounters DEF PoolInv, CountersExact, TakeTask
  <2>5. NoStrandedTask'
    <3>1. pc'[t] = "running"
      BY <2>1 DEF Goto, PoolInv, TypeOK
    <3> QED
      BY <3>1 DEF NoStrandedTask, Serving, InWait
  <2>6. JobsTracked'
    <3>1. Head(tasks_) \in Task
      BY <1>6, HeadTailProperties DEF PoolInv, TypeOK, TakeTask
    <3>2. job' = [job EXCEPT ![t] = Head(tasks_)] /\ pc' = [pc EXCEPT ![t] = "running"]
      BY <1>6 DEF TakeTask, Goto
    <3> QED
      BY <3>1, <3>2 DEF PoolInv, TypeOK, JobsTracked
  <2> QED
    BY <2>2, <2>3, <2>4, <2>5, <2>6 DEF PoolInv
<1>7. ASSUME NEW l \in {"returning", "joining"}, tasks_ = <<>>, Leave(t, l),
             l = "returning" => quit_
      PROVE  PoolInv'
  <2>1. Goto(t, l) /\ l \notin Serving /\ l \notin InWait /\ l \in Location \ {"none"}
        /\ (l \in Leaving => quit_)
    BY <1>7 DEF Leave, Serving, InWait, Leaving, Location
  <2>2. /\ pc' \in [ThreadID -> Location] /\ IsFiniteSet(threads_)'
        /\ JoinsAreSafe' /\ LeaversAnnounced' /\ ThreadObjectsBounded'
    BY <1>1, <1>5, <2>1, MoveStructure
  <2>3. TypeOK'
    BY <1>3, <1>4, <1>5, <1>7, <2>2 DEF PoolInv, TypeOK, Leave
  <2>4. CountersExact'
    BY SMTT(30), <1>1, <1>4, <1>7, <2>1, MoveCounters, PoolAssumption
       DEF PoolInv, CountersExact, Leave
  <2>5. NoStrandedTask'
    BY <1>7 DEF NoStrandedTask, Leave
  <2>6. JobsTracked'
    <3>1. job' = job /\ l # "running" /\ pc[t] # "running"
      BY <1>7 DEF Leave, InWait
    <3> QED
      BY <1>1, <1>5, <2>1, <3>1, MoveStructure
  <2> QED
    BY <2>2, <2>3, <2>4, <2>5, <2>6 DEF PoolInv
<1> QED
  BY <1>6, <1>7 DEF AfterWait

\* Lock, count in, test the predicate, block or go on.
LEMMA EnterWaitInv ==
    ASSUME PoolInv, NEW t \in ThreadID, EnterWait(t)
    PROVE  PoolInv'
<1>1. CASE HasWork
  <2>1. pc[t] = "locking" /\ pc[t] \notin InWait
    BY DEF EnterWait, InWait
  <2>2. idleThreads_' = idleThreads_ - 0
    BY <1>1 DEF EnterWait, PoolInv, TypeOK
  <2> QED
    BY <1>1, <2>1, <2>2, AfterWaitInv DEF EnterWait
<1>2. CASE ~HasWork
  <2>1. /\ Goto(t, "waiting") /\ pc[t] = "locking"
        /\ "waiting" \in Location \ {"none"} /\ "waiting" \notin Leaving
        /\ "waiting" \in Serving /\ "waiting" \in InWait
        /\ "locking" \in Serving /\ "locking" \notin InWait
    BY <1>2 DEF EnterWait, Location, Serving, InWait, Leaving
  <2>2. /\ UNCHANGED <<currentThreads_, tasks_, job, finishedThreadIDs_, threads_, done,
                       quit_, dtor, joined>>
        /\ idleThreads_' = idleThreads_ + 1
    BY <1>2 DEF EnterWait, dtorVars
  <2>3. /\ pc' \in [ThreadID -> Location] /\ IsFiniteSet(threads_)'
        /\ JoinsAreSafe' /\ LeaversAnnounced' /\ ThreadObjectsBounded' /\ JobsTracked'
    <3>1. pc[t] \notin Leaving /\ pc[t] # "none"
      BY <2>1 DEF Leaving
    <3> QED
      BY <2>1, <2>2, <3>1, MoveStructure
  <2>4. TypeOK'
    BY <2>2, <2>3 DEF PoolInv, TypeOK
  <2>5. CountersExact'
    BY <2>1, <2>2, MoveCounters DEF PoolInv, TypeOK, CountersExact
  <2>6. NoStrandedTask'
    BY <1>2, <2>2 DEF HasWork, NoStrandedTask
  <2> QED
    BY <2>3, <2>4, <2>5, <2>6 DEF PoolInv
<1> QED
  BY <1>1, <1>2

\* A move between two places that both count the same, with the queue as it was
\* and the worker awake afterwards if it was before (or the queue empty).
LEMMA QuietMove ==
    ASSUME PoolInv, NEW t \in ThreadID, NEW l \in Location \ {"none"}, Goto(t, l),
           pc[t] # "none",
           pc[t] \in Serving <=> l \in Serving,
           pc[t] \in InWait <=> l \in InWait,
           pc[t] \in Leaving => l \in Leaving,
           l \in Leaving => pc[t] \in Leaving \/ quit_,
           l = "waiting" => tasks_ = <<>>,
           UNCHANGED <<counters, tasks_, finishedThreadIDs_, threads_, dtorVars>>,
           job' \in [ThreadID -> Task \cup {NoTask}],
           done' \in SUBSET Task,
           JobsTracked'
    PROVE  PoolInv'
<1>1. UNCHANGED <<currentThreads_, idleThreads_, tasks_, finishedThreadIDs_, threads_,
                  quit_, dtor, joined>>
  BY DEF counters, dtorVars
<1>2. /\ pc' \in [ThreadID -> Location] /\ IsFiniteSet(threads_)'
      /\ JoinsAreSafe' /\ LeaversAnnounced' /\ ThreadObjectsBounded'
  BY <1>1, MoveStructure
<1>3. TypeOK'
  BY <1>1, <1>2 DEF PoolInv, TypeOK
<1>4. CountersExact'
  <2>1. currentThreads_ \in Nat /\ idleThreads_ \in Nat
    BY DEF PoolInv, TypeOK
  <2>2. Cardinality(At(Serving))' = currentThreads_ /\ Cardinality(At(InWait))' = idleThreads_
    BY <2>1, MoveCounters
  <2> QED
    BY <1>1, <2>2 DEF PoolInv, CountersExact
<1>5. NoStrandedTask'
  <2>1. pc \in [ThreadID -> Location] /\ pc' = [pc EXCEPT ![t] = l]
    BY DEF PoolInv, TypeOK, Goto
  <2>2. CASE tasks_ = <<>>
    BY <1>1, <2>2 DEF NoStrandedTask
  <2>3. CASE tasks_ # <<>>
    <3>1. PICK u \in ThreadID : pc[u] \in Serving \ {"waiting"}
      BY <2>3 DEF PoolInv, NoStrandedTask
    <3>2. pc'[u] \in Serving \ {"waiting"}
      BY <2>1, <2>3, <3>1
    <3> QED
      BY <3>2 DEF NoStrandedTask
  <2> QED
    BY <2>2, <2>3
<1> QED
  BY <1>2, <1>3, <1>4, <1>5 DEF PoolInv

\* Leaving the wait set, by deadline or spuriously.
LEMMA LeaveWaitSetInv ==
    ASSUME PoolInv, NEW t \in ThreadID, LeaveWaitSet(t)
    PROVE  PoolInv'
<1>1. PICK l \in {"timedout", "woken"} : Goto(t, l)
  BY DEF LeaveWaitSet
<1>2. l \in Location \ {"none"} /\ l \in InWait /\ l \in Serving /\ l \notin Leaving
      /\ pc[t] \in InWait /\ pc[t] \in Serving /\ pc[t] \notin Leaving /\ pc[t] # "none"
      /\ l # "waiting"
  BY DEF Location, InWait, Serving, Leaving, LeaveWaitSet
<1>3. job' \in [ThreadID -> Task \cup {NoTask}] /\ done' \in SUBSET Task
  BY DEF LeaveWaitSet, PoolInv, TypeOK
<1>4. JobsTracked'
  BY <1>1 DEF LeaveWaitSet, Goto, PoolInv, TypeOK, JobsTracked
<1> QED
  BY <1>1, <1>2, <1>3, <1>4, QuietMove DEF LeaveWaitSet

\* A woken worker goes on or waits again.
LEMMA WakeUpInv ==
    ASSUME PoolInv, NEW t \in ThreadID, WakeUp(t)
    PROVE  PoolInv'
<1>1. pc[t] = "woken" /\ pc[t] \in InWait
  BY DEF WakeUp, InWait
<1>2. CASE HasWork
  BY <1>1, <1>2, AfterWaitInv DEF WakeUp
<1>3. CASE ~HasWork
  <2>1. Goto(t, "waiting") /\ tasks_ = <<>>
    BY <1>3 DEF WakeUp, HasWork
  <2>2. /\ "waiting" \in Location \ {"none"} /\ "waiting" \in InWait /\ "waiting" \in Serving
        /\ "waiting" \notin Leaving
        /\ pc[t] \in Serving /\ pc[t] \notin Leaving /\ pc[t] # "none"
    BY <1>1 DEF Location, InWait, Serving, Leaving
  <2>3. job' \in [ThreadID -> Task \cup {NoTask}] /\ done' \in SUBSET Task
    BY <1>3 DEF WakeUp, PoolInv, TypeOK
  <2>4. UNCHANGED <<counters, tasks_, finishedThreadIDs_, threads_, dtorVars>>
    BY <1>3 DEF WakeUp
  <2>5. JobsTracked'
    BY <1>3, <1>1, <2>1 DEF WakeUp, Goto, PoolInv, TypeOK, JobsTracked
  <2> QED
    BY <1>1, <2>1, <2>2, <2>3, <2>4, <2>5, QuietMove
<1> QED
  BY <1>2, <1>3

\* A worker whose deadline has passed.
LEMMA TimeOutInv ==
    ASSUME PoolInv, NEW t \in ThreadID, TimeOut(t)
    PROVE  PoolInv'
<1>1. pc[t] \in InWait
  BY DEF TimeOut, InWait
<1> QED
  BY <1>1, AfterWaitInv DEF TimeOut

\* A thread that returned terminates.
LEMMA ExitInv ==
    ASSUME PoolInv, NEW t \in ThreadID, Exit(t)
    PROVE  PoolInv'
<1>1. /\ "exited" \in Location \ {"none"} /\ "exited" \notin Serving /\ "exited" \notin InWait
      /\ "exited" \in Leaving /\ pc[t] \in Leaving /\ pc[t] \notin Serving
      /\ pc[t] \notin InWait /\ pc[t] # "none"
  BY DEF Exit, Location, Serving, InWait, Leaving
<1>2. job' \in [ThreadID -> Task \cup {NoTask}] /\ done' \in SUBSET Task
  BY DEF Exit, PoolInv, TypeOK
<1>3. JobsTracked'
  BY DEF Exit, Goto, PoolInv, TypeOK, JobsTracked
<1> QED
  BY <1>1, <1>2, <1>3, QuietMove DEF Exit

\* A task ends and its worker returns to the top of the loop.
LEMMA RunTaskInv ==
    ASSUME PoolInv, NEW t \in ThreadID, RunTask(t)
    PROVE  PoolInv'
<1>1. /\ "locking" \in Location \ {"none"} /\ "locking" \in Serving /\ "locking" \notin InWait
      /\ "locking" \notin Leaving /\ pc[t] \in Serving /\ pc[t] \notin InWait
      /\ pc[t] \notin Leaving /\ pc[t] # "none"
  BY DEF RunTask, Location, Serving, InWait, Leaving
<1>2. job' \in [ThreadID -> Task \cup {NoTask}] /\ done' \in SUBSET Task
  BY DEF RunTask, PoolInv, TypeOK, JobsTracked
<1>3. JobsTracked'
  BY PoolAssumption DEF RunTask, Goto, PoolInv, TypeOK, JobsTracked
<1> QED
  BY <1>1, <1>2, <1>3, QuietMove DEF RunTask

\* joinFinishedThreads joins the one announced thread and forgets it.
LEMMA JoinFinishedInv ==
    ASSUME PoolInv, NEW t \in ThreadID, JoinFinished(t)
    PROVE  PoolInv'
<1> DEFINE id == Head(finishedThreadIDs_)
<1>1. /\ finishedThreadIDs_ \in Seq(ThreadID) /\ finishedThreadIDs_ # <<>>
      /\ Len(finishedThreadIDs_) <= 1
  BY DEF JoinFinished, PoolInv, TypeOK, JoinsAreSafe
<1>2. id \in ThreadID /\ finishedThreadIDs_' = <<>>
  BY <1>1, ShortSeq, HeadTailProperties DEF JoinFinished
<1>3. pc[id] = "exited" /\ Goto(id, "none") /\ threads_' = threads_ \ {id}
  BY DEF JoinFinished
<1>4. UNCHANGED <<currentThreads_, idleThreads_, tasks_, job, done, quit_, dtor, joined>>
  BY DEF JoinFinished, counters, dtorVars
<1>4a. \A i \in DOMAIN finishedThreadIDs_ : finishedThreadIDs_[i] = id
  BY <1>1, ShortSeq
<1> HIDE DEF id
<1>5. pc \in [ThreadID -> Location] /\ pc' = [pc EXCEPT ![id] = "none"]
  BY <1>3 DEF PoolInv, TypeOK, Goto
<1>6. TypeOK'
  <2>1. pc' \in [ThreadID -> Location] /\ finishedThreadIDs_' \in Seq(ThreadID)
    BY <1>2, <1>5, EmptySeq DEF Location
  <2> QED
    BY <1>3, <1>4, <2>1 DEF PoolInv, TypeOK
<1>7. IsFiniteSet(threads_') /\ Cardinality(threads_') <= maxThreads_ + 1
  <2>1. IsFiniteSet(threads_) /\ Cardinality(threads_) <= maxThreads_ + 1
    BY DEF PoolInv, ThreadObjectsBounded
  <2>2. Cardinality(threads_) \in Nat /\ maxThreads_ \in Nat
    BY <2>1, FS_CardinalityType, PoolAssumption
  <2> DEFINE rest == threads_ \ {id}
  <2>3. /\ IsFiniteSet(rest)
        /\ Cardinality(rest) = IF id \in threads_ THEN Cardinality(threads_) - 1
                                                 ELSE Cardinality(threads_)
    BY <2>1, FS_RemoveElement, Zenon
  <2>4. threads_' = rest
    BY <1>3, Zenon
  <2> HIDE DEF rest
  <2>5. Cardinality(rest) <= maxThreads_ + 1
    BY <2>1, <2>2, <2>3
  <2> QED
    BY <2>3, <2>4, <2>5, Zenon
<1>8. CountersExact'
  <2>1. /\ "none" \notin Serving /\ "none" \notin InWait
        /\ pc[id] \notin Serving /\ pc[id] \notin InWait
    BY <1>3 DEF Serving, InWait
  <2>2. Cardinality(At(Serving))' = currentThreads_ /\ Cardinality(At(InWait))' = idleThreads_
    <3>1. currentThreads_ \in Nat /\ idleThreads_ \in Nat
      BY DEF PoolInv, TypeOK
    <3> QED
      BY <1>2, <1>3, <2>1, <3>1, MoveCounters
  <2> QED
    BY <1>4, <2>2 DEF PoolInv, CountersExact
<1>9. JoinsAreSafe'
  <2>1. threads_' = {u \in ThreadID : pc'[u] # "none"}
    BY <1>2, <1>3, <1>5 DEF PoolInv, JoinsAreSafe
  <2>2. Len(finishedThreadIDs_') <= 1 /\ DOMAIN finishedThreadIDs_' = {}
    BY <1>2
  <2> QED
    BY <2>1, <2>2 DEF JoinsAreSafe
<1>10. LeaversAnnounced'
  <2>1. \A u \in ThreadID : u # id /\ pc[u] \in Leaving => quit_
    BY <1>4a DEF PoolInv, LeaversAnnounced, At
  <2>2. ASSUME NEW u \in ThreadID, pc'[u] \in Leaving PROVE quit_'
    BY <1>4, <1>5, <2>1, <2>2 DEF Leaving
  <2> QED
    BY <2>2 DEF LeaversAnnounced, At
<1>11. NoStrandedTask'
  <2>1. \A u \in ThreadID : pc[u] \in Serving => pc'[u] = pc[u]
    BY <1>3, <1>5 DEF Serving, InWait
  <2> QED
    BY <1>4, <2>1 DEF PoolInv, NoStrandedTask
<1>12. JobsTracked'
  BY <1>3, <1>4, <1>5 DEF PoolInv, JobsTracked
<1> QED
  BY <1>6, <1>7, <1>8, <1>9, <1>10, <1>11, <1>12 DEF PoolInv, ThreadObjectsBounded

\* The leaving worker announces itself, alone, and unlocks.
LEMMA AnnounceExitInv ==
    ASSUME PoolInv, NEW t \in ThreadID, AnnounceExit(t)
    PROVE  PoolInv'
<1>1. /\ pc[t] = "joining" /\ Goto(t, "returning") /\ finishedThreadIDs_ = <<>>
      /\ finishedThreadIDs_' = <<t>>
      /\ UNCHANGED <<currentThreads_, idleThreads_, tasks_, threads_, job, done,
                     quit_, dtor, joined>>
  BY DEF AnnounceExit, counters, dtorVars
<1>2. pc \in [ThreadID -> Location] /\ pc' = [pc EXCEPT ![t] = "returning"]
  BY <1>1 DEF PoolInv, TypeOK, Goto
<1>3. DOMAIN finishedThreadIDs_' = {1} /\ finishedThreadIDs_'[1] = t
      /\ Len(finishedThreadIDs_') = 1 /\ finishedThreadIDs_' \in Seq(ThreadID)
  BY <1>1
<1>4. TypeOK'
  <2>1. pc' \in [ThreadID -> Location]
    BY <1>2 DEF Location, Leaving
  <2> QED
    BY <1>1, <1>3, <2>1 DEF PoolInv, TypeOK
<1>5. CountersExact'
  <2>1. /\ "returning" \notin Serving /\ "returning" \notin InWait
        /\ pc[t] \notin Serving /\ pc[t] \notin InWait
    BY <1>1 DEF Serving, InWait
  <2>2. Cardinality(At(Serving))' = currentThreads_ /\ Cardinality(At(InWait))' = idleThreads_
    <3>1. currentThreads_ \in Nat /\ idleThreads_ \in Nat
      BY DEF PoolInv, TypeOK
    <3> QED
      BY <1>1, <2>1, <3>1, MoveCounters
  <2> QED
    BY <1>1, <2>2 DEF PoolInv, CountersExact
<1>6. JoinsAreSafe'
  <2>1. threads_' = {u \in ThreadID : pc'[u] # "none"}
    BY <1>1, <1>2 DEF PoolInv, JoinsAreSafe
  <2>2. pc'[t] \in Leaving
    BY <1>2 DEF Leaving
  <2> QED
    BY <1>3, <2>1, <2>2 DEF JoinsAreSafe
<1>7. LeaversAnnounced'
  <2>1. \A u \in ThreadID : pc[u] \in Leaving => quit_
    <3>1. DOMAIN finishedThreadIDs_ = {}
      BY <1>1
    <3> QED
      BY <3>1 DEF PoolInv, LeaversAnnounced, At
  <2> QED
    BY <1>1, <1>2, <1>3, <2>1 DEF LeaversAnnounced, At
<1>8. IsFiniteSet(threads_)' /\ ThreadObjectsBounded'
  BY <1>1 DEF PoolInv, ThreadObjectsBounded
<1>9. NoStrandedTask'
  <2>1. \A u \in ThreadID : pc[u] \in Serving => pc'[u] = pc[u]
    BY <1>1, <1>2 DEF Serving, InWait
  <2> QED
    BY <1>1, <2>1 DEF PoolInv, NoStrandedTask
<1>10. JobsTracked'
  BY <1>1, <1>2 DEF PoolInv, JobsTracked
<1> QED
  BY <1>4, <1>5, <1>6, <1>7, <1>8, <1>9, <1>10 DEF PoolInv

\* submit: an idle worker is woken or already awake; or a worker is created; or
\* all maxThreads_ workers are busy and will come back to the queue.
LEMMA SubmitInv ==
    ASSUME PoolInv, NEW k \in Task, submit(k)
    PROVE  PoolInv'
<1>1. /\ MutexFree /\ ~quit_ /\ tasks_' = Append(tasks_, k)
      /\ UNCHANGED <<idleThreads_, finishedThreadIDs_, job, done, quit_, dtor, joined>>
  BY DEF submit, dtorVars
<1>2. pc \in [ThreadID -> Location] /\ tasks_' \in Seq(Task)
  BY <1>1 DEF PoolInv, TypeOK
<1>3. currentThreads_ \in Nat /\ idleThreads_ \in Nat /\ maxThreads_ \in Nat \ {0}
  BY PoolAssumption DEF PoolInv, TypeOK
<1>4. CASE UNCHANGED <<pc, threads_, currentThreads_>>
  <2>1. /\ TypeOK' /\ CountersExact' /\ JoinsAreSafe' /\ LeaversAnnounced'
        /\ ThreadObjectsBounded' /\ JobsTracked' /\ IsFiniteSet(threads_)'
    BY <1>1, <1>2, <1>4 DEF PoolInv, TypeOK, CountersExact, JoinsAreSafe, LeaversAnnounced,
                            ThreadObjectsBounded, JobsTracked, At
  <2>2. \E t \in ThreadID : pc[t] \in Serving \ {"waiting"}
    <3>1. CASE idleThreads_ > 0 /\ At({"waiting"}) = {}
      BY <3>1, CountersMean DEF At, Serving
    <3>2. CASE idleThreads_ = 0 /\ currentThreads_ >= maxThreads_
      <4>1. At(InWait) = {} /\ At(Serving) # {}
        BY <1>3, <3>2, CountersMean
      <4> QED
        BY <4>1 DEF At, InWait
    <3>3. (idleThreads_ > 0 /\ At({"waiting"}) = {})
          \/ (idleThreads_ = 0 /\ currentThreads_ >= maxThreads_)
      <4>1. CASE idleThreads_ > 0
        <5>1. \A t \in At({"waiting"}) : ~Goto(t, "woken")
          BY <1>2, <1>4 DEF At, Goto
        <5> QED
          BY <4>1, <5>1 DEF submit, NotifyOne
      <4>2. CASE ~(idleThreads_ > 0)
        <5>1. ~CreateThread
          BY <1>3, <1>4 DEF CreateThread
        <5> QED
          BY <4>2, <5>1 DEF submit
      <4> QED
        BY <4>1, <4>2
    <3> QED
      BY <3>1, <3>2, <3>3
  <2> QED
    BY <1>4, <2>1, <2>2 DEF PoolInv, NoStrandedTask
<1>5. ASSUME NEW t \in At({"waiting"}), Goto(t, "woken"), UNCHANGED <<threads_, currentThreads_>>
      PROVE  PoolInv'
  <2>1. /\ t \in ThreadID /\ pc[t] = "waiting" /\ pc' = [pc EXCEPT ![t] = "woken"]
    BY <1>5 DEF At, Goto
  <2>2. /\ "woken" \in Location \ {"none"} /\ "woken" \in Serving /\ "woken" \in InWait
        /\ "woken" \notin Leaving /\ pc[t] \in Serving /\ pc[t] \in InWait /\ pc[t] \notin Leaving
        /\ pc[t] # "none"
    BY <2>1 DEF Location, Serving, InWait, Leaving
  <2>3. /\ pc' \in [ThreadID -> Location] /\ IsFiniteSet(threads_)' /\ JoinsAreSafe'
        /\ LeaversAnnounced' /\ ThreadObjectsBounded' /\ JobsTracked'
    BY <1>1, <1>5, <2>1, <2>2, MoveStructure
  <2>4. TypeOK'
    BY <1>1, <1>2, <1>5, <2>3 DEF PoolInv, TypeOK
  <2>5. CountersExact'
    <3>1. Cardinality(At(Serving))' = currentThreads_ /\ Cardinality(At(InWait))' = idleThreads_
      BY <1>3, <1>5, <2>1, <2>2, MoveCounters
    <3> QED
      BY <1>1, <1>5, <3>1 DEF PoolInv, CountersExact
  <2>6. NoStrandedTask'
    <3>1. pc'[t] = "woken"
      BY <1>2, <2>1
    <3> QED
      BY <2>1, <2>2, <3>1 DEF NoStrandedTask
  <2> QED
    BY <2>3, <2>4, <2>5, <2>6 DEF PoolInv
<1>6. ASSUME currentThreads_ < maxThreads_, CreateThread
      PROVE  PoolInv'
  <2>1. PICK t \in ThreadID \ threads_ :
            /\ threads_' = threads_ \cup {t}
            /\ Goto(t, "locking")
            /\ currentThreads_' = currentThreads_ + 1
    BY <1>6 DEF CreateThread
  <2>2. pc[t] = "none" /\ pc' = [pc EXCEPT ![t] = "locking"]
    BY <2>1 DEF PoolInv, JoinsAreSafe, Goto
  <2>3. /\ "locking" \in Location /\ "locking" \in Serving /\ "locking" \notin InWait
        /\ "locking" \notin Leaving /\ "none" \notin Serving /\ "none" \notin InWait
        /\ "none" \notin Leaving
    BY DEF Location, Serving, InWait, Leaving
  <2>4. TypeOK'
    BY <1>1, <1>2, <1>3, <2>1, <2>2, <2>3 DEF PoolInv, TypeOK
  <2>5. IsFiniteSet(threads_') /\ Cardinality(threads_') <= maxThreads_ + 1
    <3>1. Cardinality(threads_) <= maxThreads_
      BY <1>1, <1>6, RoomForWorker
    <3>2. IsFiniteSet(threads_) /\ Cardinality(threads_) \in Nat
      BY FS_CardinalityType DEF PoolInv
    <3>3. /\ IsFiniteSet(threads_ \cup {t})
          /\ Cardinality(threads_ \cup {t}) = Cardinality(threads_) + 1
      BY <3>2, FS_AddElement
    <3> QED
      BY <1>3, <2>1, <3>1, <3>2, <3>3
  <2>6. CountersExact'
    <3>1. /\ Cardinality(At(Serving))' = currentThreads_ + 1
          /\ Cardinality(At(InWait))' = idleThreads_
      BY <1>3, <2>1, <2>2, <2>3, MoveCounters
    <3> QED
      BY <1>1, <1>3, <1>6, <2>1, <3>1 DEF CountersExact
  <2>7. JoinsAreSafe'
    <3>1. threads_' = {u \in ThreadID : pc'[u] # "none"}
      BY <1>2, <2>1, <2>2 DEF PoolInv, JoinsAreSafe
    <3>2. \A i \in DOMAIN finishedThreadIDs_ :
              /\ finishedThreadIDs_[i] \in ThreadID
              /\ pc[finishedThreadIDs_[i]] \in Leaving
      BY DEF PoolInv, TypeOK, JoinsAreSafe
    <3> QED
      BY <1>1, <1>2, <2>2, <2>3, <3>1, <3>2 DEF PoolInv, JoinsAreSafe
  <2>8. LeaversAnnounced'
    BY <1>1, <1>2, <2>2, <2>3 DEF PoolInv, LeaversAnnounced, At
  <2>9. NoStrandedTask'
    <3>1. pc'[t] = "locking"
      BY <1>2, <2>2
    <3> QED
      BY <2>3, <3>1 DEF NoStrandedTask
  <2>10. JobsTracked'
    BY <1>1, <1>2, <2>2 DEF PoolInv, JobsTracked
  <2> QED
    BY <2>4, <2>5, <2>6, <2>7, <2>8, <2>9, <2>10 DEF PoolInv, ThreadObjectsBounded
<1> QED
  BY <1>4, <1>5, <1>6 DEF submit, NotifyOne

\* The destructor's steps. Only NotifyAll moves workers, out of the wait set.
LEMMA DestructorInv ==
    ASSUME PoolInv, destructor
    PROVE  PoolInv'
<1>1. ASSUME UNCHANGED <<counters, tasks_, finishedThreadIDs_, threads_, pc, job, done>>,
             quit_' \in BOOLEAN, quit_ => quit_', joined' \in SUBSET ThreadID,
             dtor' \in {"outside", "notifying", "joining", "returned"}
      PROVE  PoolInv'
  <2>1. TypeOK'
    BY <1>1 DEF PoolInv, TypeOK, counters
  <2>2. /\ CountersExact' /\ JoinsAreSafe' /\ ThreadObjectsBounded' /\ NoStrandedTask'
        /\ JobsTracked' /\ IsFiniteSet(threads_)'
    BY <1>1 DEF PoolInv, CountersExact, JoinsAreSafe, ThreadObjectsBounded,
                NoStrandedTask, JobsTracked, At, counters
  <2>3. LeaversAnnounced'
    BY <1>1 DEF PoolInv, LeaversAnnounced, At
  <2> QED
    BY <2>1, <2>2, <2>3 DEF PoolInv
<1>2. CASE SetQuit
  BY <1>1, <1>2 DEF SetQuit, PoolInv, TypeOK
<1>3. CASE NotifyAll
  <2>1. /\ pc \in [ThreadID -> Location]
        /\ pc' = [t \in ThreadID |-> IF pc[t] = "waiting" THEN "woken" ELSE pc[t]]
        /\ UNCHANGED <<currentThreads_, idleThreads_, tasks_, finishedThreadIDs_, threads_,
                       job, done, quit_, joined>>
    BY <1>3 DEF NotifyAll, PoolInv, TypeOK, counters
  <2>2. TypeOK'
    BY <1>3, <2>1 DEF NotifyAll, PoolInv, TypeOK, Location, Serving, InWait
  <2>3. \A t \in ThreadID :
            /\ pc'[t] \in Serving <=> pc[t] \in Serving
            /\ pc'[t] \in InWait <=> pc[t] \in InWait
            /\ pc'[t] \in Leaving <=> pc[t] \in Leaving
            /\ pc'[t] = "none" <=> pc[t] = "none"
            /\ pc'[t] = "running" <=> pc[t] = "running"
    BY <2>1 DEF Serving, InWait, Leaving
  <2>4. At(Serving)' = At(Serving) /\ At(InWait)' = At(InWait) /\ At(Leaving)' = At(Leaving)
    BY <2>3 DEF At
  <2>5. CountersExact' /\ IsFiniteSet(threads_)' /\ ThreadObjectsBounded' /\ LeaversAnnounced'
    BY <2>1, <2>4 DEF PoolInv, CountersExact, ThreadObjectsBounded, LeaversAnnounced
  <2>6. JoinsAreSafe'
    <3>1. \A i \in DOMAIN finishedThreadIDs_ : finishedThreadIDs_[i] \in ThreadID
      BY DEF PoolInv, TypeOK
    <3> QED
      BY <2>1, <2>3, <3>1 DEF PoolInv, JoinsAreSafe
  <2>7. NoStrandedTask'
    <3>1. \A t \in ThreadID : pc[t] \in Serving \ {"waiting"} => pc'[t] = pc[t]
      BY <2>1
    <3> QED
      BY <2>1, <3>1 DEF PoolInv, NoStrandedTask
  <2>8. JobsTracked'
    BY <2>1, <2>3 DEF PoolInv, JobsTracked
  <2> QED
    BY <2>2, <2>5, <2>6, <2>7, <2>8 DEF PoolInv
<1>4. ASSUME NEW t \in ThreadID, JoinElement(t) PROVE PoolInv'
  BY <1>1, <1>4 DEF JoinElement, PoolInv, TypeOK
<1>5. CASE DtorReturn
  BY <1>1, <1>5 DEF DtorReturn, PoolInv, TypeOK
<1> QED
  BY <1>2, <1>3, <1>4, <1>5 DEF destructor

-----------------------------------------------------------------------------
(* The theorems. *)

\* Init establishes the invariant.
LEMMA PoolInvInit == Init => PoolInv
<1> SUFFICES ASSUME Init PROVE PoolInv
  OBVIOUS
<1>1. TypeOK
  <2>1. tasks_ \in Seq(Task) /\ finishedThreadIDs_ \in Seq(ThreadID)
    BY EmptySeq DEF Init
  <2> QED
    BY <2>1 DEF Init, TypeOK, Location
<1>2. threads_ = {} /\ At(Serving) = {} /\ At(InWait) = {} /\ At(Leaving) = {}
  BY DEF Init, At, Serving, InWait, Leaving
<1>3. IsFiniteSet(threads_) /\ Cardinality(threads_) = 0
      /\ Cardinality(At(Serving)) = 0 /\ Cardinality(At(InWait)) = 0
  BY <1>2, FS_EmptySet
<1>4. CountersExact /\ ThreadObjectsBounded
  BY <1>3, PoolAssumption DEF Init, CountersExact, ThreadObjectsBounded
<1>5. JoinsAreSafe /\ LeaversAnnounced /\ NoStrandedTask /\ JobsTracked
  BY <1>2, PoolAssumption DEF Init, JoinsAreSafe, LeaversAnnounced, NoStrandedTask, JobsTracked
<1> QED
  BY <1>1, <1>3, <1>4, <1>5 DEF PoolInv

\* Every step keeps it.
LEMMA PoolInvNext == PoolInv /\ [Next]_vars => PoolInv'
<1> SUFFICES ASSUME PoolInv, [Next]_vars PROVE PoolInv'
  OBVIOUS
<1>1. ASSUME NEW k \in Task, submit(k) PROVE PoolInv'
  BY <1>1, SubmitInv
<1>2. ASSUME NEW t \in ThreadID, worker(t) PROVE PoolInv'
  BY <1>2, EnterWaitInv, WakeUpInv, TimeOutInv, JoinFinishedInv, AnnounceExitInv, ExitInv,
     RunTaskInv DEF worker
<1>3. ASSUME NEW t \in ThreadID, LeaveWaitSet(t) PROVE PoolInv'
  BY <1>3, LeaveWaitSetInv
<1>4. CASE destructor
  BY <1>4, DestructorInv
<1>5. CASE UNCHANGED vars
  BY <1>5 DEF vars, PoolInv, TypeOK, CountersExact, JoinsAreSafe, LeaversAnnounced,
              ThreadObjectsBounded, NoStrandedTask, JobsTracked, At
<1> QED
  BY <1>1, <1>2, <1>3, <1>4, <1>5 DEF Next, Destroyed

\* The conjunction that the other theorems project from.
THEOREM PoolInvariant == Spec => []PoolInv
BY PoolInvInit, PoolInvNext, PTL DEF Spec

\* Type correctness; in particular the size_t counters of worker never wrap.
THEOREM TypeCorrect == Spec => []TypeOK
<1>1. PoolInv => TypeOK
  BY DEF PoolInv
<1> QED
  BY <1>1, PoolInvariant, PTL

\* submit decides by counters that are exact, for every pool size.
THEOREM CountersCorrect == Spec => []CountersExact
<1>1. PoolInv => CountersExact
  BY DEF PoolInv
<1> QED
  BY <1>1, PoolInvariant, PTL

\* joinFinishedThreads joins only threads that let go of mutex_.
THEOREM JoinSafety == Spec => []JoinsAreSafe
<1>1. PoolInv => JoinsAreSafe
  BY DEF PoolInv
<1> QED
  BY <1>1, PoolInvariant, PTL

\* Never more than maxThreads_ + 1 thread objects.
THEOREM ThreadsBounded == Spec => []ThreadObjectsBounded
<1>1. PoolInv => ThreadObjectsBounded
  BY DEF PoolInv
<1> QED
  BY <1>1, PoolInvariant, PTL

\* No lost wakeup, for every pool size and number of clients' tasks.
THEOREM NoTaskStranded == Spec => []NoStrandedTask
<1>1. PoolInv => NoStrandedTask
  BY DEF PoolInv
<1> QED
  BY <1>1, PoolInvariant, PTL

=============================================================================
