-------------------------- MODULE ThreadPoolProofs --------------------------
(***************************************************************************)
(* Proofs about ThreadPool for any number of workers, callers and tasks: a *)
(* task is in one place, the destructor leaves none behind, and no wake-up *)
(* is lost.                                                                *)
(***************************************************************************)
EXTENDS ThreadPool, SequenceTheorems, FiniteSetTheorems, TLAPS

AtLock == {w \in Worker : wpc[w] = "loop"}

Notifying == {c \in Caller : cpc[c] = "notify"}

\* A running worker has a task.
RunsTask == \A w \in Worker : wpc[w] = "running" => job[w] \in Task

\* How far the destructor has come tells what the workers can be doing.
Stopping ==
  /\ stop <=> owner # "open"
  /\ \A w \in Worker : wpc[w] = "exited" => stop /\ tasks = <<>>
  /\ owner \in {"joining", "joined"} => Sleeping = {}
  /\ owner = "joined" => \A w \in Worker : wpc[w] = "exited"

IInv == TypeOK /\ RunsTask /\ TaskInOnePlace /\ Stopping

-----------------------------------------------------------------------------
(* What push and pop do to the queue.                                      *)

LEMMA TailQueue ==
  ASSUME NEW S, NEW s \in Seq(S), s # <<>>
  PROVE  /\ Len(s) \in Nat \ {0} /\ Head(s) = s[1] /\ Head(s) \in S
         /\ Tail(s) \in Seq(S) /\ Len(Tail(s)) = Len(s) - 1
         /\ \A i \in 1 .. Len(s) - 1 : Tail(s)[i] = s[i + 1]
  OBVIOUS

LEMMA AppendQueue ==
  ASSUME NEW S, NEW s \in Seq(S), NEW x \in S
  PROVE  /\ Len(s) \in Nat /\ Append(s, x) \in Seq(S)
         /\ Len(Append(s, x)) = Len(s) + 1
         /\ \A i \in 1 .. Len(s) : Append(s, x)[i] = s[i]
         /\ Append(s, x)[Len(s) + 1] = x
  BY AppendProperties

LEMMA InitIInv == Init => IInv
  <1> SUFFICES ASSUME Init PROVE IInv
    OBVIOUS
  <1>1. TypeOK
    <2>1. <<>> \in Seq(Task)
      OBVIOUS
    <2>2. {} \in SUBSET Task
      OBVIOUS
    <2> QED
      BY <2>1, <2>2 DEF Init, TypeOK
  <1>2. RunsTask /\ Stopping
    BY DEF Init, RunsTask, Stopping, Sleeping
  <1>3. TaskInOnePlace
    BY DEF Init, TaskInOnePlace, Queued, Running
  <1> QED
    BY <1>1, <1>2, <1>3 DEF IInv

\* A step that moves workers between the places where they have no task.
LEMMA IdleMove ==
  ASSUME IInv, UNCHANGED <<tasks, job, done, rejected>>,
         wpc' \in [Worker -> {"loop", "waiting", "running", "exited"}],
         \A w \in Worker : wpc'[w] = "running" <=> wpc[w] = "running"
  PROVE  RunsTask' /\ TaskInOnePlace'
  <1>1. RunsTask'
    BY DEF IInv, RunsTask
  <1>2. Queued' = Queued /\ Running' = Running
    BY DEF Queued, Running
  <1> QED
    BY <1>1, <1>2 DEF IInv, TaskInOnePlace

LEMMA TakeIInv ==
  ASSUME IInv, NEW w \in Worker, WorkerTake(w)
  PROVE  IInv'
  <1>1. /\ wpc[w] = "loop" /\ tasks # <<>>
        /\ job' = [job EXCEPT ![w] = Head(tasks)] /\ tasks' = Tail(tasks)
        /\ wpc' = [wpc EXCEPT ![w] = "running"]
        /\ UNCHANGED <<stop, cpc, owner, done, rejected>>
    BY DEF WorkerTake
  <1>2. /\ Len(tasks) \in Nat \ {0} /\ Head(tasks) = tasks[1] /\ Head(tasks) \in Task
        /\ tasks' \in Seq(Task) /\ Len(tasks') = Len(tasks) - 1
        /\ \A i \in 1 .. Len(tasks) - 1 : tasks'[i] = tasks[i + 1]
    <2>1. tasks \in Seq(Task)
      BY DEF IInv, TypeOK
    <2> QED
      BY <1>1, <2>1, TailQueue
  <1>3. \A v \in Worker : /\ wpc'[v] = IF v = w THEN "running" ELSE wpc[v]
                          /\ job'[v] = IF v = w THEN Head(tasks) ELSE job[v]
    BY <1>1 DEF IInv, TypeOK
  <1>4. TypeOK'
    BY <1>1, <1>2 DEF IInv, TypeOK
  <1>5. RunsTask'
    BY <1>2, <1>3 DEF IInv, RunsTask
  <1>6. Head(tasks) \in Queued
    BY <1>2 DEF Queued
  <1>7. Queued' \subseteq Queued /\ Head(tasks) \notin Queued'
    <2> SUFFICES ASSUME NEW i \in 1 .. Len(tasks')
                 PROVE  tasks'[i] \in Queued /\ tasks'[i] # Head(tasks)
      BY DEF Queued
    <2>1. tasks'[i] = tasks[i + 1] /\ i + 1 \in 1 .. Len(tasks) /\ i + 1 # 1
      BY <1>2
    <2>2. 1 \in 1 .. Len(tasks)
      BY <1>2
    <2>3. tasks[i + 1] # tasks[1]
      BY <2>1, <2>2 DEF IInv, TaskInOnePlace
    <2> QED
      BY <1>2, <2>1, <2>3 DEF Queued
  <1>8. Running' = Running \cup {Head(tasks)}
    BY <1>1, <1>3 DEF Running
  <1>9. TaskInOnePlace'
    <2>1. \A i, j \in 1 .. Len(tasks') : tasks'[i] = tasks'[j] => i = j
      BY <1>2 DEF IInv, TaskInOnePlace
    <2>2. \A u, v \in Worker :
            wpc'[u] = "running" /\ wpc'[v] = "running" /\ job'[u] = job'[v] => u = v
      BY <1>3, <1>6 DEF IInv, TaskInOnePlace, Running
    <2>3. /\ Queued' \cap (Running' \cup done' \cup rejected') = {}
          /\ Running' \cap (done' \cup rejected') = {} /\ done' \cap rejected' = {}
      BY <1>1, <1>6, <1>7, <1>8 DEF IInv, TaskInOnePlace
    <2> QED
      BY <2>1, <2>2, <2>3 DEF TaskInOnePlace
  <1>10. Stopping'
    BY <1>1, <1>3 DEF IInv, Stopping, Sleeping
  <1> QED
    BY <1>4, <1>5, <1>9, <1>10 DEF IInv

LEMMA FinishIInv ==
  ASSUME IInv, NEW w \in Worker, WorkerFinish(w)
  PROVE  IInv'
  <1>1. /\ wpc[w] = "running" /\ done' = done \cup {job[w]}
        /\ job' = [job EXCEPT ![w] = NoTask] /\ wpc' = [wpc EXCEPT ![w] = "loop"]
        /\ UNCHANGED <<tasks, stop, cpc, owner, rejected>>
    BY DEF WorkerFinish
  <1>2. \A v \in Worker : /\ wpc'[v] = IF v = w THEN "loop" ELSE wpc[v]
                          /\ job'[v] = IF v = w THEN NoTask ELSE job[v]
    BY <1>1 DEF IInv, TypeOK
  <1>3. job[w] \in Task /\ job[w] \in Running
    BY <1>1 DEF IInv, RunsTask, Running
  <1>4. TypeOK'
    BY <1>1, <1>3 DEF IInv, TypeOK
  <1>5. RunsTask'
    BY <1>2 DEF IInv, RunsTask
  <1>6. Queued' = Queued
    BY <1>1 DEF Queued
  <1>7. Running' \subseteq Running /\ job[w] \notin Running'
    BY <1>1, <1>2 DEF IInv, TaskInOnePlace, Running
  <1>8. TaskInOnePlace'
    <2>1. \A u, v \in Worker :
            wpc'[u] = "running" /\ wpc'[v] = "running" /\ job'[u] = job'[v] => u = v
      BY <1>2 DEF IInv, TaskInOnePlace
    <2>2. \A i, j \in 1 .. Len(tasks') : tasks'[i] = tasks'[j] => i = j
      BY <1>1 DEF IInv, TaskInOnePlace
    <2>3. /\ Queued' \cap (Running' \cup done' \cup rejected') = {}
          /\ Running' \cap (done' \cup rejected') = {} /\ done' \cap rejected' = {}
      BY <1>1, <1>3, <1>6, <1>7 DEF IInv, TaskInOnePlace
    <2> QED
      BY <2>1, <2>2, <2>3 DEF TaskInOnePlace
  <1>9. Stopping'
    BY <1>1, <1>2 DEF IInv, Stopping, Sleeping
  <1> QED
    BY <1>4, <1>5, <1>8, <1>9 DEF IInv

LEMMA EnqueueIInv ==
  ASSUME IInv, NEW c \in Caller, NEW k \in Task, Enqueue(c, k)
  PROVE  IInv'
  <1>1. /\ k \notin Queued \cup Running \cup done \cup rejected
        /\ UNCHANGED <<stop, wpc, job, owner, done>>
    BY DEF Enqueue
  <1>2. Running' = Running /\ Sleeping' = Sleeping
    BY <1>1 DEF Running, Sleeping
  <1>3. CASE stop /\ rejected' = rejected \cup {k} /\ UNCHANGED <<tasks, cpc>>
    <2>1. Queued' = Queued
      BY <1>3 DEF Queued
    <2>2. TypeOK'
      BY <1>1, <1>3 DEF IInv, TypeOK
    <2>3. RunsTask'
      BY <1>1 DEF IInv, RunsTask
    <2>4. TaskInOnePlace'
      BY <1>1, <1>2, <1>3, <2>1 DEF IInv, TaskInOnePlace
    <2>5. Stopping'
      BY <1>1, <1>2, <1>3 DEF IInv, Stopping
    <2> QED
      BY <2>2, <2>3, <2>4, <2>5 DEF IInv
  <1>4. CASE /\ ~stop /\ tasks' = Append(tasks, k)
             /\ cpc' = [cpc EXCEPT ![c] = "notify"] /\ UNCHANGED rejected
    <2>1. /\ Len(tasks) \in Nat /\ tasks' \in Seq(Task) /\ Len(tasks') = Len(tasks) + 1
          /\ \A i \in 1 .. Len(tasks) : tasks'[i] = tasks[i]
          /\ tasks'[Len(tasks) + 1] = k
      <3>1. tasks \in Seq(Task)
        BY DEF IInv, TypeOK
      <3> QED
        BY <1>4, <3>1, AppendQueue
    <2>2. Queued' \subseteq Queued \cup {k}
      BY <2>1 DEF Queued
    <2>3. TypeOK'
      BY <1>1, <1>4, <2>1 DEF IInv, TypeOK
    <2>4. RunsTask'
      BY <1>1 DEF IInv, RunsTask
    <2>5. TaskInOnePlace'
      <3>1. \A i \in 1 .. Len(tasks) : tasks[i] # k
        BY <1>1 DEF Queued
      <3>2. \A i, j \in 1 .. Len(tasks') : tasks'[i] = tasks'[j] => i = j
        BY <2>1, <3>1 DEF IInv, TaskInOnePlace
      <3>3. \A u, v \in Worker :
              wpc'[u] = "running" /\ wpc'[v] = "running" /\ job'[u] = job'[v] => u = v
        BY <1>1 DEF IInv, TaskInOnePlace
      <3>4. /\ Queued' \cap (Running' \cup done' \cup rejected') = {}
            /\ Running' \cap (done' \cup rejected') = {} /\ done' \cap rejected' = {}
        BY <1>1, <1>2, <1>4, <2>2 DEF IInv, TaskInOnePlace
      <3> QED
        BY <3>2, <3>3, <3>4 DEF TaskInOnePlace
    <2>6. Stopping'
      BY <1>1, <1>2, <1>4 DEF IInv, Stopping
    <2> QED
      BY <2>3, <2>4, <2>5, <2>6 DEF IInv
  <1> QED
    BY <1>3, <1>4 DEF Enqueue

LEMMA NextIInv == IInv /\ [Next]_poolVars => IInv'
  <1> SUFFICES ASSUME IInv, [Next]_poolVars PROVE IInv'
    OBVIOUS
  <1>1. ASSUME NEW w \in Worker, WorkerWait(w) \/ WorkerSpurious(w) \/ WorkerExit(w)
        PROVE  IInv'
    <2>1. UNCHANGED <<tasks, stop, job, cpc, owner, done, rejected>>
      BY <1>1 DEF WorkerWait, WorkerSpurious, WorkerExit
    <2>2. PICK l \in {"loop", "waiting", "exited"} :
            /\ wpc' = [wpc EXCEPT ![w] = l]
            /\ l = "waiting" => ~stop
            /\ l = "exited" => stop /\ tasks = <<>>
            /\ wpc[w] \in {"loop", "waiting"}
      BY <1>1 DEF WorkerWait, WorkerSpurious, WorkerExit
    <2>3. \A v \in Worker : wpc'[v] = IF v = w THEN l ELSE wpc[v]
      BY <2>2 DEF IInv, TypeOK
    <2>4. wpc' \in [Worker -> {"loop", "waiting", "running", "exited"}]
      BY <2>2 DEF IInv, TypeOK
    <2>5. TypeOK'
      BY <2>1, <2>4 DEF IInv, TypeOK
    <2>6. RunsTask' /\ TaskInOnePlace'
      BY <2>1, <2>2, <2>3, <2>4, IdleMove
    <2>7. Stopping'
      BY <2>1, <2>2, <2>3 DEF IInv, Stopping, Sleeping
    <2> QED
      BY <2>5, <2>6, <2>7 DEF IInv
  <1>2. ASSUME NEW c \in Caller, NotifyOne(c) PROVE IInv'
    <2>1. /\ UNCHANGED <<tasks, stop, job, owner, done, rejected>>
          /\ cpc' = [cpc EXCEPT ![c] = "idle"]
      BY <1>2 DEF NotifyOne
    <2>2. /\ wpc' \in [Worker -> {"loop", "waiting", "running", "exited"}]
          /\ \A v \in Worker : \/ wpc'[v] = wpc[v]
                               \/ wpc[v] = "waiting" /\ wpc'[v] = "loop"
      BY <1>2 DEF NotifyOne, Sleeping, IInv, TypeOK
    <2>3. TypeOK'
      BY <2>1, <2>2 DEF IInv, TypeOK
    <2>4. RunsTask' /\ TaskInOnePlace'
      BY <2>1, <2>2, IdleMove
    <2>5. Stopping'
      BY <2>1, <2>2 DEF IInv, Stopping, Sleeping
    <2> QED
      BY <2>3, <2>4, <2>5 DEF IInv
  <1>3. CASE Destroy
    <2>1. UNCHANGED <<tasks, job, cpc, done, rejected>>
      BY <1>3 DEF Destroy, DestroyStop, DestroyNotify, DestroyJoin
    <2>2. /\ wpc' \in [Worker -> {"loop", "waiting", "running", "exited"}]
          /\ \A v \in Worker : \/ wpc'[v] = wpc[v]
                               \/ wpc[v] = "waiting" /\ wpc'[v] = "loop"
      BY <1>3 DEF Destroy, DestroyStop, DestroyNotify, DestroyJoin, IInv, TypeOK
    <2>3. TypeOK'
      BY <1>3, <2>1, <2>2 DEF Destroy, DestroyStop, DestroyNotify, DestroyJoin, IInv, TypeOK
    <2>4. RunsTask' /\ TaskInOnePlace'
      BY <2>1, <2>2, IdleMove
    <2>5. DestroyStop => Stopping'
      BY DEF DestroyStop, IInv, TypeOK, Stopping, Sleeping
    <2>6. DestroyNotify => Stopping'
      BY DEF DestroyNotify, IInv, TypeOK, Stopping, Sleeping
    <2>7. DestroyJoin => Stopping'
      BY DEF DestroyJoin, IInv, TypeOK, Stopping, Sleeping
    <2> QED
      BY <1>3, <2>3, <2>4, <2>5, <2>6, <2>7 DEF Destroy, IInv
  <1>4. CASE UNCHANGED poolVars
    <2>1. UNCHANGED <<tasks, stop, wpc, job, cpc, owner, done, rejected>>
      BY <1>4 DEF poolVars
    <2>2. Queued' = Queued /\ Running' = Running /\ Sleeping' = Sleeping
      BY <2>1 DEF Queued, Running, Sleeping
    <2>3. TypeOK'
      BY <2>1 DEF IInv, TypeOK
    <2>4. RunsTask' /\ Stopping'
      BY <2>1, <2>2 DEF IInv, RunsTask, Stopping
    <2>5. TaskInOnePlace'
      BY <2>1, <2>2 DEF IInv, TaskInOnePlace
    <2> QED
      BY <2>3, <2>4, <2>5 DEF IInv
  <1> QED
    BY <1>1, <1>2, <1>3, <1>4, TakeIInv, FinishIInv, EnqueueIInv DEF Next, WorkerLock

LEMMA Inductive == Spec => []IInv
  BY InitIInv, NextIInv, PTL DEF Spec

\* The fields of ThreadPool keep their types; a worker's task is one that was
\* handed in.
THEOREM TypeCorrect == Spec => []TypeOK
  <1>1. IInv => TypeOK
    BY DEF IInv
  <1> QED
    BY <1>1, Inductive, PTL

\* For any workers, callers and tasks, a task that enqueue was called with is once
\* in the queue, or with one worker, or done, or refused.
THEOREM OnePlace == Spec => []TaskInOnePlace
  <1>1. IInv => TaskInOnePlace
    BY DEF IInv
  <1> QED
    BY <1>1, Inductive, PTL

\* For any workers, callers and tasks, ~ThreadPool joins no worker that is asleep
\* and returns with every accepted task run.
THEOREM Drained == Spec => []DestructorDrains
  <1>1. IInv => DestructorDrains
    <2> SUFFICES ASSUME IInv PROVE DestructorDrains
      OBVIOUS
    <2>1. owner = "joined" => tasks = <<>>
      BY ThreadPoolAssumption DEF IInv, Stopping
    <2>2. owner = "joined" => Running = {}
      BY DEF IInv, Stopping, Running
    <2> QED
      BY <2>1, <2>2 DEF IInv, Stopping, DestructorDrains
  <1> QED
    BY <1>1, Inductive, PTL

-----------------------------------------------------------------------------
(* The wake-ups.                                                           *)

LEMMA CountsFinite ==
  /\ IsFiniteSet(AtLock) /\ Cardinality(AtLock) \in Nat
  /\ IsFiniteSet(Notifying) /\ Cardinality(Notifying) \in Nat
  <1>1. AtLock \in SUBSET Worker /\ Notifying \in SUBSET Caller
    BY DEF AtLock, Notifying
  <1>2. IsFiniteSet(AtLock) /\ IsFiniteSet(Notifying)
    BY <1>1, ThreadPoolAssumption, FS_Subset
  <1> QED
    BY <1>2, FS_CardinalityType

\* Each step changes the queue, the workers at the mutex and the callers about to
\* notify by at most one, and never to the disadvantage of the queue while a worker
\* sleeps.
LEMMA NextWakeup == IInv /\ NoLostWakeup /\ [Next]_poolVars => NoLostWakeup'
  <1> SUFFICES ASSUME IInv, NoLostWakeup, [Next]_poolVars, Sleeping' # {}
               PROVE  Len(tasks') <= Cardinality(AtLock') + Cardinality(Notifying')
    BY DEF NoLostWakeup, AtLock, Notifying
  <1>f. /\ Len(tasks) \in Nat
        /\ IsFiniteSet(AtLock) /\ Cardinality(AtLock) \in Nat
        /\ IsFiniteSet(Notifying) /\ Cardinality(Notifying) \in Nat
    BY CountsFinite, LenProperties DEF IInv, TypeOK
  <1>p. Cardinality(AtLock') \in Nat /\ Cardinality(Notifying') \in Nat
    <2>1. AtLock' \in SUBSET Worker /\ Notifying' \in SUBSET Caller
      BY DEF AtLock, Notifying
    <2>2. IsFiniteSet(AtLock') /\ IsFiniteSet(Notifying')
      BY <2>1, ThreadPoolAssumption, FS_Subset
    <2> QED
      BY <2>2, FS_CardinalityType
  <1>n. Sleeping # {} => Len(tasks) <= Cardinality(AtLock) + Cardinality(Notifying)
    BY DEF NoLostWakeup, AtLock, Notifying
  <1>1. ASSUME NEW w \in Worker, WorkerWait(w) \/ WorkerExit(w)
        PROVE  Len(tasks') <= Cardinality(AtLock') + Cardinality(Notifying')
    <2>1. tasks' = <<>>
      BY <1>1 DEF WorkerWait, WorkerExit
    <2> QED
      BY <1>p, <2>1, EmptySeq
  <1>2. ASSUME NEW w \in Worker, WorkerSpurious(w) \/ WorkerFinish(w)
        PROVE  Len(tasks') <= Cardinality(AtLock') + Cardinality(Notifying')
    <2>1. /\ UNCHANGED <<tasks, cpc>> /\ wpc[w] \in {"waiting", "running"}
          /\ wpc' = [wpc EXCEPT ![w] = "loop"]
      BY <1>2 DEF WorkerSpurious, WorkerFinish
    <2>2. AtLock' = AtLock \cup {w} /\ w \notin AtLock /\ Notifying' = Notifying
      BY <2>1 DEF AtLock, Notifying, IInv, TypeOK
    <2>3. Sleeping # {}
      BY <2>1 DEF Sleeping, IInv, TypeOK
    <2>4. Cardinality(AtLock') = Cardinality(AtLock) + 1
      BY <1>f, <2>2, FS_AddElement
    <2> QED
      BY <1>f, <1>n, <2>1, <2>2, <2>3, <2>4
  <1>3. ASSUME NEW w \in Worker, WorkerTake(w)
        PROVE  Len(tasks') <= Cardinality(AtLock') + Cardinality(Notifying')
    <2>1. /\ tasks # <<>> /\ tasks' = Tail(tasks) /\ UNCHANGED cpc
          /\ wpc[w] = "loop" /\ wpc' = [wpc EXCEPT ![w] = "running"]
      BY <1>3 DEF WorkerTake
    <2>2. AtLock' = AtLock \ {w} /\ w \in AtLock /\ Notifying' = Notifying
      BY <2>1 DEF AtLock, Notifying, IInv, TypeOK
    <2>3. Sleeping # {}
      BY <2>1 DEF Sleeping, IInv, TypeOK
    <2>4. Cardinality(AtLock') = Cardinality(AtLock) - 1
      BY <1>f, <2>2, FS_RemoveElement
    <2>5. Len(tasks') = Len(tasks) - 1
      <3>1. tasks \in Seq(Task)
        BY DEF IInv, TypeOK
      <3> QED
        BY <2>1, <3>1, TailQueue
    <2> QED
      BY <1>f, <1>n, <2>2, <2>3, <2>4, <2>5
  <1>4. ASSUME NEW c \in Caller, NEW k \in Task, Enqueue(c, k)
        PROVE  Len(tasks') <= Cardinality(AtLock') + Cardinality(Notifying')
    <2>1. UNCHANGED wpc /\ cpc[c] = "idle"
      BY <1>4 DEF Enqueue
    <2>2. AtLock' = AtLock /\ Sleeping' = Sleeping
      BY <2>1 DEF AtLock, Sleeping
    <2>3. CASE UNCHANGED <<tasks, cpc>>
      <3>1. Notifying' = Notifying
        BY <2>3 DEF Notifying
      <3> QED
        BY <1>n, <2>2, <2>3, <3>1
    <2>4. CASE tasks' = Append(tasks, k) /\ cpc' = [cpc EXCEPT ![c] = "notify"]
      <3>1. Notifying' = Notifying \cup {c} /\ c \notin Notifying
        BY <2>1, <2>4 DEF Notifying, IInv, TypeOK
      <3>2. Cardinality(Notifying') = Cardinality(Notifying) + 1
        BY <1>f, <3>1, FS_AddElement
      <3>3. Len(tasks') = Len(tasks) + 1
        <4>1. tasks \in Seq(Task)
          BY DEF IInv, TypeOK
        <4> QED
          BY <2>4, <4>1, AppendQueue
      <3> QED
        BY <1>f, <1>n, <2>2, <3>2, <3>3
    <2> QED
      BY <1>4, <2>3, <2>4 DEF Enqueue
  <1>5. ASSUME NEW c \in Caller, NotifyOne(c)
        PROVE  Len(tasks') <= Cardinality(AtLock') + Cardinality(Notifying')
    <2>1. /\ UNCHANGED tasks /\ cpc[c] = "notify" /\ cpc' = [cpc EXCEPT ![c] = "idle"]
          /\ \/ Sleeping = {} /\ UNCHANGED wpc
             \/ \E w \in Sleeping : wpc' = [wpc EXCEPT ![w] = "loop"]
      BY <1>5 DEF NotifyOne
    <2>2. PICK w \in Sleeping : wpc' = [wpc EXCEPT ![w] = "loop"]
      BY <2>1 DEF Sleeping
    <2>3. /\ w \in Worker /\ AtLock' = AtLock \cup {w} /\ w \notin AtLock
          /\ Notifying' = Notifying \ {c} /\ c \in Notifying
      BY <2>1, <2>2 DEF Sleeping, AtLock, Notifying, IInv, TypeOK
    <2>4. /\ Cardinality(AtLock') = Cardinality(AtLock) + 1
          /\ Cardinality(Notifying') = Cardinality(Notifying) - 1
      BY <1>f, <2>3, FS_AddElement, FS_RemoveElement
    <2> QED
      BY <1>f, <1>n, <2>1, <2>2, <2>4
  <1>6. CASE Destroy
    <2>1. ~DestroyNotify
      BY DEF DestroyNotify, Sleeping, IInv, TypeOK
    <2>2. UNCHANGED <<tasks, wpc, cpc>>
      BY <1>6, <2>1 DEF Destroy, DestroyStop, DestroyJoin
    <2>3. AtLock' = AtLock /\ Notifying' = Notifying /\ Sleeping' = Sleeping
      BY <2>2 DEF AtLock, Notifying, Sleeping
    <2> QED
      BY <1>n, <2>2, <2>3
  <1>7. CASE UNCHANGED poolVars
    <2>1. UNCHANGED <<tasks, wpc, cpc>>
      BY <1>7 DEF poolVars
    <2>2. AtLock' = AtLock /\ Notifying' = Notifying /\ Sleeping' = Sleeping
      BY <2>1 DEF AtLock, Notifying, Sleeping
    <2> QED
      BY <1>n, <2>1, <2>2
  <1> QED
    BY <1>1, <1>2, <1>3, <1>4, <1>5, <1>6, <1>7 DEF Next, WorkerLock

\* For any workers, callers and tasks, no notify_one of enqueue is lost: while a
\* worker sleeps, each queued task has a worker at the mutex or a caller about to
\* notify.
THEOREM WakeupKept == Spec => []NoLostWakeup
  <1>1. Init => NoLostWakeup
    BY DEF Init, NoLostWakeup, Sleeping
  <1> QED
    BY <1>1, NextWakeup, Inductive, PTL DEF Spec
=============================================================================
