----------------------------- MODULE ThreadPool -----------------------------
(***************************************************************************)
(* ThreadPool of Experiments/02/common/ThreadPool.h (Experiments/11 has    *)
(* the same file): worker threads that take tasks off one queue.  What     *)
(* runs with queue_mutex held is one action; the notifications follow the  *)
(* unlock and are steps of their own.                                      *)
(***************************************************************************)
EXTENDS Naturals, Sequences, FiniteSets

CONSTANTS
  Worker,   \* the threads the constructor launches
  Caller,   \* threads that call enqueue
  Task,     \* the work items that may be handed in, each at most once
  NoTask    \* a worker that runs nothing

ASSUME ThreadPoolAssumption ==
  /\ NoTask \notin Task
  /\ Worker # {}    \* without workers nobody would drain the queue
  /\ IsFiniteSet(Worker) /\ IsFiniteSet(Caller) /\ IsFiniteSet(Task)

VARIABLES
  tasks,     \* the queue
  stop,      \* set by the destructor
  wpc,       \* where each worker is
  job,       \* the task each worker runs
  cpc,       \* whether a caller still owes the notify_one of its enqueue
  owner,     \* how far the destructor has come
  done,      \* tasks that have run: their future is ready
  rejected   \* tasks for which enqueue threw

poolVars == <<tasks, stop, wpc, job, cpc, owner, done, rejected>>

Queued == {tasks[i] : i \in 1 .. Len(tasks)}

Running == {job[w] : w \in {v \in Worker : wpc[v] = "running"}}

Sleeping == {w \in Worker : wpc[w] = "waiting"}

TypeOK ==
  /\ tasks \in Seq(Task)
  /\ stop \in BOOLEAN
  /\ wpc \in [Worker -> {"loop", "waiting", "running", "exited"}]
  /\ job \in [Worker -> Task \cup {NoTask}]
  /\ cpc \in [Caller -> {"idle", "notify"}]
  /\ owner \in {"open", "stopping", "joining", "joined"}
  /\ done \in SUBSET Task
  /\ rejected \in SUBSET Task

Init ==
  /\ tasks = <<>>
  /\ stop = FALSE
  /\ wpc = [w \in Worker |-> "loop"]
  /\ job = [w \in Worker |-> NoTask]
  /\ cpc = [c \in Caller |-> "idle"]
  /\ owner = "open"
  /\ done = {}
  /\ rejected = {}

-----------------------------------------------------------------------------
(* The worker loop.                                                        *)

\* condition.wait finds the predicate false and releases the mutex.
WorkerWait(w) ==
  /\ wpc[w] = "loop"
  /\ ~stop /\ tasks = <<>>
  /\ wpc' = [wpc EXCEPT ![w] = "waiting"]
  /\ UNCHANGED <<tasks, stop, job, cpc, owner, done, rejected>>

\* A wake-up nobody sent: the predicate is evaluated again.
WorkerSpurious(w) ==
  /\ wpc[w] = "waiting"
  /\ wpc' = [wpc EXCEPT ![w] = "loop"]
  /\ UNCHANGED <<tasks, stop, job, cpc, owner, done, rejected>>

\* Mutant of WorkerExit: a stopped worker leaves tasks behind.
WorkerExitEarly(w) ==
  /\ wpc[w] = "loop"
  /\ stop
  /\ wpc' = [wpc EXCEPT ![w] = "exited"]
  /\ UNCHANGED <<tasks, stop, job, cpc, owner, done, rejected>>

WorkerExit(w) ==
  /\ wpc[w] = "loop"
  /\ stop /\ tasks = <<>>
  /\ wpc' = [wpc EXCEPT ![w] = "exited"]
  /\ UNCHANGED <<tasks, stop, job, cpc, owner, done, rejected>>

\* Mutant of WorkerTake: the task is copied, not popped.
WorkerTakeCopy(w) ==
  /\ wpc[w] = "loop"
  /\ tasks # <<>>
  /\ job' = [job EXCEPT ![w] = Head(tasks)]
  /\ wpc' = [wpc EXCEPT ![w] = "running"]
  /\ UNCHANGED <<tasks, stop, cpc, owner, done, rejected>>

WorkerTake(w) ==
  /\ wpc[w] = "loop"
  /\ tasks # <<>>
  /\ job' = [job EXCEPT ![w] = Head(tasks)]
  /\ tasks' = Tail(tasks)
  /\ wpc' = [wpc EXCEPT ![w] = "running"]
  /\ UNCHANGED <<stop, cpc, owner, done, rejected>>

\* Mutant of WorkerFinish: the worker calls the task it has moved from once more.
WorkerFinishAgain(w) ==
  /\ wpc[w] = "running"
  /\ done' = done \cup {job[w]}
  /\ job' = [job EXCEPT ![w] = NoTask]
  /\ UNCHANGED <<tasks, stop, wpc, cpc, owner, rejected>>

\* task() returns: packaged_task has made the future ready.
WorkerFinish(w) ==
  /\ wpc[w] = "running"
  /\ done' = done \cup {job[w]}
  /\ job' = [job EXCEPT ![w] = NoTask]
  /\ wpc' = [wpc EXCEPT ![w] = "loop"]
  /\ UNCHANGED <<tasks, stop, cpc, owner, rejected>>

-----------------------------------------------------------------------------
(* enqueue, and the destructor.                                            *)

\* Mutant of Enqueue: nobody is notified.
EnqueueSilently(c, k) ==
  /\ cpc[c] = "idle"
  /\ k \in Task \ (Queued \cup Running \cup done \cup rejected)
  /\ IF stop
     THEN rejected' = rejected \cup {k} /\ UNCHANGED tasks
     ELSE tasks' = Append(tasks, k) /\ UNCHANGED rejected
  /\ UNCHANGED <<stop, wpc, job, cpc, owner, done>>

Enqueue(c, k) ==
  /\ cpc[c] = "idle"
  /\ k \in Task \ (Queued \cup Running \cup done \cup rejected)
  /\ \/ /\ stop                      \* "enqueue on stopped ThreadPool"
        /\ rejected' = rejected \cup {k}
        /\ UNCHANGED <<tasks, cpc>>
     \/ /\ ~stop
        /\ tasks' = Append(tasks, k)
        /\ cpc' = [cpc EXCEPT ![c] = "notify"]
        /\ UNCHANGED rejected
  /\ UNCHANGED <<stop, wpc, job, owner, done>>

NotifyOne(c) ==
  /\ cpc[c] = "notify"
  /\ cpc' = [cpc EXCEPT ![c] = "idle"]
  /\ \/ Sleeping = {} /\ UNCHANGED wpc
     \/ \E w \in Sleeping : wpc' = [wpc EXCEPT ![w] = "loop"]
  /\ UNCHANGED <<tasks, stop, job, owner, done, rejected>>

DestroyStop ==
  /\ owner = "open"
  /\ stop' = TRUE
  /\ owner' = "stopping"
  /\ UNCHANGED <<tasks, wpc, job, cpc, done, rejected>>

\* Mutant of DestroyNotify: notify_one where the code has notify_all.
DestroyNotifyOne ==
  /\ owner = "stopping"
  /\ owner' = "joining"
  /\ \/ Sleeping = {} /\ UNCHANGED wpc
     \/ \E w \in Sleeping : wpc' = [wpc EXCEPT ![w] = "loop"]
  /\ UNCHANGED <<tasks, stop, job, cpc, done, rejected>>

DestroyNotify ==
  /\ owner = "stopping"
  /\ owner' = "joining"
  /\ wpc' = [w \in Worker |-> IF wpc[w] = "waiting" THEN "loop" ELSE wpc[w]]
  /\ UNCHANGED <<tasks, stop, job, cpc, done, rejected>>

DestroyJoin ==
  /\ owner = "joining"
  /\ \A w \in Worker : wpc[w] = "exited"
  /\ owner' = "joined"
  /\ UNCHANGED <<tasks, stop, wpc, job, cpc, done, rejected>>

-----------------------------------------------------------------------------
WorkerLock(w) == WorkerWait(w) \/ WorkerExit(w) \/ WorkerTake(w)

Destroy == DestroyStop \/ DestroyNotify \/ DestroyJoin

Next ==
  \/ \E w \in Worker : WorkerLock(w) \/ WorkerSpurious(w) \/ WorkerFinish(w)
  \/ \E c \in Caller : NotifyOne(c) \/ \E k \in Task : Enqueue(c, k)
  \/ Destroy

(***************************************************************************)
(* Running threads keep running, a task that was started ends, and a       *)
(* destructor that was entered goes on.  No caller is assumed to enqueue   *)
(* anything and nobody is assumed to destroy the pool.  A worker that      *)
(* spurious wake-ups keep sending back to sleep is scheduled again (SF).   *)
(***************************************************************************)
Fairness ==
  /\ \A w \in Worker : SF_poolVars(WorkerLock(w)) /\ WF_poolVars(WorkerFinish(w))
  /\ \A c \in Caller : WF_poolVars(NotifyOne(c))
  /\ WF_poolVars(DestroyNotify) /\ WF_poolVars(DestroyJoin)

Spec == Init /\ [][Next]_poolVars

FairSpec == Spec /\ Fairness

-----------------------------------------------------------------------------
(* Properties.                                                             *)

\* A task is in one place: once in the queue, or with one worker, or done, or
\* refused.  None is lost and none is run twice, whatever the interleaving of
\* workers, callers and destructor.
TaskInOnePlace ==
  /\ \A i, j \in 1 .. Len(tasks) : tasks[i] = tasks[j] => i = j
  /\ \A v, w \in Worker :
        wpc[v] = "running" /\ wpc[w] = "running" /\ job[v] = job[w] => v = w
  /\ Queued \cap (Running \cup done \cup rejected) = {}
  /\ Running \cap (done \cup rejected) = {}
  /\ done \cap rejected = {}

\* While a worker sleeps, every queued task has a worker at the mutex or a
\* caller about to notify one: no notify_one is lost, so a task never sits in
\* the queue next to a sleeping worker.
NoLostWakeup ==
  Sleeping # {} =>
    Len(tasks) <= Cardinality({w \in Worker : wpc[w] = "loop"})
                    + Cardinality({c \in Caller : cpc[c] = "notify"})

\* Once the destructor waits in join, no worker is asleep with nobody left to
\* wake it; and when it returns every task that was accepted has run.
DestructorDrains ==
  /\ owner \in {"joining", "joined"} => Sleeping = {}
  /\ owner = "joined" => tasks = <<>> /\ Running = {}

\* A task that was accepted runs, even if the pool is being destroyed.
AcceptedTaskRuns == \A k \in Task : k \in Queued ~> k \in done

\* The destructor returns.
DestructorReturns == owner = "stopping" ~> owner = "joined"
=============================================================================
