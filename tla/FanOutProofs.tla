---------------------------- MODULE FanOutProofs ----------------------------
(***************************************************************************)
(* Proofs about FanOut for any number of workers, calls and jobs.  What is *)
(* proved about the thread pool is taken over: the front end uses the pool *)
(* as ThreadPool says it may be used.                                      *)
(***************************************************************************)
EXTENDS FanOut, FiniteSetTheorems, TLAPS

PoolProofs == INSTANCE ThreadPoolProofs WITH Caller <- {TheCaller}, Task <- JobId

-----------------------------------------------------------------------------
(* The pool of the front end is a ThreadPool.                              *)

\* The constants of the pool are as it assumes them,
LEMMA PoolConstants ==
  /\ NoTask \notin JobId /\ Worker # {} /\ IsFiniteSet(Worker)
  /\ IsFiniteSet({TheCaller}) /\ IsFiniteSet(JobId)
<1>1. IsFiniteSet(Call) /\ IsFiniteSet(1 .. MaxJobs)
  BY FanOutAssumption, FS_Interval DEF Call
<1> QED
  BY <1>1, FanOutAssumption, FS_Singleton, FS_Product DEF JobId, Call

\* in the words of ThreadPool.
LEMMA PoolAssumed == PoolProofs!ThreadPoolAssumption
  BY PoolConstants
     DEF PoolProofs!ThreadPoolAssumption, PoolProofs!IsFiniteSet, IsFiniteSet

\* The two instances of the pool are the same specification.
LEMMA SamePool ==
  /\ Pool!Init = PoolProofs!Init
  /\ Pool!Queued = PoolProofs!Queued /\ Pool!Running = PoolProofs!Running
  /\ Pool!poolVars = poolVars /\ PoolProofs!poolVars = poolVars
  BY DEF Pool!Init, PoolProofs!Init, Pool!Queued, PoolProofs!Queued, Pool!Running,
         PoolProofs!Running, Pool!poolVars, PoolProofs!poolVars, poolVars

\* So are the steps of a worker,
LEMMA SameWorkerSteps ==
  ASSUME NEW w \in Worker
  PROVE  /\ Pool!WorkerLock(w) = PoolProofs!WorkerLock(w)
         /\ Pool!WorkerSpurious(w) = PoolProofs!WorkerSpurious(w)
         /\ Pool!WorkerFinish(w) = PoolProofs!WorkerFinish(w)
<1>1. Pool!WorkerLock(w) = PoolProofs!WorkerLock(w)
  BY DEF Pool!WorkerLock, PoolProofs!WorkerLock, Pool!WorkerWait, PoolProofs!WorkerWait,
         Pool!WorkerExit, PoolProofs!WorkerExit, Pool!WorkerTake, PoolProofs!WorkerTake
<1>2. /\ Pool!WorkerSpurious(w) = PoolProofs!WorkerSpurious(w)
      /\ Pool!WorkerFinish(w) = PoolProofs!WorkerFinish(w)
  BY DEF Pool!WorkerSpurious, PoolProofs!WorkerSpurious,
         Pool!WorkerFinish, PoolProofs!WorkerFinish
<1> QED
  BY <1>1, <1>2

\* and those of the caller.
LEMMA SameCallerSteps ==
  /\ Pool!NotifyOne(TheCaller) = PoolProofs!NotifyOne(TheCaller)
  /\ \A k \in JobId : Pool!Enqueue(TheCaller, k) = PoolProofs!Enqueue(TheCaller, k)
<1>1. Pool!NotifyOne(TheCaller) = PoolProofs!NotifyOne(TheCaller)
  BY DEF Pool!NotifyOne, PoolProofs!NotifyOne, Pool!Sleeping, PoolProofs!Sleeping
<1>2. ASSUME NEW k \in JobId
      PROVE  Pool!Enqueue(TheCaller, k) = PoolProofs!Enqueue(TheCaller, k)
  BY DEF Pool!Enqueue, PoolProofs!Enqueue, Pool!Queued, PoolProofs!Queued,
         Pool!Running, PoolProofs!Running
<1> QED
  BY <1>1, <1>2

\* What a step of the front end does to the pool.
PoolMove ==
  \/ \E w \in Worker : \/ Pool!WorkerLock(w) \/ Pool!WorkerSpurious(w)
                       \/ Pool!WorkerFinish(w)
  \/ Pool!NotifyOne(TheCaller)
  \/ UNCHANGED poolVars

PoolStep == PoolMove \/ \E k \in JobId : Pool!Enqueue(TheCaller, k)

\* A step of the front end makes one of these.
LEMMA StepsPool == [Next]_vars => PoolStep
<1>1. ASSUME NEW k, Pool!Enqueue(TheCaller, k) PROVE k \in JobId
  BY <1>1 DEF Pool!Enqueue
<1>2. ASSUME CallStep PROVE PoolStep
  BY <1>1, <1>2 DEF PoolStep, PoolMove, CallStep, EnqueueJob, EnqueueNotify,
                       GetBegin, GetResult, CallReturn
<1>3. ASSUME NEW w \in Worker, Invoke(w) \/ WorkerStep(w) \/ WorkerSpurious(w)
      PROVE  PoolStep
  BY <1>3 DEF PoolStep, PoolMove, Invoke, WorkerStep, WorkerSpurious
<1>4. ASSUME CallBegin \/ CallInvalid \/ UNCHANGED vars PROVE PoolStep
  BY <1>4 DEF PoolStep, PoolMove, CallBegin, CallInvalid, vars
<1> QED
  BY <1>2, <1>3, <1>4 DEF Next

\* They are steps ThreadPool allows,
LEMMA PoolStepAllowed == PoolStep => [Pool!Next]_poolVars
  BY DEF PoolStep, PoolMove, Pool!Next

\* in either instance.
LEMMA PoolStepProved == PoolStep => [PoolProofs!Next]_(PoolProofs!poolVars)
  BY SameWorkerSteps, SameCallerSteps
     DEF PoolStep, PoolMove, PoolProofs!Next, PoolProofs!poolVars, poolVars

\* So what is invariant in the pool is invariant here.
LEMMA PoolInvKept == PoolProofs!IInv /\ [Next]_vars => PoolProofs!IInv'
  BY StepsPool, PoolStepProved, PoolAssumed, PoolConstants, PoolProofs!NextIInv

\* The front end uses its pool as ThreadPool lets a caller use it, so that what is
\* proved about the pool (no task lost, none run twice, no wake-up lost) holds for
\* the jobs of the front ends (ComposeReview.cpp, marginBalance.cpp).
THEOREM UsesThreadPool == Spec => Pool!Spec
<1>1. Init => Pool!Init
  BY DEF Init
<1>2. [Next]_vars => [Pool!Next]_(Pool!poolVars)
  BY StepsPool, PoolStepAllowed DEF Pool!poolVars, poolVars
<1> QED
  BY <1>1, <1>2, PTL DEF Spec, Pool!Spec

-----------------------------------------------------------------------------
(***************************************************************************)
(* The inductive invariant.                                                *)
(***************************************************************************)

\* The types of what the call keeps; those of the pool are in PoolProofs!IInv.
CallTypes ==
  /\ call \in 0 .. NumCalls
  /\ num \in [Call -> 0 .. MaxJobs]
  /\ phase \in {"idle", "enqueue", "get"}
  /\ i \in Nat \ {0}
  /\ succeed \in [JobId -> BOOLEAN]
  /\ ret \in [Call -> {"none", "0", "-1"}]

\* Calls come one after the other: those that come later have no jobs yet, and
\* only those before, or the last one when it has returned, have an answer.
InSequence ==
  /\ phase # "idle" => call \in Call
  /\ \A n \in Call : n > call => num[n] = 0
  /\ \A n \in Call : ret[n] # "none" => n < call \/ (n = call /\ phase = "idle")

\* The jobs that exist are those of the current call made so far, and the futures
\* it has got are ready.
JobsExist ==
  /\ phase = "idle" => alive = {}
  /\ phase = "enqueue" => i <= num[call] + 1 /\ alive = {call} \X (1 .. i - 1)
  /\ phase = "get" => /\ i <= num[call] + 1 /\ alive = JobsOf(call)
                      /\ \A j \in 1 .. i - 1 : <<call, j>> \in done

\* The invariant.
IInv == /\ PoolProofs!IInv /\ CallTypes /\ InSequence /\ JobsExist
        /\ JobsOutliveTasks /\ VerdictIsFinal

\* Initially there are no calls.
LEMMA InitIInv == Init => IInv
<1> SUFFICES ASSUME Init PROVE IInv
  OBVIOUS
<1> USE FanOutAssumption
<1>1. PoolProofs!IInv
  BY SamePool, PoolAssumed, PoolConstants, PoolProofs!InitIInv DEF Init
<1>2. CallTypes /\ InSequence /\ JobsExist /\ VerdictIsFinal
  BY DEF Init, CallTypes, InSequence, JobsExist, VerdictIsFinal, Call
<1>3. JobsOutliveTasks
  BY DEF Init, Pool!Init, JobsOutliveTasks, Pool!Queued, Pool!Running
<1> QED
  BY <1>1, <1>2, <1>3 DEF IInv

\* What is queued or running after a step of the pool other than enqueue was so
\* before, and what has run has run.
LEMMA PoolTasks ==
  ASSUME PoolProofs!IInv, PoolMove
  PROVE  /\ done \subseteq done'
         /\ Pool!Queued' \cup Pool!Running' \subseteq Pool!Queued \cup Pool!Running
<1>1. /\ tasks \in Seq(JobId)
      /\ wpc \in [Worker -> {"loop", "waiting", "running", "exited"}]
      /\ job \in [Worker -> JobId \cup {NoTask}]
  BY DEF PoolProofs!IInv, PoolProofs!TypeOK
<1> USE DEF Pool!Queued, Pool!Running
<1>2. ASSUME NEW w \in Worker, Pool!WorkerTake(w)
      PROVE  /\ Pool!Queued' \cup Pool!Running' \subseteq Pool!Queued \cup Pool!Running
             /\ UNCHANGED done
  <2>1. /\ tasks # <<>> /\ tasks' = Tail(tasks) /\ UNCHANGED done
        /\ job' = [job EXCEPT ![w] = Head(tasks)]
        /\ wpc' = [wpc EXCEPT ![w] = "running"]
    BY <1>2 DEF Pool!WorkerTake
  <2>2. Pool!Queued' \subseteq Pool!Queued /\ Head(tasks) \in Pool!Queued
    BY <1>1, <2>1
  <2>3. Pool!Running' \subseteq Pool!Running \cup {Head(tasks)}
    BY <1>1, <2>1
  <2> QED
    BY <2>1, <2>2, <2>3
<1>3. ASSUME NEW w \in Worker,
             Pool!WorkerWait(w) \/ Pool!WorkerExit(w) \/ Pool!WorkerSpurious(w)
      PROVE  /\ Pool!Queued' \cup Pool!Running' \subseteq Pool!Queued \cup Pool!Running
             /\ UNCHANGED done
  BY <1>1, <1>3 DEF Pool!WorkerWait, Pool!WorkerExit, Pool!WorkerSpurious
<1>4. ASSUME NEW w \in Worker, Pool!WorkerFinish(w)
      PROVE  /\ Pool!Queued' \cup Pool!Running' \subseteq Pool!Queued \cup Pool!Running
             /\ done \subseteq done'
  BY <1>1, <1>4 DEF Pool!WorkerFinish
<1>5. ASSUME Pool!NotifyOne(TheCaller)
      PROVE  /\ Pool!Queued' \cup Pool!Running' \subseteq Pool!Queued \cup Pool!Running
             /\ UNCHANGED done
  BY <1>1, <1>5 DEF Pool!NotifyOne, Pool!Sleeping
<1>6. CASE UNCHANGED poolVars
  BY <1>6 DEF poolVars
<1> QED
  BY <1>2, <1>3, <1>4, <1>5, <1>6 DEF PoolMove, Pool!WorkerLock

\* A task that has run is neither queued nor running.
LEMMA DoneIsOver ==
  ASSUME PoolProofs!IInv
  PROVE  (Pool!Queued \cup Pool!Running) \cap done = {}
  BY SamePool DEF PoolProofs!IInv, PoolProofs!TaskInOnePlace

\* A job that runs is one of the current call, which has no answer yet.
LEMMA RunningIsCurrent ==
  ASSUME IInv, NEW w \in Worker, wpc[w] = "running"
  PROVE  /\ job[w] \in JobId /\ job[w] \in Pool!Running
         /\ phase # "idle" /\ \E j \in 1 .. MaxJobs : job[w] = <<call, j>>
<1>1. job[w] \in JobId
  BY DEF IInv, PoolProofs!IInv, PoolProofs!RunsTask
<1>2. job[w] \in Pool!Running /\ job[w] \in alive
  BY DEF IInv, JobsOutliveTasks, Pool!Running
<1> QED
  BY <1>1, <1>2 DEF IInv, JobsExist, CallTypes, JobsOf, JobId

\* An answer stays right while its jobs keep their results.
LEMMA VerdictKept ==
  ASSUME VerdictIsFinal, UNCHANGED ret,
         \A n \in Call : ret[n] # "none" =>
           JobsOf(n)' = JobsOf(n) /\ \A k \in JobsOf(n) : succeed'[k] = succeed[k]
  PROVE  VerdictIsFinal'
<1> SUFFICES ASSUME NEW n \in Call, ret'[n] # "none", JobsOf(n)' # {}
             PROVE  ret'[n] = "0" <=> \A k \in JobsOf(n)' : succeed'[k]
  BY DEF VerdictIsFinal
<1>1. ret[n] # "none" /\ JobsOf(n)' = JobsOf(n)
  OBVIOUS
<1>2. ret[n] = "0" <=> \A k \in JobsOf(n) : succeed[k]
  BY <1>1 DEF VerdictIsFinal
<1> QED
  BY <1>1, <1>2

-----------------------------------------------------------------------------
(* The steps of the front end.                                             *)

\* A call begins.
LEMMA BeginIInv ==
  ASSUME IInv, CallBegin
  PROVE  CallTypes' /\ InSequence' /\ JobsExist' /\ JobsOutliveTasks' /\ VerdictIsFinal'
<1> USE FanOutAssumption DEF Call
<1>1. /\ phase = "idle" /\ call < NumCalls /\ call' = call + 1
      /\ phase' = "enqueue" /\ i' = 1
      /\ UNCHANGED <<alive, succeed, ret, poolVars>>
  BY DEF CallBegin
<1>2. PICK k \in FanOutNum : num' = [num EXCEPT ![call + 1] = k]
  BY DEF CallBegin
<1>3. call + 1 \in Call /\ k \in 0 .. MaxJobs /\ ret[call + 1] = "none"
  BY <1>1 DEF IInv, CallTypes, InSequence
<1>4. CallTypes'
  BY <1>1, <1>2, <1>3 DEF IInv, CallTypes
<1>5. InSequence'
  BY <1>1, <1>2, <1>3 DEF IInv, CallTypes, InSequence
<1>6. JobsExist'
  BY <1>1, <1>2, <1>3 DEF IInv, CallTypes, JobsExist
<1>7. JobsOutliveTasks'
  BY <1>1 DEF IInv, JobsOutliveTasks, poolVars, Pool!Queued, Pool!Running
<1>8. VerdictIsFinal'
  <2>1. \A n \in Call : ret[n] # "none" => JobsOf(n)' = JobsOf(n)
    BY <1>2, <1>3 DEF IInv, CallTypes, JobsOf
  <2> QED
    BY <1>1, <2>1 DEF IInv, VerdictIsFinal
<1> QED
  BY <1>4, <1>5, <1>6, <1>7, <1>8

\* A call is refused.
LEMMA InvalidIInv ==
  ASSUME IInv, CallInvalid
  PROVE  CallTypes' /\ InSequence' /\ JobsExist' /\ JobsOutliveTasks' /\ VerdictIsFinal'
<1> USE FanOutAssumption DEF Call
<1>1. /\ phase = "idle" /\ call < NumCalls /\ call' = call + 1
      /\ ret' = [ret EXCEPT ![call + 1] = "-1"]
      /\ UNCHANGED <<num, phase, i, alive, succeed, poolVars>>
  BY DEF CallInvalid
<1>2. call + 1 \in Call /\ num[call + 1] = 0
  BY <1>1 DEF IInv, CallTypes, InSequence
<1>3. CallTypes' /\ InSequence'
  BY <1>1, <1>2 DEF IInv, CallTypes, InSequence
<1>4. JobsExist' /\ JobsOutliveTasks'
  BY <1>1 DEF IInv, JobsExist, JobsOutliveTasks, poolVars, Pool!Queued, Pool!Running
<1>5. VerdictIsFinal'
  <2>1. JobsOf(call + 1) = {} /\ \A n \in Call : JobsOf(n)' = JobsOf(n)
    BY <1>1, <1>2 DEF JobsOf
  <2> QED
    BY <1>1, <1>2, <2>1 DEF IInv, CallTypes, VerdictIsFinal
<1> QED
  BY <1>3, <1>4, <1>5

\* The call makes a job and enqueues it.
LEMMA EnqueueIInv ==
  ASSUME IInv, EnqueueJob
  PROVE  CallTypes' /\ InSequence' /\ JobsExist' /\ JobsOutliveTasks' /\ VerdictIsFinal'
<1> USE FanOutAssumption DEF Call
<1> DEFINE k == <<call, i>>
<1>1. /\ phase = "enqueue" /\ i <= num[call] /\ i' = i + 1
      /\ alive' = alive \cup {k} /\ succeed' = [succeed EXCEPT ![k] = FALSE]
      /\ Pool!Enqueue(TheCaller, k)
      /\ UNCHANGED <<call, num, phase, ret>>
  BY DEF EnqueueJob
<1>2. call \in Call /\ i \in Nat \ {0} /\ num[call] \in 0 .. MaxJobs /\ k \in JobId
  BY <1>1 DEF IInv, CallTypes, InSequence, JobId
<1>3. CallTypes'
  BY <1>1, <1>2 DEF IInv, CallTypes
<1>4. InSequence'
  BY <1>1 DEF IInv, InSequence
<1>5. JobsExist'
  <2>1. alive' = {call} \X (1 .. i)
    BY <1>1, <1>2 DEF IInv, JobsExist
  <2>2. i' - 1 = i /\ i' <= num[call] + 1
    BY <1>1, <1>2
  <2> QED
    BY <1>1, <2>1, <2>2 DEF JobsExist
<1>6. JobsOutliveTasks'
  <2>1. Pool!Queued' \cup Pool!Running' \subseteq Pool!Queued \cup Pool!Running \cup {k}
    <3>1. UNCHANGED <<wpc, job>> /\ (UNCHANGED tasks \/ tasks' = Append(tasks, k))
      BY <1>1 DEF Pool!Enqueue
    <3>2. tasks \in Seq(JobId)
      BY DEF IInv, PoolProofs!IInv, PoolProofs!TypeOK
    <3>3. Pool!Queued' \subseteq Pool!Queued \cup {k}
      BY <1>2, <3>1, <3>2 DEF Pool!Queued
    <3> QED
      BY <3>1, <3>3 DEF Pool!Running
  <2> QED
    BY <1>1, <2>1 DEF IInv, JobsOutliveTasks
<1>7. VerdictIsFinal'
  <2>1. \A n \in Call : /\ JobsOf(n)' = JobsOf(n)
                        /\ ret[n] # "none" => n # call
    BY <1>1, <1>2 DEF IInv, InSequence, JobsOf
  <2>2. \A n \in Call : n # call => \A m \in JobsOf(n) : m # k
    BY <1>2 DEF JobsOf
  <2>3. \A n \in Call : \A m \in JobsOf(n) : m \in JobId
    BY DEF IInv, CallTypes, JobsOf, JobId
  <2>4. \A n \in Call : ret[n] # "none" => \A m \in JobsOf(n) : succeed'[m] = succeed[m]
    BY <1>1, <2>1, <2>2, <2>3 DEF IInv, CallTypes
  <2> QED
    BY <1>1, <2>1, <2>4, VerdictKept DEF IInv
<1> QED
  BY <1>3, <1>4, <1>5, <1>6, <1>7

\* The call waits for its futures.
LEMMA GetIInv ==
  ASSUME IInv, GetBegin \/ GetResult
  PROVE  CallTypes' /\ InSequence' /\ JobsExist' /\ JobsOutliveTasks' /\ VerdictIsFinal'
<1>1. /\ UNCHANGED <<call, num, alive, succeed, ret, poolVars>>
      /\ phase # "idle" /\ phase' = "get" /\ i' \in Nat \ {0}
  BY DEF IInv, CallTypes, GetBegin, GetResult
<1>2. call \in Call /\ num[call] \in 0 .. MaxJobs
  BY <1>1 DEF IInv, CallTypes, InSequence
<1>3. CallTypes' /\ InSequence'
  BY <1>1 DEF IInv, CallTypes, InSequence
<1>4. JobsOutliveTasks'
  BY <1>1 DEF IInv, JobsOutliveTasks, poolVars, Pool!Queued, Pool!Running
<1>5. VerdictIsFinal'
  BY <1>1, VerdictKept DEF IInv, JobsOf
<1>6. JobsExist'
  <2>1. CASE GetBegin
    <3>1. phase = "enqueue" /\ i = num[call] + 1 /\ i' = 1
      BY <2>1 DEF GetBegin
    <3>2. alive = {call} \X (1 .. num[call])
      BY <1>2, <3>1 DEF IInv, JobsExist
    <3> QED
      BY <1>1, <1>2, <3>1, <3>2 DEF JobsExist, JobsOf
  <2>2. CASE GetResult
    <3>1. phase = "get" /\ i <= num[call] /\ <<call, i>> \in done /\ i' = i + 1
          /\ i \in Nat \ {0}
      BY <2>2 DEF GetResult, IInv, CallTypes
    <3>2. \A j \in 1 .. i' - 1 : j \in 1 .. i - 1 \/ j = i
      BY <3>1
    <3>3. UNCHANGED done
      BY <1>1 DEF poolVars
    <3> QED
      BY <1>1, <1>2, <3>1, <3>2, <3>3 DEF IInv, JobsExist, JobsOf
  <2> QED
    BY <2>1, <2>2
<1> QED
  BY <1>3, <1>4, <1>5, <1>6

\* When the loop over the futures is over no task of the call is left.
LEMMA ReturnIInv ==
  ASSUME IInv, CallReturn
  PROVE  CallTypes' /\ InSequence' /\ JobsExist' /\ JobsOutliveTasks' /\ VerdictIsFinal'
<1>1. /\ phase = "get" /\ i = num[call] + 1 /\ phase' = "idle"
      /\ ret' = [ret EXCEPT ![call] = IF \A k \in JobsOf(call) : succeed[k] THEN "0" ELSE "-1"]
      /\ alive' = alive \ JobsOf(call)
      /\ UNCHANGED <<call, num, i, succeed, poolVars>>
  BY DEF CallReturn
<1>2. call \in Call /\ num[call] \in 0 .. MaxJobs
  BY <1>1 DEF IInv, CallTypes, InSequence
<1>3. CallTypes'
  BY <1>1, <1>2 DEF IInv, CallTypes
<1>4. InSequence'
  BY <1>1, <1>2 DEF IInv, CallTypes, InSequence
<1>5. JobsExist'
  BY <1>1 DEF IInv, JobsExist
<1>6. JobsOutliveTasks'
  <2>1. JobsOf(call) \subseteq done
    BY <1>1, <1>2 DEF IInv, JobsExist, JobsOf
  <2>2. Pool!Queued \cup Pool!Running \subseteq JobsOf(call)
    BY <1>1 DEF IInv, JobsExist, JobsOutliveTasks
  <2>3. Pool!Queued \cup Pool!Running = {}
    BY <2>1, <2>2, DoneIsOver DEF IInv
  <2>4. Pool!Queued' = Pool!Queued /\ Pool!Running' = Pool!Running
    BY <1>1 DEF poolVars, Pool!Queued, Pool!Running
  <2> QED
    BY <2>3, <2>4 DEF JobsOutliveTasks
<1>7. VerdictIsFinal'
  <2> SUFFICES ASSUME NEW n \in Call, ret'[n] # "none", JobsOf(n)' # {}
               PROVE  ret'[n] = "0" <=> \A k \in JobsOf(n)' : succeed'[k]
    BY DEF VerdictIsFinal
  <2>1. JobsOf(n)' = JobsOf(n) /\ succeed' = succeed
    BY <1>1 DEF JobsOf
  <2>2. CASE n = call
    BY <1>1, <2>1, <2>2 DEF IInv, CallTypes
  <2>3. CASE n # call
    BY <1>1, <2>1, <2>3 DEF IInv, CallTypes, VerdictIsFinal
  <2> QED
    BY <2>2, <2>3
<1> QED
  BY <1>3, <1>4, <1>5, <1>6, <1>7

\* A worker runs a job of the current call.
LEMMA InvokeIInv ==
  ASSUME IInv, NEW w \in Worker, Invoke(w)
  PROVE  CallTypes' /\ InSequence' /\ JobsExist' /\ JobsOutliveTasks' /\ VerdictIsFinal'
<1>1. /\ wpc[w] = "running" /\ Pool!WorkerFinish(w)
      /\ UNCHANGED <<call, num, phase, i, alive, ret>>
  BY DEF Invoke
<1>2. PICK ok \in BOOLEAN : succeed' = [succeed EXCEPT ![job[w]] = ok]
  BY DEF Invoke
<1>3. /\ job[w] \in JobId /\ phase # "idle"
      /\ \E j \in 1 .. MaxJobs : job[w] = <<call, j>>
  BY <1>1, RunningIsCurrent
<1>4. CallTypes'
  BY <1>1, <1>2, <1>3 DEF IInv, CallTypes
<1>5. InSequence'
  BY <1>1 DEF IInv, InSequence
<1>6. JobsExist'
  BY <1>1, PoolTasks DEF IInv, PoolMove, JobsExist, JobsOf
<1>7. JobsOutliveTasks'
  BY <1>1, PoolTasks DEF IInv, PoolMove, JobsOutliveTasks
<1>8. VerdictIsFinal'
  <2>0. \A n \in Call : JobsOf(n) \subseteq JobId
    BY FanOutAssumption DEF IInv, CallTypes, JobsOf, JobId, Call
  <2>1. \A n \in Call : ret[n] # "none" => n # call
    BY <1>3 DEF IInv, InSequence, CallTypes, Call
  <2>2. \A n \in Call : n # call => job[w] \notin JobsOf(n)
    BY <1>3 DEF JobsOf
  <2>3. \A n \in Call : JobsOf(n)' = JobsOf(n)
    BY <1>1 DEF JobsOf
  <2>4. \A n \in Call : ret[n] # "none" => \A k \in JobsOf(n) : succeed'[k] = succeed[k]
    BY <1>2, <2>0, <2>1, <2>2 DEF IInv, CallTypes
  <2> QED
    BY <1>1, <2>3, <2>4, VerdictKept DEF IInv
<1> QED
  BY <1>4, <1>5, <1>6, <1>7, <1>8

\* The other steps of the pool move no job anywhere but from the queue to a worker.
LEMMA OtherIInv ==
  ASSUME IInv, PoolMove, UNCHANGED callVars
  PROVE  CallTypes' /\ InSequence' /\ JobsExist' /\ JobsOutliveTasks' /\ VerdictIsFinal'
<1>1. /\ done \subseteq done'
      /\ Pool!Queued' \cup Pool!Running' \subseteq Pool!Queued \cup Pool!Running
  BY PoolTasks DEF IInv
<1>2. CallTypes' /\ InSequence'
  BY DEF IInv, callVars, CallTypes, InSequence
<1>3. JobsExist'
  BY <1>1 DEF IInv, callVars, JobsExist, JobsOf
<1>4. JobsOutliveTasks'
  BY <1>1 DEF IInv, callVars, JobsOutliveTasks
<1>5. VerdictIsFinal'
  BY VerdictKept DEF IInv, callVars, JobsOf
<1> QED
  BY <1>2, <1>3, <1>4, <1>5

\* Every step preserves the invariant.
LEMMA NextIInv == IInv /\ [Next]_vars => IInv'
<1> SUFFICES ASSUME IInv, [Next]_vars PROVE IInv'
  OBVIOUS
<1>1. PoolProofs!IInv'
  BY PoolInvKept DEF IInv
<1>2. CASE CallBegin \/ CallInvalid \/ EnqueueJob \/ GetBegin \/ GetResult \/ CallReturn
  BY <1>1, <1>2, BeginIInv, InvalidIInv, EnqueueIInv, GetIInv, ReturnIInv DEF IInv
<1>3. ASSUME NEW w \in Worker, Invoke(w) PROVE IInv'
  BY <1>1, <1>3, InvokeIInv DEF IInv
<1>4. ASSUME EnqueueNotify \/ (\E w \in Worker : WorkerStep(w) \/ WorkerSpurious(w))
             \/ UNCHANGED vars
      PROVE  IInv'
  <2>1. PoolMove /\ UNCHANGED callVars
    BY <1>4 DEF PoolMove, EnqueueNotify, WorkerStep, WorkerSpurious, vars
  <2> QED
    BY <1>1, <2>1, OtherIInv DEF IInv
<1> QED
  BY <1>2, <1>3, <1>4 DEF Next, CallStep

\* The invariant holds in every reachable state.
LEMMA Invariance == Spec => []IInv
  BY InitIInv, NextIInv, PTL DEF Spec

\* For any numbers of workers, calls and jobs, and any answers of the downstream
\* functions, no task of the pool is left with a pointer to a Job of a call that
\* has returned (ComposeReview.cpp and marginBalance.cpp, the loop over results).
THEOREM JobsOutlive == Spec => []JobsOutliveTasks
<1>1. IInv => JobsOutliveTasks
  BY DEF IInv
<1> QED
  BY <1>1, Invariance, PTL

\* For any numbers of workers, calls and jobs, a call answers 0 exactly if all its
\* jobs succeeded, and no job changes its result after the answer.
THEOREM VerdictHolds == Spec => []VerdictIsFinal
<1>1. IInv => VerdictIsFinal
  BY DEF IInv
<1> QED
  BY <1>1, Invariance, PTL

\* For any numbers of workers, calls and jobs, every job of a call is run by one
\* worker, once.
THEOREM JobsRunOnce == Spec => []Pool!TaskInOnePlace
<1>1. PoolProofs!TaskInOnePlace => Pool!TaskInOnePlace
  BY SamePool DEF Pool!TaskInOnePlace, PoolProofs!TaskInOnePlace
<1>2. IInv => PoolProofs!TaskInOnePlace
  BY DEF IInv, PoolProofs!IInv
<1> QED
  BY <1>1, <1>2, Invariance, PTL
=============================================================================
