------------------------------- MODULE FanOut -------------------------------
(***************************************************************************)
(* The front ends that fan out over a ThreadPool: the review application's *)
(* (02, 0_ComposeReviewService/ComposeReview.cpp), which calls three       *)
(* functions, and FINRA's (11, stage_1/marginBalance.cpp), which calls as  *)
(* many audits as the request asks for.  Each faas_func_call makes one job *)
(* per function, hands them to the worker's pool, waits for all futures    *)
(* and answers 0 only if every job succeeded.  The jobs are locals of the  *)
(* call; the tasks hold raw pointers to them.  A function worker handles   *)
(* one call at a time and its pool is never destroyed.                     *)
(***************************************************************************)
EXTENDS Naturals, Sequences, FiniteSets

CONSTANTS
  Worker,     \* threads of the pool (4 in 02, 80 in 11)
  FanOutNum,  \* downstream functions per call: {3} in 02, what clients ask for in 11
  MaxJobs,    \* the largest of them
  NumCalls,   \* bound: calls of faas_func_call
  NoTask, TheCaller

ASSUME FanOutAssumption ==
  /\ MaxJobs \in Nat /\ FanOutNum \subseteq 0 .. MaxJobs /\ NumCalls \in Nat
  /\ IsFiniteSet(Worker) /\ Worker # {}
  /\ NoTask \notin (1 .. NumCalls) \X (1 .. MaxJobs)

VARIABLES tasks, stop, wpc, job, cpc, owner, done, rejected

VARIABLES
  call,      \* number of the current, or last, call
  num,       \* how many functions each call is to invoke
  phase,     \* where that call is: "idle", "enqueue" or "get"
  i,         \* index of its for loop
  alive,     \* the Job objects that exist
  succeed,   \* what job->succeed was last set to, kept after the job is gone
  ret        \* what each call returned

Call == 1 .. NumCalls
JobId == Call \X (1 .. MaxJobs)

Pool == INSTANCE ThreadPool WITH Caller <- {TheCaller}, Task <- JobId

poolVars == <<tasks, stop, wpc, job, cpc, owner, done, rejected>>
callVars == <<call, num, phase, i, alive, succeed, ret>>
vars == <<poolVars, callVars>>

JobsOf(n) == {n} \X (1 .. num[n])

Init ==
  /\ Pool!Init
  /\ call = 0 /\ num = [n \in Call |-> 0] /\ phase = "idle" /\ i = 1
  /\ alive = {}
  /\ succeed = [k \in JobId |-> FALSE]
  /\ ret = [n \in Call |-> "none"]

\* The request is valid: the loop over the functions to call starts.
CallBegin ==
  /\ phase = "idle" /\ call < NumCalls
  /\ call' = call + 1
  /\ \E k \in FanOutNum : num' = [num EXCEPT ![call + 1] = k]
  /\ phase' = "enqueue" /\ i' = 1
  /\ UNCHANGED <<alive, succeed, ret, poolVars>>

\* A field is missing from the request: -1, and nothing is enqueued.
CallInvalid ==
  /\ phase = "idle" /\ call < NumCalls
  /\ call' = call + 1
  /\ ret' = [ret EXCEPT ![call + 1] = "-1"]
  /\ UNCHANGED <<num, phase, i, alive, succeed, poolVars>>

\* One turn of the loop: make_shared<Job>(..., false), then enqueue(invoke, job).
EnqueueJob ==
  /\ phase = "enqueue" /\ i <= num[call]
  /\ alive' = alive \cup {<<call, i>>}
  /\ succeed' = [succeed EXCEPT ![<<call, i>>] = FALSE]
  /\ Pool!Enqueue(TheCaller, <<call, i>>)
  /\ i' = i + 1
  /\ UNCHANGED <<call, num, phase, ret>>

EnqueueNotify == Pool!NotifyOne(TheCaller) /\ UNCHANGED callVars

GetBegin ==
  /\ phase = "enqueue" /\ i = num[call] + 1 /\ cpc[TheCaller] = "idle"
  /\ phase' = "get" /\ i' = 1
  /\ UNCHANGED <<call, num, alive, succeed, ret, poolVars>>

\* Mutant of GetResult: get() that does not wait for the future.
GetResultNoWait ==
  /\ phase = "get" /\ i <= num[call]
  /\ i' = i + 1
  /\ UNCHANGED <<call, num, phase, alive, succeed, ret, poolVars>>

\* result.get() returns when the task behind the future has run.
GetResult ==
  /\ phase = "get" /\ i <= num[call]
  /\ <<call, i>> \in done
  /\ i' = i + 1
  /\ UNCHANGED <<call, num, phase, alive, succeed, ret, poolVars>>

\* Mutant of CallReturn: only the last job is looked at.
CallReturnLast ==
  /\ phase = "get" /\ i = num[call] + 1
  /\ ret' = [ret EXCEPT ![call] =
               IF num[call] = 0 \/ succeed[<<call, num[call]>>] THEN "0" ELSE "-1"]
  /\ alive' = alive \ JobsOf(call)
  /\ phase' = "idle"
  /\ UNCHANGED <<call, num, i, succeed, poolVars>>

\* All jobs are examined, and destroyed when the call returns.
CallReturn ==
  /\ phase = "get" /\ i = num[call] + 1
  /\ ret' = [ret EXCEPT ![call] =
               IF \A k \in JobsOf(call) : succeed[k] THEN "0" ELSE "-1"]
  /\ alive' = alive \ JobsOf(call)
  /\ phase' = "idle"
  /\ UNCHANGED <<call, num, i, succeed, poolVars>>

\* invoke: the downstream function answers, and job->succeed is written through
\* the pointer the task was bound to.
Invoke(w) ==
  /\ wpc[w] = "running"
  /\ \E ok \in BOOLEAN : succeed' = [succeed EXCEPT ![job[w]] = ok]
  /\ Pool!WorkerFinish(w)
  /\ UNCHANGED <<call, num, phase, i, alive, ret>>

WorkerStep(w) == Pool!WorkerLock(w) /\ UNCHANGED callVars

WorkerSpurious(w) == Pool!WorkerSpurious(w) /\ UNCHANGED callVars

CallStep == EnqueueJob \/ EnqueueNotify \/ GetBegin \/ GetResult \/ CallReturn

Next ==
  \/ CallBegin \/ CallInvalid \/ CallStep
  \/ \E w \in Worker : Invoke(w) \/ WorkerStep(w) \/ WorkerSpurious(w)

\* Threads run, and invoke_func_fn answers, with a result or with an error.
Fairness ==
  /\ WF_vars(CallStep)
  /\ \A w \in Worker : SF_vars(WorkerStep(w)) /\ WF_vars(Invoke(w))

Spec == Init /\ [][Next]_vars
FairSpec == Spec /\ Fairness

-----------------------------------------------------------------------------
(* Properties.                                                             *)

\* A task that is queued or running points to a Job that still exists: no call
\* returns, and destroys its jobs, before its last task has run.
JobsOutliveTasks == Pool!Queued \cup Pool!Running \subseteq alive

\* The answer of a call is right for good: 0 exactly if all its downstream
\* functions succeeded, with no late job changing the outcome afterwards.  (A
\* call that was refused, or asked for no function, has no jobs.)
VerdictIsFinal ==
  \A n \in Call : ret[n] # "none" /\ JobsOf(n) # {} =>
     (ret[n] = "0" <=> \A k \in JobsOf(n) : succeed[k])

\* With any number of workers, more jobs than workers included, a call returns.
CallReturns == phase = "enqueue" ~> phase = "idle"
=============================================================================
