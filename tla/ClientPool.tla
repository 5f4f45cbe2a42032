----------------------------- MODULE ClientPool -----------------------------
(***************************************************************************)
(* ClientPool<TClient> of Experiments/02/common/ClientPool.h: the pool of  *)
(* memcached or Redis clients that every function worker thread of a       *)
(* process shares.                                                         *)
(*                                                                         *)
(* The code between taking _mtx and releasing it (or waiting on _cv, which *)
(* releases it) is one action.  A notify_one comes after the unlock and is *)
(* a step of its own, and so is Connect, which runs without the lock.  The *)
(* catch block of Connect pushes the client back without the lock: that    *)
(* push is split in two steps, and what another push_back in between does  *)
(* to the deque is a choice over the outcomes, a slot that nobody wrote    *)
(* among them.                                                             *)
(***************************************************************************)
EXTENDS Integers, Sequences, FiniteSets

CONSTANTS
  Thread,            \* function worker threads that share the pool
  Addr,              \* addresses at which a client object can be allocated
  MinPoolSize,       \* clients the constructor creates
  MaxPoolSize,       \* upper bound on clients that exist at the same time
  NoClient,          \* the null pointer
  MaxStale           \* bound: slots that racing push_backs leave unwritten

ASSUME PoolAssumption ==
  /\ MinPoolSize \in Nat
  /\ MaxPoolSize \in Nat \ {0}
  /\ MinPoolSize <= MaxPoolSize
  /\ NoClient \notin Addr
  /\ MaxStale \in Nat

ASSUME FiniteAssumption == IsFiniteSet(Thread) /\ IsFiniteSet(Addr)

VARIABLES
  pool,      \* _pool: the free clients, front first
  curr,      \* _curr_pool_size
  live,      \* the client objects constructed and not deleted
  pc,        \* where each thread is
  client,    \* the client pointer each thread has in hand
  overlap,   \* threads whose unlocked push_back another push_back ran into
  stale      \* slots of the deque that were counted but never written

VARIABLES
  threw,     \* history: has a Connect thrown?
  removed,   \* history: has a client been Removed?
  raced      \* history: has a push_back run into an unlocked one?

poolVars == <<pool, curr, live, pc, client, overlap, stale>>
vars == <<poolVars, threw, removed, raced>>

(***************************************************************************)
(* A thread is outside the pool ("idle"); blocked in wait_until            *)
(* ("waiting"); out of it and about to retake the mutex because it was     *)
(* notified ("woken") or its deadline passed ("timedout"); about to        *)
(* Connect the client it took ("connecting"); in the catch block           *)
(* ("repush", and "repushing" while the push_back runs); using the client  *)
(* Pop returned ("holding"); or between the unlock and the notify_one of   *)
(* Push ("notify").                                                        *)
(***************************************************************************)
Location == {"idle", "waiting", "woken", "timedout", "connecting",
             "repush", "repushing", "holding", "notify"}

HasClient == {"connecting", "repush", "repushing", "holding"}

Waiting == {t \in Thread : pc[t] = "waiting"}

\* _curr_pool_size stays within the limit; that it stays above 0 too needs that
\* no client is Removed twice, which a slot left by a race makes possible.
TypeOK ==
  /\ pool \in Seq(Addr)
  /\ curr \in Int /\ curr <= MaxPoolSize /\ (~raced => 0 <= curr)
  /\ live \in SUBSET Addr
  /\ pc \in [Thread -> Location]
  /\ client \in [Thread -> Addr \cup {NoClient}]
  /\ overlap \in SUBSET Thread
  /\ stale \in 0 .. MaxStale
  /\ threw \in BOOLEAN /\ removed \in BOOLEAN /\ raced \in BOOLEAN

Init ==
  /\ pool \in [1 .. MinPoolSize -> Addr]
  /\ \A i, j \in 1 .. MinPoolSize : pool[i] = pool[j] => i = j
  /\ curr = MinPoolSize
  /\ live = {pool[i] : i \in 1 .. MinPoolSize}
  /\ pc = [t \in Thread |-> "idle"]
  /\ client = [t \in Thread |-> NoClient]
  /\ overlap = {} /\ stale = 0
  /\ threw = FALSE /\ removed = FALSE /\ raced = FALSE

Goto(t, loc) == pc' = [pc EXCEPT ![t] = loc]

-----------------------------------------------------------------------------
(* Pop, with the mutex held.                                               *)

\* Mutant of TakeFront: the front is read but not popped.
TakeFrontPeek(t) ==
  /\ pool # <<>>
  /\ client' = [client EXCEPT ![t] = Head(pool)]
  /\ Goto(t, "connecting")
  /\ UNCHANGED <<pool, curr, live, overlap, stale>>

TakeFront(t) ==
  /\ pool # <<>>
  /\ client' = [client EXCEPT ![t] = Head(pool)]
  /\ pool' = Tail(pool)
  /\ Goto(t, "connecting")
  /\ UNCHANGED <<curr, live, overlap, stale>>

\* Mutant of NewClient: the cap is not tested.
NewClientUncapped(t) ==
  /\ pool = <<>>
  /\ \E a \in Addr \ live :
        /\ client' = [client EXCEPT ![t] = a]
        /\ live' = live \cup {a}
  /\ curr' = curr + 1
  /\ Goto(t, "connecting")
  /\ UNCHANGED <<pool, overlap, stale>>

NewClient(t) ==
  /\ pool = <<>> /\ curr < MaxPoolSize
  /\ \E a \in Addr \ live :
        /\ client' = [client EXCEPT ![t] = a]
        /\ live' = live \cup {a}
  /\ curr' = curr + 1
  /\ Goto(t, "connecting")
  /\ UNCHANGED <<pool, overlap, stale>>

\* The constructor throws: Pop answers nullptr.
NewClientThrows(t) ==
  /\ pool = <<>> /\ curr < MaxPoolSize
  /\ Goto(t, "idle")
  /\ UNCHANGED <<pool, curr, live, client, overlap, stale>>

StartWait(t) ==
  /\ pool = <<>> /\ curr >= MaxPoolSize
  /\ Goto(t, "waiting")
  /\ UNCHANGED <<pool, curr, live, client, overlap, stale>>

\* A call of Pop up to the point where it releases the mutex.
Pop(t) ==
  /\ pc[t] = "idle"
  /\ TakeFront(t) \/ NewClient(t) \/ NewClientThrows(t) \/ StartWait(t)

\* wait_until returns to the mutex without a notification: a spurious wake-up.
SpuriousWake(t) ==
  /\ pc[t] = "waiting"
  /\ Goto(t, "woken")
  /\ UNCHANGED <<pool, curr, live, client, overlap, stale>>

\* The deadline of wait_until passes.
Timeout(t) ==
  /\ pc[t] = "waiting"
  /\ Goto(t, "timedout")
  /\ UNCHANGED <<pool, curr, live, client, overlap, stale>>

\* A woken thread evaluates the predicate of wait_until: with a client in the
\* pool it leaves the loop, with none it waits for the rest of its time.
WokenResume(t) ==
  /\ pc[t] = "woken"
  /\ \/ TakeFront(t)
     \/ /\ pool = <<>>
        /\ Goto(t, "waiting")
        /\ UNCHANGED <<pool, curr, live, client, overlap, stale>>

\* Mutant of TimedoutResume: the predicate is not evaluated after a timeout.
TimedoutNoRecheck(t) ==
  /\ pc[t] = "timedout"
  /\ Goto(t, "idle")
  /\ UNCHANGED <<pool, curr, live, client, overlap, stale>>

\* Mutant of TimedoutResume: the outer loop is entered again with a new deadline.
TimedoutRetries(t) ==
  /\ pc[t] = "timedout"
  /\ \/ TakeFront(t)
     \/ /\ pool = <<>>
        /\ Goto(t, "waiting")
        /\ UNCHANGED <<pool, curr, live, client, overlap, stale>>

\* So does a thread that timed out, but if the pool is empty Pop answers nullptr.
TimedoutResume(t) ==
  /\ pc[t] = "timedout"
  /\ \/ TakeFront(t)
     \/ /\ pool = <<>>
        /\ Goto(t, "idle")
        /\ UNCHANGED <<pool, curr, live, client, overlap, stale>>

-----------------------------------------------------------------------------
(* The rest of Pop, without the mutex.                                     *)

Connect(t) ==
  /\ pc[t] = "connecting"
  /\ \/ Goto(t, "holding")
     \/ Goto(t, "repush")                 \* it throws
  /\ UNCHANGED <<pool, curr, live, client, overlap, stale>>

\* catch (...) { _pool.push_back(client); throw; } has neither lock nor notify.
RepushBegin(t) ==
  /\ pc[t] = "repush"
  /\ Goto(t, "repushing")
  /\ UNCHANGED <<pool, curr, live, client, overlap, stale>>

\* Any push_back marks the unlocked ones it overlaps with.
MarkOverlap(t) ==
  overlap' = (overlap \ {t}) \cup {u \in Thread \ {t} : pc[u] = "repushing"}

(***************************************************************************)
(* What may be left of a push_back that others ran into.  It wrote its     *)
(* client to a slot that another push_back wrote too (k), or lost that     *)
(* slot to the other (k = 0), and the size it wrote back is its own view   *)
(* of it.  So elements may be missing at the end, or there is one more     *)
(* than was written: two push_backs used one slot, both were counted, and  *)
(* the slot after it still holds whatever was there, a client somebody has *)
(* or one deleted long ago.  Which slots are hit is left open, beyond what *)
(* the number of push_backs would allow.                                   *)
(***************************************************************************)
RacedPush(t) ==
  \E k \in 0 .. Len(pool) :
    LET written == [i \in 1 .. Len(pool) |-> IF i = k THEN client[t] ELSE pool[i]]
    IN  \/ /\ \E n \in 0 .. Len(pool) : pool' = SubSeq(written, 1, n)
           /\ UNCHANGED stale
        \/ /\ stale < MaxStale
           /\ \E a \in Addr : pool' = Append(written, a)
           /\ stale' = stale + 1

RepushEnd(t) ==
  /\ pc[t] = "repushing"
  /\ \/ pool' = Append(pool, client[t]) /\ UNCHANGED stale
     \/ t \in overlap /\ RacedPush(t)
  /\ client' = [client EXCEPT ![t] = NoClient]
  /\ Goto(t, "idle")
  /\ MarkOverlap(t)
  /\ UNCHANGED <<curr, live>>

-----------------------------------------------------------------------------
(* Push and Remove, called with a client that Pop returned.                *)

\* Mutant of Push: the notify_one is missing.
PushSilently(t) ==
  /\ pc[t] = "holding"
  /\ pool' = Append(pool, client[t])
  /\ client' = [client EXCEPT ![t] = NoClient]
  /\ Goto(t, "idle")
  /\ MarkOverlap(t)
  /\ UNCHANGED <<curr, live, stale>>

Push(t) ==
  /\ pc[t] = "holding"
  /\ pool' = Append(pool, client[t])
  /\ client' = [client EXCEPT ![t] = NoClient]
  /\ Goto(t, "notify")
  /\ MarkOverlap(t)
  /\ UNCHANGED <<curr, live, stale>>

\* _cv.notify_one(): one of the waiting threads, if there is one, is woken.
NotifyOne(t) ==
  /\ pc[t] = "notify"
  /\ \/ /\ Waiting = {}
        /\ Goto(t, "idle")
     \/ \E u \in Waiting : pc' = [pc EXCEPT ![t] = "idle", ![u] = "woken"]
  /\ UNCHANGED <<pool, curr, live, client, overlap, stale>>

\* Mutant of Remove: the size is not lowered.
RemoveUncounted(t) ==
  /\ pc[t] = "holding"
  /\ live' = live \ {client[t]}
  /\ client' = [client EXCEPT ![t] = NoClient]
  /\ Goto(t, "idle")
  /\ UNCHANGED <<pool, curr, overlap, stale>>

Remove(t) ==
  /\ pc[t] = "holding"
  /\ live' = live \ {client[t]}
  /\ client' = [client EXCEPT ![t] = NoClient]
  /\ curr' = curr - 1
  /\ Goto(t, "idle")
  /\ UNCHANGED <<pool, overlap, stale>>

-----------------------------------------------------------------------------
PopStep(t) == WokenResume(t) \/ TimedoutResume(t) \/ Connect(t)
              \/ RepushBegin(t) \/ RepushEnd(t)

ThreadStep(t) == \/ Pop(t) \/ SpuriousWake(t) \/ Timeout(t) \/ PopStep(t)
                 \/ Push(t) \/ NotifyOne(t) \/ Remove(t)

Next ==
  /\ \E t \in Thread : ThreadStep(t)
  /\ threw' = (threw \/ \E t \in Thread : pc'[t] = "repush")
  /\ removed' = (removed \/ curr' < curr)
  /\ raced' = (raced \/ overlap' # {})

(***************************************************************************)
(* A thread inside Pop or Push keeps running, and deadlines pass: they are *)
(* absolute, so a spurious wake-up does not postpone them (hence SF).  No  *)
(* caller is assumed to call Pop, or ever to give a client back.           *)
(***************************************************************************)
Fairness ==
  \A t \in Thread : /\ WF_poolVars(PopStep(t))
                    /\ WF_poolVars(NotifyOne(t))
                    /\ SF_poolVars(Timeout(t))

Spec == Init /\ [][Next]_vars

FairSpec == Spec /\ Fairness

-----------------------------------------------------------------------------
(* Properties.                                                             *)

Free == {pool[i] : i \in 1 .. Len(pool)}

InHand == {client[t] : t \in {u \in Thread : pc[u] \in HasClient}}

\* Until a push_back runs into an unlocked one, a client is in one place: the
\* deque holds no client twice and none that a thread has in hand, no two threads
\* have the same one, and none of them has been deleted.  This is what makes it
\* safe to use a client without the lock, and a single Connect that throws, with
\* its unlocked push_back, leaves it so.  Two push_backs at once need not.
ExclusiveOwnership ==
  ~raced =>
    /\ \A i, j \in 1 .. Len(pool) : pool[i] = pool[j] => i = j
    /\ \A t \in Thread : pc[t] \in HasClient => client[t] \in live \ Free
    /\ \A t, u \in Thread :
          pc[t] \in HasClient /\ pc[u] \in HasClient /\ client[t] = client[u] => t = u
    /\ Free \subseteq live

\* Until then _curr_pool_size is the number of clients that exist, so the cap it
\* is compared with in Pop is a cap on clients; and every one of them can still
\* be reached, a throw or not: none has dropped out of the pool, which would
\* shrink it for good.
PoolAccounting ==
  ~raced =>
    /\ Cardinality(live) = curr
    /\ live = Free \cup InHand

\* Threads that will look at the deque, or wake one that will, without waiting
\* for anybody else.
InMotion == {t \in Thread : pc[t] \in {"woken", "timedout", "notify"}}

\* While a thread sleeps in Pop, every free client has somebody on the way to
\* it: the notify_one after the unlock in Push is never lost.  (The push_back of
\* the catch block notifies nobody, so this ends with the first Connect that throws.)
NoLostWakeup ==
  ~threw /\ Waiting # {} => Len(pool) <= Cardinality(InMotion)

\* Pop's timeout answers nullptr only when there is no client to be had: none is
\* free and there is no room for a new one.  (Remove makes room and wakes nobody,
\* so the second half holds until the first one.)
GivesUp(t) == pc[t] = "timedout" /\ pc'[t] = "idle"

GiveUpOnlyWhenExhausted ==
  [][\A t \in Thread : GivesUp(t) =>
        pool = <<>> /\ (~removed => curr = MaxPoolSize)]_vars

\* A thread that blocked in Pop comes out of it, with or without a client, even
\* if no client is ever given back and whatever wake-ups it gets.
PopReturns ==
  \A t \in Thread : pc[t] = "waiting" ~> pc[t] \in {"idle", "holding"}

\* Behind its lock, free list and timers the pool is a bounded resource, until a
\* push_back runs into an unlocked one: callers of Pop hold distinct clients, at
\* most MaxPoolSize of them.
Promise == INSTANCE BoundedPool WITH
  owned <- [t \in Thread |-> IF pc[t] = "holding" THEN client[t] ELSE NoClient],
  broken <- raced

ImplementsBoundedPool == Promise!Spec
=============================================================================
