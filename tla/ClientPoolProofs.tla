-------------------------- MODULE ClientPoolProofs --------------------------
(***************************************************************************)
(* Proofs about ClientPool for any number of threads, any pool sizes and   *)
(* any faults: until a push_back runs into an unlocked one a client is     *)
(* never in two places, the size the pool keeps is the number of clients   *)
(* that exist, none of them drops out of the pool, and the pool implements *)
(* BoundedPool; no wake-up is lost before a Connect has thrown; and Pop    *)
(* gives up only when there is nothing to be had, races or not.            *)
(***************************************************************************)
EXTENDS ClientPool, FiniteSetTheorems, TLAPS

Elems(s) == {s[i] : i \in 1 .. Len(s)}

Distinct(s) == \A i, j \in 1 .. Len(s) : s[i] = s[j] => i = j

-----------------------------------------------------------------------------
(* What pop_front and push_back do to the elements of a deque.             *)

\* Popping the front of a deque without duplicates takes away exactly that
\* element.
LEMMA TailElems ==
  ASSUME NEW S, NEW s \in Seq(S), s # <<>>, Distinct(s)
  PROVE  /\ Head(s) \in Elems(s)
         /\ Tail(s) \in Seq(S)
         /\ Elems(Tail(s)) = Elems(s) \ {Head(s)}
         /\ Distinct(Tail(s))
<1>1. /\ Len(s) \in Nat \ {0}
      /\ Head(s) = s[1]
      /\ Tail(s) \in Seq(S)
      /\ Len(Tail(s)) = Len(s) - 1
      /\ \A i \in 1 .. Len(s) - 1 : Tail(s)[i] = s[i + 1]
  OBVIOUS
<1>2. Elems(Tail(s)) \subseteq Elems(s) \ {Head(s)}
  BY <1>1 DEF Elems, Distinct
<1>3. ASSUME NEW x \in Elems(s) \ {Head(s)}
      PROVE  x \in Elems(Tail(s))
  <2>1. PICK i \in 1 .. Len(s) : x = s[i]
    BY DEF Elems
  <2>2. i - 1 \in 1 .. Len(s) - 1
    BY <1>1, <2>1
  <2>3. (i - 1) + 1 = i
    BY <2>1
  <2>4. Tail(s)[i - 1] = s[i]
    BY <1>1, <2>2, <2>3
  <2> QED
    BY <1>1, <2>1, <2>2, <2>4 DEF Elems
<1>4. Distinct(Tail(s))
  BY <1>1 DEF Distinct
<1>5. Head(s) \in Elems(s)
  BY <1>1 DEF Elems
<1> QED
  BY <1>1, <1>2, <1>3, <1>4, <1>5

\* Pushing an element that is not in the deque.
LEMMA AppendElems ==
  ASSUME NEW S, NEW s \in Seq(S), NEW x \in S
  PROVE  /\ Append(s, x) \in Seq(S)
         /\ Elems(Append(s, x)) = Elems(s) \cup {x}
         /\ Distinct(s) /\ x \notin Elems(s) => Distinct(Append(s, x))
<1>1. /\ Len(s) \in Nat
      /\ Append(s, x) \in Seq(S)
      /\ Len(Append(s, x)) = Len(s) + 1
      /\ \A i \in 1 .. Len(s) : Append(s, x)[i] = s[i]
      /\ Append(s, x)[Len(s) + 1] = x
  OBVIOUS
<1>2. Elems(Append(s, x)) \subseteq Elems(s) \cup {x}
  BY <1>1 DEF Elems
<1>3. Elems(s) \cup {x} \subseteq Elems(Append(s, x))
  <2>1. Elems(s) \subseteq Elems(Append(s, x))
    BY <1>1 DEF Elems
  <2>2. x \in Elems(Append(s, x))
    BY <1>1 DEF Elems
  <2> QED
    BY <2>1, <2>2
<1>4. Distinct(s) /\ x \notin Elems(s) => Distinct(Append(s, x))
  BY <1>1 DEF Distinct, Elems
<1> QED
  BY <1>1, <1>2, <1>3, <1>4

\* Writing to one slot, cutting the end off and adding an element that was in the
\* slot after the last one all leave a deque of clients.
LEMMA RacedDeque ==
  ASSUME NEW S, NEW s \in Seq(S), NEW x \in S, NEW a \in S,
         NEW k \in 0 .. Len(s), NEW n \in 0 .. Len(s)
  PROVE  LET f == [i \in 1 .. Len(s) |-> IF i = k THEN x ELSE s[i]]
         IN  SubSeq(f, 1, n) \in Seq(S) /\ Append(f, a) \in Seq(S)
<1> DEFINE f == [i \in 1 .. Len(s) |-> IF i = k THEN x ELSE s[i]]
<1>1. Len(s) \in Nat /\ \A i \in 1 .. Len(s) : s[i] \in S
  OBVIOUS
<1>2. f \in Seq(S) /\ Len(f) = Len(s)
  BY <1>1
<1> HIDE DEF f
<1>3. SubSeq(f, 1, n) \in Seq(S) /\ Append(f, a) \in Seq(S)
  BY <1>1, <1>2
<1> QED
  BY <1>3 DEF f

-----------------------------------------------------------------------------
(***************************************************************************)
(* The inductive invariant has two parts.  Basic holds whatever races      *)
(* happen: the types, that a thread with a client in hand has an address,  *)
(* that nobody is in the catch block before a throw, and that an overlap   *)
(* is remembered.  Core is what a race destroys: the exclusive ownership,  *)
(* which by itself is not inductive, since that a new client is at a fresh *)
(* address needs the accounting of live.                                   *)
(***************************************************************************)
Types ==
  /\ pool \in Seq(Addr)
  /\ curr \in Int /\ curr <= MaxPoolSize
  /\ live \in SUBSET Addr
  /\ pc \in [Thread -> Location]
  /\ client \in [Thread -> Addr \cup {NoClient}]
  /\ overlap \in SUBSET Thread
  /\ stale \in 0 .. MaxStale

HistoryTypes == threw \in BOOLEAN /\ removed \in BOOLEAN /\ raced \in BOOLEAN

InHandIsAddr == \A t \in Thread : pc[t] \in HasClient => client[t] \in Addr

NoCatch ==
  ~threw => \A t \in Thread : pc[t] \notin {"repush", "repushing"}

OverlapKnown == ~raced => overlap = {}

Basic == Types /\ HistoryTypes /\ InHandIsAddr /\ NoCatch /\ OverlapKnown

Exclusive ==
  /\ Distinct(pool)
  /\ \A t \in Thread : pc[t] \in HasClient => client[t] \in live \ Free
  /\ \A t, u \in Thread :
        pc[t] \in HasClient /\ pc[u] \in HasClient /\ client[t] = client[u] => t = u
  /\ Free \subseteq live

Accounted == Cardinality(live) = curr /\ live = Free \cup InHand

Core == Exclusive /\ Accounted

IInv == Basic /\ (~raced => Core)

\* The two ways of naming the clients in the deque.
LEMMA FreeIsElems == Free = Elems(pool)
  BY DEF Free, Elems

\* There are finitely many clients at any time.
LEMMA LiveFinite == Types => IsFiniteSet(live)
  BY FiniteAssumption, FS_Subset DEF Types

\* The constructor establishes the invariant.
LEMMA InitIInv == Init => IInv
<1> SUFFICES ASSUME Init PROVE IInv
  OBVIOUS
<1> USE PoolAssumption DEF Init
<1>1. pool \in Seq(Addr) /\ Len(pool) = MinPoolSize
  OBVIOUS
<1>2. Basic
  <2>1. HistoryTypes
    BY DEF HistoryTypes
  <2>2. Types
    BY <1>1 DEF Types, Location
  <2>3. InHandIsAddr /\ NoCatch /\ OverlapKnown
    BY DEF InHandIsAddr, NoCatch, OverlapKnown, HasClient
  <2> QED
    BY <2>1, <2>2, <2>3 DEF Basic
<1>3. InHand = {}
  BY DEF InHand, HasClient
<1>4. Free = live
  BY <1>1 DEF Free
<1>5. Exclusive
  BY <1>1, <1>4 DEF Exclusive, Distinct, HasClient
<1>6. Cardinality(live) = MinPoolSize
  <2>1. pool \in Bijection(1 .. MinPoolSize, live)
    BY DEF Bijection, Injection, Surjection, IsInjective
  <2>2. IsFiniteSet(1 .. MinPoolSize) /\ Cardinality(1 .. MinPoolSize) = MinPoolSize
    BY FS_Interval
  <2> QED
    BY <2>1, <2>2, FS_Bijection DEF ExistsBijection
<1>7. Accounted
  BY <1>3, <1>4, <1>6 DEF Accounted
<1> QED
  BY <1>2, <1>5, <1>7 DEF IInv, Core

-----------------------------------------------------------------------------
(* What holds whatever races happen.                                       *)

\* Taking a client, from the deque or by constructing one, keeps the types.
LEMMA TakeTypes ==
  ASSUME Basic, NEW t \in Thread, pc[t] \notin HasClient, TakeFront(t) \/ NewClient(t)
  PROVE  /\ Types' /\ InHandIsAddr' /\ overlap' = overlap
         /\ \A u \in Thread : pc'[u] \in {"repush", "repushing"} => pc'[u] = pc[u]
<1> USE DEF Goto
<1>0. Types /\ InHandIsAddr
  BY DEF Basic
<1>1. \E a \in Addr :
        /\ client' = [client EXCEPT ![t] = a]
        /\ pc' = [pc EXCEPT ![t] = "connecting"]
        /\ UNCHANGED <<overlap, stale>>
        /\ pool' \in Seq(Addr) /\ live' \in SUBSET Addr
        /\ curr' \in Int /\ curr' <= MaxPoolSize
  <2>1. CASE TakeFront(t)
    <3>1. Head(pool) \in Addr /\ Tail(pool) \in Seq(Addr)
      BY <1>0, <2>1 DEF TakeFront, Types
    <3> QED
      BY <1>0, <2>1, <3>1 DEF TakeFront, Types
  <2>2. CASE NewClient(t)
    <3>1. PICK a \in Addr \ live : /\ client' = [client EXCEPT ![t] = a]
                                   /\ live' = live \cup {a}
      BY <2>2 DEF NewClient
    <3>2. curr' \in Int /\ curr' <= MaxPoolSize
      BY <1>0, <2>2, PoolAssumption DEF NewClient, Types
    <3> QED
      BY <1>0, <2>2, <3>1, <3>2 DEF NewClient, Types
  <2> QED
    BY <2>1, <2>2
<1>2. PICK a \in Addr :
        /\ client' = [client EXCEPT ![t] = a]
        /\ pc' = [pc EXCEPT ![t] = "connecting"]
        /\ UNCHANGED <<overlap, stale>>
        /\ pool' \in Seq(Addr) /\ live' \in SUBSET Addr
        /\ curr' \in Int /\ curr' <= MaxPoolSize
  BY <1>1
<1>3. Types'
  BY <1>0, <1>2 DEF Types, Location
<1> QED
  BY <1>0, <1>2, <1>3 DEF Types, InHandIsAddr, HasClient

\* Putting a client back, with whatever a race makes of it, or deleting it.
LEMMA GiveTypes ==
  ASSUME Basic, NEW t \in Thread, RepushEnd(t) \/ Push(t) \/ Remove(t)
  PROVE  /\ Types' /\ InHandIsAddr'
         /\ \A u \in Thread : pc'[u] \in {"repush", "repushing"} => pc'[u] = pc[u]
<1> USE DEF Goto
<1>0. Types /\ InHandIsAddr /\ client[t] \in Addr
  BY DEF Basic, InHandIsAddr, HasClient, RepushEnd, Push, Remove
<1>1. PICK loc \in {"idle", "notify"} : pc' = [pc EXCEPT ![t] = loc]
  BY DEF RepushEnd, Push, Remove
<1>2. client' = [client EXCEPT ![t] = NoClient] /\ live' \in SUBSET Addr
  BY <1>0 DEF RepushEnd, Push, Remove, Types
<1>3. curr' \in Int /\ curr' <= MaxPoolSize
  BY <1>0, PoolAssumption DEF RepushEnd, Push, Remove, Types
<1>4. overlap' \in SUBSET Thread
  BY <1>0 DEF RepushEnd, Push, Remove, MarkOverlap, Types
<1>5. pool' \in Seq(Addr) /\ stale' \in 0 .. MaxStale
  <2>1. CASE UNCHANGED <<pool, stale>>
    BY <1>0, <2>1 DEF Types
  <2>2. CASE pool' = Append(pool, client[t]) /\ UNCHANGED stale
    BY <1>0, <2>2 DEF Types
  <2>3. CASE RacedPush(t)
    <3>1. PICK k \in 0 .. Len(pool) :
            LET written == [i \in 1 .. Len(pool) |-> IF i = k THEN client[t] ELSE pool[i]]
            IN  \/ /\ \E n \in 0 .. Len(pool) : pool' = SubSeq(written, 1, n)
                   /\ UNCHANGED stale
                \/ /\ stale < MaxStale
                   /\ \E a \in Addr : pool' = Append(written, a)
                   /\ stale' = stale + 1
      BY <2>3 DEF RacedPush
    <3> DEFINE written == [i \in 1 .. Len(pool) |-> IF i = k THEN client[t] ELSE pool[i]]
    <3>2. \A n \in 0 .. Len(pool), a \in Addr :
            SubSeq(written, 1, n) \in Seq(Addr) /\ Append(written, a) \in Seq(Addr)
      BY <1>0, RacedDeque DEF Types
    <3>3. \A n \in 0 .. Len(pool) : SubSeq(written, 1, n) \in Seq(Addr)
      BY <1>0, <3>2
    <3>4. stale' \in 0 .. MaxStale
      BY <1>0, <3>1, PoolAssumption DEF Types
    <3>5. 0 \in 0 .. Len(pool)
      BY <1>0 DEF Types
    <3> HIDE DEF written
    <3>6. pool' \in Seq(Addr)
      BY <3>1, <3>2, <3>3, <3>5 DEF written
    <3> QED
      BY <3>4, <3>6
  <2> QED
    BY <2>1, <2>2, <2>3 DEF RepushEnd, Push, Remove
<1>6. Types'
  BY <1>0, <1>1, <1>2, <1>3, <1>4, <1>5 DEF Types, Location
<1> QED
  BY <1>0, <1>1, <1>2, <1>6 DEF Types, InHandIsAddr, HasClient

\* A step that moves threads without giving or taking a client.
LEMMA MoveTypes ==
  ASSUME Basic, UNCHANGED <<pool, curr, live, client, overlap, stale>>,
         pc' \in [Thread -> Location],
         \A u \in Thread : pc'[u] \in HasClient => pc[u] \in HasClient
  PROVE  Types' /\ InHandIsAddr'
BY DEF Basic, Types, InHandIsAddr

\* The steps of the last lemma.
Moves(t) ==
  \/ pc[t] = "idle" /\ (NewClientThrows(t) \/ StartWait(t))
  \/ SpuriousWake(t) \/ Timeout(t) \/ Connect(t) \/ RepushBegin(t) \/ NotifyOne(t)
  \/ WokenResume(t) /\ ~TakeFront(t)
  \/ TimedoutResume(t) /\ ~TakeFront(t)

Takes(t) == pc[t] \notin HasClient /\ (TakeFront(t) \/ NewClient(t))

Gives(t) == RepushEnd(t) \/ Push(t) \/ Remove(t)

\* Every step of a thread takes a client, gives one away or moves threads.
LEMMA StepKinds ==
  ASSUME NEW t \in Thread, ThreadStep(t)
  PROVE  Takes(t) \/ Gives(t) \/ Moves(t)
<1>1. CASE Pop(t)
  BY <1>1 DEF Pop, Takes, Moves, HasClient
<1>2. CASE WokenResume(t) \/ TimedoutResume(t)
  BY <1>2 DEF WokenResume, TimedoutResume, Takes, Moves, HasClient
<1> QED
  BY <1>1, <1>2 DEF ThreadStep, PopStep, Gives, Moves

\* Threads that move keep the clients they have.
LEMMA MovesFacts ==
  ASSUME Basic, NEW t \in Thread, Moves(t)
  PROVE  /\ UNCHANGED <<pool, curr, live, client, overlap, stale>>
         /\ pc' \in [Thread -> Location]
         /\ \A u \in Thread : pc'[u] \in HasClient <=> pc[u] \in HasClient
         /\ \A u \in Thread : pc'[u] = "repushing" =>
                                pc[u] \in {"repush", "repushing"}
<1> USE DEF Goto
<1>0. pc \in [Thread -> Location]
  BY DEF Basic, Types
<1>1. CASE NotifyOne(t)
  <2>1. /\ pc' \in [Thread -> Location]
        /\ \A u \in Thread : \/ pc'[u] = pc[u]
                             \/ pc'[u] = "idle" /\ pc[u] = "notify"
                             \/ pc'[u] = "woken" /\ pc[u] = "waiting"
    BY <1>0, <1>1 DEF NotifyOne, Waiting, Location
  <2> QED
    BY <1>1, <2>1 DEF NotifyOne, HasClient
<1>2. CASE ~NotifyOne(t)
  <2>1. \E loc \in Location :
          /\ pc' = [pc EXCEPT ![t] = loc]
          /\ loc \in HasClient <=> pc[t] \in HasClient
          /\ loc = "repushing" => pc[t] = "repush"
    BY <1>2 DEF Moves, NewClientThrows, StartWait, SpuriousWake, Timeout, Connect, RepushBegin,
                WokenResume, TimedoutResume, HasClient, Location
  <2>2. UNCHANGED <<pool, curr, live, client, overlap, stale>>
    BY <1>2 DEF Moves, NewClientThrows, StartWait, SpuriousWake, Timeout, Connect, RepushBegin,
                WokenResume, TimedoutResume
  <2> QED
    BY <1>0, <2>1, <2>2
<1> QED
  BY <1>1, <1>2

\* What every step does to the history.
LEMMA History ==
  ASSUME HistoryTypes, Next
  PROVE  /\ HistoryTypes'
         /\ ~threw' => ~threw /\ \A t \in Thread : pc'[t] # "repush"
         /\ ~raced' => ~raced /\ overlap' = {}
         /\ raced => raced'
         /\ overlap' = {} /\ ~raced => ~raced'
         /\ ~removed' => ~removed /\ ~(curr' < curr)
<1>1. /\ threw' = (threw \/ \E t \in Thread : pc'[t] = "repush")
      /\ removed' = (removed \/ curr' < curr)
      /\ raced' = (raced \/ overlap' # {})
  BY DEF Next
<1> HIDE DEF Next
<1> QED
  BY <1>1, Zenon DEF HistoryTypes

\* Every step keeps what holds whatever races happen.
LEMMA NextBasic == Basic /\ [Next]_vars => Basic'
<1> SUFFICES ASSUME Basic, [Next]_vars PROVE Basic'
  OBVIOUS
<1>1. CASE UNCHANGED vars
  BY <1>1 DEF vars, poolVars, Basic, Types, HistoryTypes, InHandIsAddr, NoCatch, OverlapKnown
<1>2. CASE Next
  <2>1. /\ HistoryTypes'
        /\ ~threw' => ~threw /\ \A t \in Thread : pc'[t] # "repush"
        /\ ~raced' => overlap' = {}
    BY <1>2, History DEF Basic
  <2>2. PICK t \in Thread : ThreadStep(t)
    BY <1>2 DEF Next
  <2>3. /\ Types' /\ InHandIsAddr'
        /\ \A u \in Thread : pc'[u] = "repushing" => pc[u] \in {"repush", "repushing"}
    <3>1. CASE Takes(t)
      BY <3>1, TakeTypes DEF Takes
    <3>2. CASE Gives(t)
      BY <3>2, GiveTypes DEF Gives
    <3>3. CASE Moves(t)
      BY <3>3, MovesFacts, MoveTypes
    <3> QED
      BY <2>2, <3>1, <3>2, <3>3, StepKinds
  <2> QED
    BY <2>1, <2>3 DEF Basic, NoCatch, OverlapKnown
<1> QED
  BY <1>1, <1>2

-----------------------------------------------------------------------------
(* What holds until a push_back runs into an unlocked one.                 *)

\* A step that moves threads keeps who owns what.
LEMMA MoveOnly ==
  ASSUME Core, UNCHANGED <<pool, curr, live, client>>,
         \A u \in Thread : pc'[u] \in HasClient <=> pc[u] \in HasClient
  PROVE  Core'
<1>1. Free' = Free
  BY DEF Free
<1>2. InHand' = InHand
  BY DEF InHand
<1>3. Exclusive'
  BY <1>1 DEF Core, Exclusive, Distinct
<1>4. Accounted'
  BY <1>1, <1>2 DEF Core, Accounted
<1> QED
  BY <1>3, <1>4 DEF Core

\* A thread without a client that pops the front of the deque.
LEMMA TakeFrontCore ==
  ASSUME Basic, Core, NEW t \in Thread, pc[t] \notin HasClient, TakeFront(t)
  PROVE  Core'
<1> DEFINE a == Head(pool)
<1>1. /\ pool # <<>>
      /\ client' = [client EXCEPT ![t] = a]
      /\ pool' = Tail(pool)
      /\ pc' = [pc EXCEPT ![t] = "connecting"]
      /\ UNCHANGED <<curr, live>>
  BY DEF TakeFront, Goto
<1>2. pool \in Seq(Addr) /\ Distinct(pool) /\ Free \subseteq live
  BY DEF Basic, Types, Core, Exclusive
<1>3. /\ a \in Free
      /\ Free' = Free \ {a}
      /\ Distinct(pool')
  BY <1>1, <1>2, TailElems DEF Free, Elems
<1> HIDE DEF a
<1>4. a \in live
  BY <1>2, <1>3
<1>5. /\ client'[t] = a /\ pc'[t] \in HasClient
      /\ \A u \in Thread \ {t} : client'[u] = client[u] /\ pc'[u] = pc[u]
  BY <1>1 DEF Basic, Types, HasClient
<1>6. \A u \in Thread : pc[u] \in HasClient => client[u] \in live \ Free
  BY DEF Core, Exclusive
<1>7. Exclusive'
  <2>1. \A u \in Thread : pc'[u] \in HasClient => client'[u] \in live' \ Free'
    BY <1>1, <1>3, <1>4, <1>5, <1>6
  <2>2. \A u, v \in Thread :
          pc'[u] \in HasClient /\ pc'[v] \in HasClient /\ client'[u] = client'[v] => u = v
    BY <1>3, <1>5, <1>6 DEF Core, Exclusive
  <2> QED
    BY <1>1, <1>2, <1>3, <2>1, <2>2 DEF Exclusive
<1>8. InHand' = InHand \cup {a}
  BY <1>5 DEF InHand
<1>9. Accounted'
  BY <1>1, <1>3, <1>8 DEF Core, Accounted
<1> QED
  BY <1>7, <1>9 DEF Core

\* A thread without a client that constructs one.
LEMMA NewClientCore ==
  ASSUME Basic, Core, NEW t \in Thread, pc[t] \notin HasClient, NewClient(t)
  PROVE  Core'
<1>1. PICK a \in Addr \ live : /\ client' = [client EXCEPT ![t] = a]
                               /\ live' = live \cup {a}
  BY DEF NewClient
<1>2. /\ curr' = curr + 1
      /\ pc' = [pc EXCEPT ![t] = "connecting"]
      /\ UNCHANGED pool
  BY DEF NewClient, Goto
<1>3. /\ client'[t] = a /\ pc'[t] \in HasClient
      /\ \A u \in Thread \ {t} : client'[u] = client[u] /\ pc'[u] = pc[u]
  BY <1>1, <1>2 DEF Basic, Types, HasClient
<1>4. Free' = Free /\ Free \subseteq live
  BY <1>2 DEF Free, Core, Exclusive
<1>5. Exclusive'
  <2>1. \A u \in Thread : pc[u] \in HasClient => client[u] \in live \ Free
    BY DEF Core, Exclusive
  <2>2. \A u \in Thread : pc'[u] \in HasClient => client'[u] \in live' \ Free'
    BY <1>1, <1>3, <1>4, <2>1
  <2>3. \A u, v \in Thread :
          pc'[u] \in HasClient /\ pc'[v] \in HasClient /\ client'[u] = client'[v] => u = v
    BY <1>3, <2>1 DEF Core, Exclusive
  <2>4. Distinct(pool')
    BY <1>2 DEF Core, Exclusive
  <2> QED
    BY <1>1, <1>4, <2>2, <2>3, <2>4 DEF Exclusive
<1>6. InHand' = InHand \cup {a}
  BY <1>3 DEF InHand
<1>7. Cardinality(live') = curr'
  BY <1>1, <1>2, LiveFinite, FS_AddElement DEF Basic, Core, Accounted
<1>8. Accounted'
  BY <1>1, <1>4, <1>6, <1>7 DEF Core, Accounted
<1> QED
  BY <1>5, <1>8 DEF Core

\* A thread that puts its client into the deque undisturbed.
LEMMA GiveBackCore ==
  ASSUME Basic, Core, NEW t \in Thread, pc[t] \in HasClient,
         NEW loc \in {"idle", "notify"},
         client' = [client EXCEPT ![t] = NoClient],
         pc' = [pc EXCEPT ![t] = loc],
         UNCHANGED <<curr, live>>,
         pool' = Append(pool, client[t])
  PROVE  Core'
<1>1. /\ pc'[t] \notin HasClient
      /\ \A u \in Thread \ {t} : client'[u] = client[u] /\ pc'[u] = pc[u]
  BY DEF Basic, Types, HasClient
<1>2. /\ \A u \in Thread : pc[u] \in HasClient => client[u] \in live \ Free
      /\ \A u \in Thread \ {t} : pc[u] \in HasClient => client[u] # client[t]
      /\ Free \subseteq live
  BY DEF Core, Exclusive
<1>3. Free' = Free \cup {client[t]} /\ Distinct(pool')
  <2>1. client[t] \in Addr /\ pool \in Seq(Addr) /\ Distinct(pool) /\ client[t] \notin Elems(pool)
    BY <1>2, FreeIsElems DEF Basic, InHandIsAddr, Types, Core, Exclusive
  <2>2. Free' = Elems(pool')
    BY DEF Free, Elems
  <2> QED
    BY <2>1, <2>2, AppendElems, FreeIsElems
<1>4. Exclusive'
  <2>1. \A u \in Thread : pc'[u] \in HasClient => client'[u] \in live' \ Free'
    BY <1>1, <1>2, <1>3
  <2>2. \A u, v \in Thread :
          pc'[u] \in HasClient /\ pc'[v] \in HasClient /\ client'[u] = client'[v] => u = v
    BY <1>1 DEF Core, Exclusive
  <2>3. Free' \subseteq live'
    BY <1>2, <1>3
  <2> QED
    BY <1>3, <2>1, <2>2, <2>3 DEF Exclusive
<1>5. InHand = InHand' \cup {client[t]}
  BY <1>1 DEF InHand
<1>6. Accounted'
  BY <1>3, <1>5 DEF Core, Accounted
<1> QED
  BY <1>4, <1>6 DEF Core

\* A thread that deletes its client.
LEMMA RemoveCore ==
  ASSUME Basic, Core, NEW t \in Thread, Remove(t)
  PROVE  Core'
<1> DEFINE a == client[t]
<1>1. /\ pc[t] = "holding"
      /\ live' = live \ {a}
      /\ client' = [client EXCEPT ![t] = NoClient]
      /\ curr' = curr - 1
      /\ pc' = [pc EXCEPT ![t] = "idle"]
      /\ UNCHANGED pool
  BY DEF Remove, Goto
<1>2. pc[t] \in HasClient
  BY <1>1 DEF HasClient
<1>3. /\ \A u \in Thread : pc[u] \in HasClient => client[u] \in live \ Free
      /\ \A u \in Thread \ {t} : pc[u] \in HasClient => client[u] # a
      /\ Free \subseteq live /\ a \in live \ Free
  BY <1>2 DEF Core, Exclusive
<1>4. Cardinality(live') = curr'
  <2>1. IsFiniteSet(live) /\ Cardinality(live) = curr
    BY LiveFinite DEF Basic, Core, Accounted
  <2>2. Cardinality(live \ {a}) = curr - 1
    BY <1>3, <2>1, FS_RemoveElement
  <2> QED
    BY <1>1, <2>2
<1> HIDE DEF a
<1>5. /\ pc'[t] \notin HasClient
      /\ \A u \in Thread \ {t} : client'[u] = client[u] /\ pc'[u] = pc[u]
  BY <1>1 DEF Basic, Types, HasClient
<1>6. Free' = Free
  BY <1>1 DEF Free
<1>7. Exclusive'
  <2>1. \A u \in Thread : pc'[u] \in HasClient => client'[u] \in live' \ Free'
    BY <1>1, <1>3, <1>5, <1>6
  <2>2. \A u, v \in Thread :
          pc'[u] \in HasClient /\ pc'[v] \in HasClient /\ client'[u] = client'[v] => u = v
    BY <1>5 DEF Core, Exclusive
  <2>3. Free' \subseteq live'
    BY <1>1, <1>3, <1>6
  <2>4. Distinct(pool')
    BY <1>1 DEF Core, Exclusive
  <2> QED
    BY <2>1, <2>2, <2>3, <2>4 DEF Exclusive
<1>8. InHand' = InHand \ {a}
  BY <1>2, <1>3, <1>5 DEF InHand, a
<1>9. Accounted'
  BY <1>1, <1>3, <1>4, <1>6, <1>8 DEF Core, Accounted
<1> QED
  BY <1>7, <1>9 DEF Core

\* Every step of every thread keeps the invariant.
LEMMA NextIInv == IInv /\ [Next]_vars => IInv'
<1> SUFFICES ASSUME IInv, [Next]_vars PROVE IInv'
  OBVIOUS
<1>0. Basic /\ Basic'
  BY NextBasic DEF IInv
<1>1. CASE UNCHANGED vars
  <2>1. raced' = raced /\ (Core => Core')
    BY <1>1, MoveOnly DEF vars, poolVars
  <2> QED
    BY <1>0, <2>1 DEF IInv
<1>2. CASE Next
  <2> SUFFICES ASSUME ~raced' PROVE Core'
    BY <1>0 DEF IInv
  <2>1. ~raced /\ overlap = {} /\ Core
    BY <1>0, <1>2, History DEF Basic, OverlapKnown, IInv
  <2>2. PICK t \in Thread : ThreadStep(t)
    BY <1>2 DEF Next
  <2>3. CASE Takes(t)
    BY <1>0, <2>1, <2>3, TakeFrontCore, NewClientCore DEF Takes
  <2>4. CASE Moves(t)
    BY <1>0, <2>1, <2>4, MovesFacts, MoveOnly
  <2>5. CASE Remove(t)
    BY <1>0, <2>1, <2>5, RemoveCore
  <2>6. CASE Push(t)
    BY <1>0, <2>1, <2>6, GiveBackCore DEF Push, Goto, HasClient
  \* Nobody ran into this push_back, so that it is one like any other.
  <2>7. CASE RepushEnd(t)
    BY <1>0, <2>1, <2>7, GiveBackCore DEF RepushEnd, Goto, HasClient
  <2> QED
    BY <2>2, <2>3, <2>4, <2>5, <2>6, <2>7, StepKinds DEF Gives
<1> QED
  BY <1>1, <1>2

-----------------------------------------------------------------------------
(* The theorems.                                                           *)

\* The inductive invariant is an invariant.
LEMMA Invariance == Spec => []IInv
  BY InitIInv, NextIInv, PTL DEF Spec

\* _curr_pool_size never exceeds _max_pool_size, is not negative until a push_back
\* runs into an unlocked one, and every variable of the pool keeps its type.
THEOREM TypeCorrect == Spec => []TypeOK
<1>1. IInv => TypeOK
  <2> SUFFICES ASSUME IInv PROVE TypeOK
    OBVIOUS
  <2>1. ~raced => Cardinality(live) = curr /\ Cardinality(live) \in Nat
    BY LiveFinite, FS_CardinalityType DEF IInv, Basic, Core, Accounted
  <2>2. ~raced => 0 <= curr
    BY <2>1
  <2>3. threw \in BOOLEAN /\ removed \in BOOLEAN /\ raced \in BOOLEAN
    BY DEF IInv, Basic, HistoryTypes
  <2> QED
    BY <2>2, <2>3 DEF IInv, Basic, Types, TypeOK
<1> QED
  BY <1>1, Invariance, PTL

\* Until a push_back runs into an unlocked one, Pop never gives a client to two
\* threads, or one that was deleted, or leaves it in the deque: not even when
\* Connect throws and the client is pushed back without the lock.
THEOREM Ownership == Spec => []ExclusiveOwnership
<1>1. IInv => ExclusiveOwnership
  BY DEF IInv, Core, Exclusive, Distinct, ExclusiveOwnership
<1> QED
  BY <1>1, Invariance, PTL

\* Until a push_back runs into an unlocked one, the size kept by the pool is the
\* number of clients that exist, and none of them gets lost.
THEOREM Accounting == Spec => []PoolAccounting
<1>1. IInv => PoolAccounting
  BY DEF IInv, Core, Accounted, PoolAccounting
<1> QED
  BY <1>1, Invariance, PTL

-----------------------------------------------------------------------------
(* No lost wake-up.                                                        *)

\* The threads in motion are finitely many.
LEMMA MotionFinite == IsFiniteSet(InMotion) /\ Cardinality(InMotion) \in Nat
<1>1. IsFiniteSet(InMotion)
  BY FiniteAssumption, FS_Subset DEF InMotion
<1> QED
  BY <1>1, FS_CardinalityType

\* The deque and the threads in motion keep up with each other: whoever takes a
\* client leaves the threads in motion, whoever gives one back joins them, and a
\* notification hands the place over to a sleeper.
LEMMA NextWakeup == IInv /\ NoLostWakeup /\ [Next]_vars => NoLostWakeup'
<1> SUFFICES ASSUME IInv, NoLostWakeup, [Next]_vars, ~threw', Waiting' # {},
                    pool' # <<>>
             PROVE  Len(pool') <= Cardinality(InMotion')
  <2>1. Cardinality(InMotion') \in Nat
    BY MotionFinite, FiniteAssumption, FS_Subset, FS_CardinalityType DEF InMotion
  <2>2. Len(<<>>) = 0
    OBVIOUS
  <2> QED
    BY <2>1, <2>2 DEF NoLostWakeup
<1> USE DEF Goto
<1>1. /\ pc \in [Thread -> Location] /\ pool \in Seq(Addr)
      /\ Len(pool) \in Nat
  BY DEF IInv, Basic, Types
<1>2. ~threw /\ \A t \in Thread : pc[t] \notin {"repush", "repushing"}
  <2>1. CASE UNCHANGED vars
    BY <2>1 DEF vars, IInv, Basic, NoCatch
  <2>2. CASE Next
    BY <2>2, History DEF IInv, Basic, NoCatch
  <2> QED
    BY <2>1, <2>2
<1>3. Waiting # {} => Len(pool) <= Cardinality(InMotion)
  BY <1>2 DEF NoLostWakeup
<1>4. CASE pool' = pool /\ Waiting # {} /\ Cardinality(InMotion) <= Cardinality(InMotion')
  <2>1. Cardinality(InMotion') \in Nat
    BY FiniteAssumption, FS_Subset, FS_CardinalityType DEF InMotion
  <2> QED
    BY <1>1, <1>3, <1>4, <2>1, MotionFinite
<1>5. ASSUME NEW t \in Thread, TakeFront(t), pc[t] \in {"idle", "woken", "timedout"}
      PROVE  Len(pool') <= Cardinality(InMotion')
  <2>1. /\ Len(pool') = Len(pool) - 1 /\ Len(pool) >= 1
        /\ pc' = [pc EXCEPT ![t] = "connecting"]
    BY <1>1, <1>5 DEF TakeFront
  <2>2. InMotion' = InMotion \ {t}
    BY <1>1, <2>1 DEF InMotion
  <2>3. Waiting # {}
    BY <1>1, <2>1 DEF Waiting
  <2>4. Cardinality(InMotion') >= Cardinality(InMotion) - 1 /\ Cardinality(InMotion') \in Nat
    <3>1. CASE t \in InMotion
      <4>1. /\ IsFiniteSet(InMotion')
            /\ Cardinality(InMotion') = Cardinality(InMotion) - 1
        BY <2>2, <3>1, MotionFinite, FS_RemoveElement
      <4>2. Cardinality(InMotion') \in Nat
        BY <4>1, FS_CardinalityType
      <4> QED
        BY <4>1, <4>2, MotionFinite
    <3>2. CASE t \notin InMotion
      <4>1. InMotion' = InMotion
        BY <2>2, <3>2
      <4> QED
        BY <4>1, MotionFinite
    <3> QED
      BY <3>1, <3>2
  <2> QED
    BY <1>1, <1>3, <2>1, <2>3, <2>4, MotionFinite
<1>6. CASE UNCHANGED vars
  <2>1. pool' = pool /\ InMotion' = InMotion /\ Waiting' = Waiting
    BY <1>6 DEF vars, poolVars, InMotion, Waiting
  <2> QED
    BY <1>4, <2>1, MotionFinite
<1>7. ASSUME NEW t \in Thread, Pop(t) PROVE Len(pool') <= Cardinality(InMotion')
  BY <1>5, <1>7 DEF Pop, NewClient, NewClientThrows, StartWait
<1>8. ASSUME NEW t \in Thread, SpuriousWake(t) \/ Timeout(t)
      PROVE  Len(pool') <= Cardinality(InMotion')
  <2>1. pc[t] = "waiting" /\ pool' = pool /\ t \in Waiting
    BY <1>8 DEF SpuriousWake, Timeout, Waiting
  <2>2. InMotion' = InMotion \cup {t} /\ t \notin InMotion
    BY <1>1, <1>8, <2>1 DEF SpuriousWake, Timeout, InMotion
  <2>3. Cardinality(InMotion') = Cardinality(InMotion) + 1
    BY <2>2, MotionFinite, FS_AddElement
  <2> QED
    BY <1>4, <2>1, <2>3, MotionFinite
<1>9. ASSUME NEW t \in Thread, WokenResume(t) \/ TimedoutResume(t)
      PROVE  Len(pool') <= Cardinality(InMotion')
  BY <1>5, <1>9 DEF WokenResume, TimedoutResume
<1>10. ASSUME NEW t \in Thread, Connect(t) \/ Remove(t)
       PROVE  Len(pool') <= Cardinality(InMotion')
  <2>1. pool' = pool /\ InMotion' = InMotion /\ Waiting' = Waiting
    BY <1>1, <1>10 DEF Connect, Remove, InMotion, Waiting
  <2> QED
    BY <1>4, <2>1, MotionFinite
<1>11. ASSUME NEW t \in Thread, Push(t) PROVE Len(pool') <= Cardinality(InMotion')
  <2>1. client[t] \in Addr /\ pc[t] = "holding"
    BY <1>11 DEF Push, IInv, Basic, Types, InHandIsAddr, HasClient
  <2>2. Len(pool') = Len(pool) + 1
    BY <1>1, <1>11, <2>1 DEF Push
  <2>3. InMotion' = InMotion \cup {t} /\ t \notin InMotion
    BY <1>1, <1>11, <2>1 DEF Push, InMotion
  <2>4. Cardinality(InMotion') = Cardinality(InMotion) + 1
    BY <2>3, MotionFinite, FS_AddElement
  <2>5. Waiting # {}
    BY <1>1, <1>11 DEF Push, Waiting
  <2> QED
    BY <1>1, <1>3, <2>2, <2>4, <2>5, MotionFinite
<1>12. ASSUME NEW t \in Thread, NotifyOne(t) PROVE Len(pool') <= Cardinality(InMotion')
  <2>1. PICK u \in Waiting : pc' = [pc EXCEPT ![t] = "idle", ![u] = "woken"]
    <3>1. CASE Waiting = {} /\ pc' = [pc EXCEPT ![t] = "idle"]
      BY <1>1, <3>1 DEF Waiting
    <3> QED
      BY <1>12, <3>1 DEF NotifyOne
  <2>2. /\ u \in Thread /\ pc[u] = "waiting" /\ pc[t] = "notify" /\ pool' = pool
        /\ Waiting # {}
    BY <1>12, <2>1 DEF NotifyOne, Waiting
  <2>3. /\ InMotion' = (InMotion \ {t}) \cup {u}
        /\ t \in InMotion /\ u \notin InMotion \ {t}
    BY <1>1, <2>1, <2>2 DEF InMotion
  <2>4. /\ IsFiniteSet(InMotion \ {t})
        /\ Cardinality(InMotion \ {t}) = Cardinality(InMotion) - 1
    BY <2>3, MotionFinite, FS_RemoveElement
  <2>5. Cardinality(InMotion') = Cardinality(InMotion \ {t}) + 1
    BY <2>3, <2>4, FS_AddElement
  <2> QED
    BY <1>4, <2>2, <2>4, <2>5, MotionFinite
<1> QED
  BY <1>2, <1>6, <1>7, <1>8, <1>9, <1>10, <1>11, <1>12
  DEF Next, ThreadStep, PopStep, RepushBegin, RepushEnd

\* Until a Connect throws, the notify_one after the unlock in Push is never lost:
\* with a thread asleep in Pop, as many threads as there are free clients are on
\* their way to them.
THEOREM WakeupKept == Spec => []NoLostWakeup
<1>1. Init => NoLostWakeup
  <2>1. Init => Waiting = {}
    BY DEF Init, Waiting
  <2> QED
    BY <2>1 DEF NoLostWakeup
<1> QED
  BY <1>1, NextWakeup, Invariance, PTL DEF Spec

-----------------------------------------------------------------------------
(* The refinement of BoundedPool.                                          *)

Owned(t) == IF pc[t] = "holding" THEN client[t] ELSE NoClient

Holding == {t \in Thread : pc[t] = "holding"}

\* The abstract state is a function of what the threads hold.
LEMMA OwnedStutter ==
  ASSUME \A t \in Thread : Owned(t)' = Owned(t)
  PROVE  UNCHANGED [t \in Thread |-> IF pc[t] = "holding" THEN client[t] ELSE NoClient]
BY DEF Owned

\* Threads that have a client in hand are no more than the clients that exist:
\* with a thread that is about to get its client, those that hold one are fewer
\* than MaxPoolSize.
LEMMA RoomForOne ==
  ASSUME Basic, Core, NEW t \in Thread, pc[t] = "connecting"
  PROVE  Cardinality(Holding) < MaxPoolSize
<1> DEFINE T == Holding \cup {t}
           f == [u \in T |-> client[u]]
<1>1. t \notin Holding /\ \A u \in T : u \in Thread /\ pc[u] \in HasClient
  BY DEF Holding, HasClient
<1>2. IsFiniteSet(Holding)
  BY FiniteAssumption, FS_Subset DEF Holding
<1>3. Cardinality(T) = Cardinality(Holding) + 1
  BY <1>1, <1>2, FS_AddElement
<1>4. f \in Injection(T, live)
  BY <1>1 DEF Core, Exclusive, Injection, IsInjective
<1>5. Cardinality(T) <= Cardinality(live)
  BY <1>4, LiveFinite, FS_Injection DEF Basic
<1>6. Cardinality(live) <= MaxPoolSize /\ Cardinality(live) \in Int
  BY PoolAssumption DEF Basic, Types, Core, Accounted
<1> QED
  BY <1>2, <1>3, <1>5, <1>6, PoolAssumption, FS_CardinalityType

\* A Connect that succeeds is what the caller sees as getting a client.
LEMMA ConnectAcquires ==
  ASSUME Basic, Core, NEW t \in Thread, Connect(t), pc' = [pc EXCEPT ![t] = "holding"]
  PROVE  Promise!Acquire(t)
<1>1. pc[t] = "connecting" /\ UNCHANGED client /\ pc[t] \in HasClient
  BY DEF Connect, HasClient
<1>2. client[t] \in Addr
  BY <1>1 DEF Basic, InHandIsAddr
<1>3. \A u \in Thread : Owned(u) # client[t]
  <2> SUFFICES ASSUME NEW u \in Thread, Owned(u) = client[t] PROVE FALSE
    OBVIOUS
  <2>1. pc[u] = "holding" /\ client[u] = client[t]
    BY <1>2, PoolAssumption DEF Owned
  <2> QED
    BY <1>1, <2>1 DEF Core, Exclusive, HasClient
<1>4. [u \in Thread |-> Owned(u)]' = [[u \in Thread |-> Owned(u)] EXCEPT ![t] = client[t]]
  BY <1>1 DEF Owned, Basic, Types
<1>5. {u \in Thread : Owned(u) # NoClient} = Holding
  <2>1. \A u \in Holding : client[u] \in Addr
    BY DEF Holding, HasClient, Basic, InHandIsAddr
  <2> QED
    BY <2>1, PoolAssumption DEF Owned, Holding
<1>6. Promise!Busy = Holding
  BY <1>5 DEF Promise!Busy, Owned
<1>7. Owned(t) = NoClient
  BY <1>1 DEF Owned
<1>8. Promise!Cardinality(Promise!Busy) < MaxPoolSize
  <2>1. Promise!Cardinality(Holding) = Cardinality(Holding)
    BY DEF Promise!Cardinality, Cardinality
  <2> QED
    BY <1>1, <1>6, <2>1, RoomForOne
<1> DEFINE owned == [u \in Thread |-> Owned(u)]
<1>9. owned[t] = NoClient /\ \A u \in Thread : owned[u] # client[t]
  BY <1>3, <1>7
<1>10. owned' = [owned EXCEPT ![t] = client[t]]
  BY <1>4
<1>11. owned = [u \in Thread |-> IF pc[u] = "holding" THEN client[u] ELSE NoClient]
  BY DEF Owned
<1>12. owned' = [u \in Thread |-> IF pc[u] = "holding" THEN client[u] ELSE NoClient]'
  BY DEF Owned
<1> HIDE DEF owned
<1> QED
  BY <1>2, <1>8, <1>9, <1>10, <1>11, <1>12 DEF Promise!Acquire

\* Push and Remove are what the caller sees as giving it back.
LEMMA GiveBackReleases ==
  ASSUME Basic, NEW t \in Thread, Push(t) \/ Remove(t)
  PROVE  Promise!Release(t)
<1>1. pc[t] = "holding" /\ client[t] # NoClient
  BY PoolAssumption DEF Push, Remove, Basic, InHandIsAddr, HasClient
<1>2. \A u \in Thread : Owned(u)' = IF u = t THEN NoClient ELSE Owned(u)
  <2>1. PICK loc \in {"idle", "notify"} : pc' = [pc EXCEPT ![t] = loc]
    BY DEF Push, Remove, Goto
  <2>2. client' = [client EXCEPT ![t] = NoClient]
    BY DEF Push, Remove
  <2> QED
    BY <2>1, <2>2 DEF Owned, Basic, Types
<1>3. [u \in Thread |-> Owned(u)]' = [[u \in Thread |-> Owned(u)] EXCEPT ![t] = NoClient]
  BY <1>2
<1> QED
  BY <1>1, <1>3 DEF Promise!Release, Owned

\* Every other step leaves everybody with what they hold.
LEMMA QuietStep ==
  ASSUME Basic, NEW t \in Thread,
         Pop(t) \/ SpuriousWake(t) \/ Timeout(t) \/ WokenResume(t) \/ TimedoutResume(t)
         \/ RepushBegin(t) \/ RepushEnd(t) \/ NotifyOne(t)
         \/ (Connect(t) /\ pc' = [pc EXCEPT ![t] = "repush"])
  PROVE  \A u \in Thread : Owned(u)' = Owned(u)
<1> USE DEF Goto
<1>1. /\ \A u \in Thread : (pc'[u] = "holding") <=> (pc[u] = "holding")
      /\ \A u \in Thread : pc[u] = "holding" => client'[u] = client[u]
  <2>1. CASE NotifyOne(t)
    BY <2>1 DEF NotifyOne, Waiting, Basic, Types
  <2>2. CASE ~NotifyOne(t)
    BY <2>2 DEF Pop, TakeFront, NewClient, NewClientThrows, StartWait, SpuriousWake, Timeout,
                WokenResume, TimedoutResume, RepushBegin, RepushEnd, Connect, Basic, Types
  <2> QED
    BY <2>1, <2>2
<1> QED
  BY <1>1 DEF Owned

\* A step of a pool that is not broken is one of the promise, and only push_backs
\* break it.
LEMMA WholeStep ==
  ASSUME Basic, Core, ~raced, NEW t \in Thread, ThreadStep(t), raced' \in BOOLEAN,
         raced' => overlap' # {}
  PROVE  Promise!Next \/ ((\A u \in Thread : Owned(u)' = Owned(u)) /\ raced' = raced)
<1>0. overlap = {} /\ raced = FALSE
  BY DEF Basic, OverlapKnown, HistoryTypes
<1>1. CASE Push(t) \/ Remove(t)
  <2>1. Promise!Release(t)
    BY <1>1, GiveBackReleases
  <2>2. CASE raced'
    BY <1>0, <2>1, <2>2 DEF Promise!Next, Promise!Break
  <2>3. CASE ~raced'
    BY <1>0, <2>1, <2>3 DEF Promise!Next
  <2> QED
    BY <2>2, <2>3
<1>2. CASE Connect(t) /\ pc' = [pc EXCEPT ![t] = "holding"]
  <2>1. raced' = FALSE
    BY <1>0, <1>2 DEF Connect
  <2> QED
    BY <1>0, <1>2, <2>1, ConnectAcquires DEF Promise!Next
<1>3. Connect(t) => pc' = [pc EXCEPT ![t] = "holding"] \/ pc' = [pc EXCEPT ![t] = "repush"]
  BY DEF Connect, Goto
<1>4. CASE \A u \in Thread : Owned(u)' = Owned(u)
  <2>1. CASE raced'
    BY <1>0, <1>4, <2>1, OwnedStutter DEF Promise!Next, Promise!Break
  <2>2. CASE ~raced'
    BY <1>0, <1>4, <2>2
  <2> QED
    BY <2>1, <2>2
<1> QED
  BY <1>1, <1>2, <1>3, <1>4, QuietStep DEF ThreadStep, PopStep

\* Until a push_back runs into an unlocked one, the pool implements BoundedPool for
\* any threads, sizes and faults: what ends a successful Pop is an Acquire that
\* respects the bound, Push and Remove are Releases, and nothing else is visible to
\* the callers.
THEOREM PoolRefined == Spec => ImplementsBoundedPool
<1> DEFINE own == [t \in Thread |-> IF pc[t] = "holding" THEN client[t] ELSE NoClient]
<1>1. Init => Promise!Init
  BY DEF Init, Promise!Init
<1>2. ASSUME IInv, IInv', [Next]_vars
      PROVE  [Promise!Next]_<<own, raced>>
  <2>1. CASE UNCHANGED vars
    BY <2>1, OwnedStutter DEF vars, poolVars, Owned
  <2>2. CASE Next /\ raced
    <3>1. raced' = TRUE /\ raced = TRUE
      BY <1>2, <2>2, History DEF IInv, Basic, HistoryTypes
    <3>2. own' \in [Thread -> Addr \cup {NoClient}]
      BY <1>2 DEF IInv, Basic, Types
    <3> QED
      BY <3>1, <3>2 DEF Promise!Next, Promise!Anything
  <2>3. CASE Next /\ ~raced
    <3>1. PICK t \in Thread : ThreadStep(t)
      BY <2>3 DEF Next
    <3>2. raced' \in BOOLEAN /\ (raced' => overlap' # {})
      BY <1>2, <2>3, History DEF IInv, Basic, HistoryTypes
    <3> QED
      BY <1>2, <2>3, <3>1, <3>2, WholeStep, OwnedStutter DEF IInv
  <2> QED
    BY <1>2, <2>1, <2>2, <2>3
<1> QED
  BY <1>1, <1>2, Invariance, PTL DEF Spec, ImplementsBoundedPool, Promise!Spec

-----------------------------------------------------------------------------
(* Giving up.                                                              *)

\* Until a client is Removed, a thread that has gone to sleep in Pop found the
\* pool at its limit, and the pool is still there.
FullWhileWaiting ==
  ~removed => \A t \in Thread :
    pc[t] \in {"waiting", "woken", "timedout"} => curr = MaxPoolSize

LEMMA NextFull == IInv /\ FullWhileWaiting /\ [Next]_vars => FullWhileWaiting'
<1> SUFFICES ASSUME IInv, FullWhileWaiting, [Next]_vars, ~removed',
                    NEW u \in Thread, pc'[u] \in {"waiting", "woken", "timedout"}
             PROVE  curr' = MaxPoolSize
  BY DEF FullWhileWaiting
<1>0. pc \in [Thread -> Location] /\ curr \in Int /\ curr <= MaxPoolSize
  BY DEF IInv, Basic, Types
<1>1. CASE UNCHANGED vars
  BY <1>1 DEF vars, poolVars, FullWhileWaiting
<1>2. CASE Next
  <2>1. ~removed /\ ~(curr' < curr)
    BY <1>2, History DEF IInv, Basic
  <2>2. PICK t \in Thread : ThreadStep(t)
    BY <1>2 DEF Next
  <2> USE DEF Goto
  <2>3. ~Remove(t)
    BY <1>0, <2>1 DEF Remove
  <2>4. CASE pc[t] = "idle" /\ StartWait(t)
    BY <2>4, <1>0, PoolAssumption DEF StartWait
  <2>5. CASE pc[t] = "idle" /\ NewClient(t)
    <3>1. pc'[t] = "connecting" /\ u # t /\ pc[u] = pc'[u] /\ curr < MaxPoolSize
      BY <2>5, <1>0 DEF NewClient
    <3> QED
      BY <3>1, <2>1, <1>0, PoolAssumption DEF FullWhileWaiting
  <2>6. CASE \/ pc[t] = "idle" /\ (TakeFront(t) \/ NewClientThrows(t))
             \/ SpuriousWake(t) \/ Timeout(t) \/ PopStep(t) \/ Push(t) \/ NotifyOne(t)
    <3>1. UNCHANGED curr
      BY <2>6 DEF TakeFront, NewClientThrows, SpuriousWake, Timeout, PopStep, WokenResume,
                  TimedoutResume, Connect, RepushBegin, RepushEnd, Push, NotifyOne
    <3>2. CASE NotifyOne(t)
      BY <3>1, <3>2, <1>0, <2>1 DEF NotifyOne, Waiting, FullWhileWaiting
    <3>3. CASE ~NotifyOne(t)
      <4>1. pc[u] \in {"waiting", "woken", "timedout"}
        BY <2>6, <3>3, <1>0 DEF TakeFront, NewClientThrows, SpuriousWake, Timeout, PopStep,
             WokenResume, TimedoutResume, Connect, RepushBegin, RepushEnd, Push
      <4> QED
        BY <4>1, <3>1, <2>1 DEF FullWhileWaiting
    <3> QED
      BY <3>2, <3>3
  <2> QED
    BY <2>2, <2>3, <2>4, <2>5, <2>6 DEF ThreadStep, Pop
<1> QED
  BY <1>1, <1>2

\* For any threads and sizes, Pop answers nullptr after its timeout
\* (ClientPool.h:254-260) only when no client is free and, until the first Remove,
\* when there is no room for a new one either.
THEOREM GivesUpExhausted == Spec => GiveUpOnlyWhenExhausted
<1>1. Init => FullWhileWaiting
  BY DEF Init, FullWhileWaiting
<1>2. Spec => []FullWhileWaiting
  BY <1>1, NextFull, Invariance, PTL DEF Spec
<1>3. IInv /\ FullWhileWaiting /\ [Next]_vars =>
        [\A t \in Thread : GivesUp(t) =>
            pool = <<>> /\ (~removed => curr = MaxPoolSize)]_vars
  <2> SUFFICES ASSUME IInv, FullWhileWaiting, Next, NEW t \in Thread, GivesUp(t)
               PROVE  pool = <<>> /\ (~removed => curr = MaxPoolSize)
    BY DEF GivesUp
  <2>1. pc \in [Thread -> Location]
    BY DEF IInv, Basic, Types
  <2>2. pc[t] = "timedout" /\ pc'[t] = "idle"
    BY DEF GivesUp
  <2>3. PICK u \in Thread : ThreadStep(u)
    BY DEF Next
  <2> USE DEF Goto
  \* Nobody but the thread itself takes it out of "timedout".
  <2>4. u = t
    BY <2>1, <2>2, <2>3 DEF ThreadStep, Pop, TakeFront, NewClient, NewClientThrows,
         StartWait, SpuriousWake, Timeout, PopStep, WokenResume, TimedoutResume, Connect,
         RepushBegin, RepushEnd, Push, NotifyOne, Waiting, Remove
  <2>5. TimedoutResume(t)
    BY <2>2, <2>3, <2>4 DEF ThreadStep, Pop, SpuriousWake, Timeout, PopStep, WokenResume,
         Connect, RepushBegin, RepushEnd, Push, NotifyOne, Remove
  <2>6. pool = <<>>
    BY <2>1, <2>2, <2>5 DEF TimedoutResume, TakeFront
  <2> QED
    BY <2>2, <2>6 DEF FullWhileWaiting
<1> QED
  BY <1>2, <1>3, Invariance, PTL DEF Spec, GiveUpOnlyWhenExhausted
=============================================================================
