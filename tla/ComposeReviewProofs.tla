------------------------- MODULE ComposeReviewProofs -------------------------
(***************************************************************************)
(* Proofs about ComposeReview for any set of requests and calls and any    *)
(* pool size, in three parts.                                              *)
(*                                                                         *)
(* Completeness: as long as memcached keeps its keys the counter never     *)
(* runs ahead of the components and every review that is stored is         *)
(* complete, whatever else fails and whichever uploads are repeated.       *)
(*                                                                         *)
(* Acknowledgement: uploads that were all answered with 0 have their       *)
(* review in the storage, unless another upload of the request or its      *)
(* composing failed or memcached dropped a key.                            *)
(*                                                                         *)
(* Uniqueness: a request gets at most one review if no upload is repeated, *)
(* though memcached may drop the counter at any time and let it start      *)
(* again.                                                                  *)
(***************************************************************************)
EXTENDS ComposeReview, FiniteSetTheorems, FunctionTheorems, TLAPS

-----------------------------------------------------------------------------
(* Facts about the four components.                                        *)

\* There are NUM_COMPONENTS components, and keys[] names each of them.
LEMMA ComponentCount ==
  /\ IsFiniteSet(Component)
  /\ Cardinality(Component) = NumComponents
  /\ \A o \in Component : \E i \in 1 .. NumComponents : Key[i] = o
  /\ \A i \in 1 .. NumComponents : Key[i] \in Component
<1>1. Component = ((({"UniqueId"} \cup {"MovieId"}) \cup {"Text"}) \cup {"Rating"})
  BY DEF Component
<1>2. IsFiniteSet({"UniqueId"}) /\ Cardinality({"UniqueId"}) = 1
  BY FS_Singleton
<1>3. /\ IsFiniteSet({"UniqueId"} \cup {"MovieId"})
      /\ Cardinality({"UniqueId"} \cup {"MovieId"}) = 2
  BY <1>2, FS_AddElement
<1>4. /\ IsFiniteSet(({"UniqueId"} \cup {"MovieId"}) \cup {"Text"})
      /\ Cardinality(({"UniqueId"} \cup {"MovieId"}) \cup {"Text"}) = 3
  BY <1>3, FS_AddElement
<1>5. IsFiniteSet(Component) /\ Cardinality(Component) = 4
  BY <1>1, <1>4, FS_AddElement
<1>6. /\ Key[1] = "UniqueId" /\ Key[2] = "MovieId"
      /\ Key[3] = "Text" /\ Key[4] = "Rating"
  BY DEF Key
<1>7. 1 \in 1 .. 4 /\ 2 \in 1 .. 4 /\ 3 \in 1 .. 4 /\ 4 \in 1 .. 4
  OBVIOUS
<1>8. \A o \in Component : \E i \in 1 .. 4 : Key[i] = o
  BY <1>6, <1>7 DEF Component
<1>9. \A i \in 1 .. 4 : Key[i] \in Component
  BY <1>6 DEF Component
<1> QED
  BY <1>5, <1>8, <1>9 DEF NumComponents

\* A count that reaches NUM_COMPONENTS without exceeding the number of settled
\* components means that all of them are settled.
LEMMA AllSettled ==
  ASSUME NEW S \in SUBSET Component, NumComponents <= Cardinality(S)
  PROVE  S = Component
  BY ComponentCount, FS_Subset, FS_CardinalityType

-----------------------------------------------------------------------------
(***************************************************************************)
(* The inductive invariant.                                                *)
(***************************************************************************)

\* A component in memcached was put there by a call for that key.
OwnKey ==
  \A r \in Request, o \in Component :
     Stored(r, o) => component[r][o].req = r /\ component[r][o].op = o

\* A call that is about to count has stored its own component.
CountsOwn == \A c \in Call : pc[c] = "incr" => component[c.req][c.op] = c

\* A call that composes finds all components in memcached, and has found those
\* it has looked up.
Composing(c) ==
  /\ pc[c] \in {"composePop", "get", "store"} => \A o \in Component : Stored(c.req, o)
  /\ pc[c] = "get" =>
       \A i \in 1 .. NumComponents : i < next[c] => draft[c][Key[i]] # NoCall
  /\ pc[c] = "store" => \A o \in Component : draft[c][o] # NoCall

ComposesAll == \A c \in Call : Composing(c)

\* A call that has not got to the loop over the keys has its index at the start.
IndexReset == \A c \in Call : pc[c] \notin {"get", "store", "done"} => next[c] = 1

Kept == OwnKey /\ CountsOwn /\ CounterNeverAhead /\ ComposesAll /\ ReviewsComplete

IInv == TypeOK /\ IndexReset /\ Kept

\* Initially nothing is in memcached.
LEMMA InitIInv == Init => IInv
<1> SUFFICES ASSUME Init PROVE IInv
  OBVIOUS
<1>1. TypeOK
  BY DEF Init, TypeOK, Location, Fields, NumComponents, Absent
<1>2. OwnKey /\ CountsOwn /\ ComposesAll /\ ReviewsComplete /\ IndexReset
  BY ComposeAssumption DEF Init, OwnKey, CountsOwn, ComposesAll, Composing,
                           ReviewsComplete, Stored, IndexReset
<1>3. CounterNeverAhead
  <2> SUFFICES ASSUME NEW r \in Request PROVE counter[r] <= Cardinality(Settled(r))
    BY DEF CounterNeverAhead
  <2>1. Settled(r) \in SUBSET Component
    BY DEF Settled
  <2>2. Cardinality(Settled(r)) \in Nat
    BY <2>1, ComponentCount, FS_Subset, FS_CardinalityType
  <2> QED
    BY <2>2 DEF Init, Absent
<1> QED
  BY <1>1, <1>2, <1>3 DEF IInv, Kept

-----------------------------------------------------------------------------
(* Types.                                                                  *)

\* Setting one field of a review, or one component of a request.
LEMMA FieldUpdate ==
  ASSUME NEW S, NEW f \in [S -> Fields], NEW s \in S, NEW o \in Component,
         NEW x \in Call \cup {NoCall}
  PROVE  [f EXCEPT ![s][o] = x] \in [S -> Fields]
<1>1. [f[s] EXCEPT ![o] = x] \in Fields
  BY DEF Fields
<1>2. [f EXCEPT ![s][o] = x] = [f EXCEPT ![s] = [f[s] EXCEPT ![o] = x]]
  OBVIOUS
<1> QED
  BY <1>1, <1>2

\* Every step keeps the types, and the index of a call that has not begun to
\* read components back.
LEMMA TypeStep == TypeOK /\ IndexReset /\ [LossyNext]_vars => TypeOK' /\ IndexReset'
<1> SUFFICES ASSUME TypeOK, IndexReset, [LossyNext]_vars PROVE TypeOK' /\ IndexReset'
  OBVIOUS
<1> USE ComposeAssumption
    DEF TypeOK, IndexReset, Location, Goto, Return, Abandon, PushClient, PopClient,
        cacheVars, composeVars
<1>1. ASSUME NEW c \in Call, Start(c) PROVE TypeOK' /\ IndexReset'
  BY <1>1 DEF Start
<1>2. ASSUME NEW c \in Call, AddCounter(c) PROVE TypeOK' /\ IndexReset'
  BY <1>2 DEF AddCounter, ServeAddCounter, Absent
<1>3. ASSUME NEW c \in Call, AddComponent(c) PROVE TypeOK' /\ IndexReset'
  <2>1. component' \in [Request -> Fields]
    <3>1. [component EXCEPT ![c.req][c.op] = c] \in [Request -> Fields]
      BY FieldUpdate
    <3> QED
      BY <1>3, <3>1 DEF AddComponent, ServeAddComponent
  <2> QED
    BY <1>3, <2>1 DEF AddComponent
<1>4. ASSUME NEW c \in Call, NEW v, Counted(c, v) PROVE
        /\ held' \in SUBSET Call /\ pc' \in [Call -> Location]
        /\ ret' \in [Call -> {"none", "0", "-1"}]
        /\ composers' \in SUBSET Call
        /\ UNCHANGED <<next, draft, reviews>>
        /\ \A u \in Call : pc'[u] \notin {"get", "store", "done"} => u = c \/ pc'[u] = pc[u]
  BY <1>4 DEF Counted
<1>5. ASSUME NEW c \in Call, Incr(c) PROVE TypeOK' /\ IndexReset'
  <2>1. counter' \in [Request -> Nat \cup {Absent}]
    BY <1>5 DEF Incr, ServeIncr, Absent
  <2>2. CASE \E v : Counted(c, v)
    BY <1>4, <1>5, <2>1, <2>2 DEF Incr
  <2>3. CASE Abandon(c) /\ UNCHANGED composeVars
    BY <1>5, <2>1, <2>3 DEF Incr
  <2> QED
    BY <1>5, <2>2, <2>3 DEF Incr
<1>6. ASSUME NEW c \in Call, GetCounter(c) PROVE TypeOK' /\ IndexReset'
  <2>1. CASE \E v : Counted(c, v)
    BY <1>4, <1>6, <2>1 DEF GetCounter
  <2>2. CASE Abandon(c) /\ UNCHANGED composeVars
    BY <1>6, <2>2 DEF GetCounter
  <2> QED
    BY <1>6, <2>1, <2>2 DEF GetCounter
<1>7. ASSUME NEW c \in Call, ComposePop(c) PROVE TypeOK' /\ IndexReset'
  BY <1>7 DEF ComposePop
<1>8. ASSUME NEW c \in Call, ComposeGet(c) PROVE TypeOK' /\ IndexReset'
  <2>1. draft' \in [Call -> Fields]
    <3> DEFINE o == Key[next[c]]
    <3>1. o \in Component /\ component[c.req][o] \in Call \cup {NoCall}
      BY ComponentCount DEF Fields
    <3>2. [draft EXCEPT ![c][o] = component[c.req][o]] \in [Call -> Fields]
      <4> HIDE DEF o
      <4> QED
        BY <3>1, FieldUpdate
    <3> QED
      BY <1>8, <3>2 DEF ComposeGet
  <2>2. next' \in [Call -> 1 .. NumComponents]
    BY <1>8 DEF ComposeGet, NumComponents
  <2> QED
    BY <1>8, <2>1, <2>2 DEF ComposeGet
<1>9. ASSUME NEW c \in Call, Store(c) PROVE TypeOK' /\ IndexReset'
  BY <1>9 DEF Store, StoreReview
<1>10. CASE Evict
  <2>1. ASSUME NEW r \in Request, EvictCounter(r) PROVE TypeOK' /\ IndexReset'
    BY <2>1 DEF EvictCounter
  <2>2. ASSUME NEW r \in Request, NEW o \in Component, EvictComponent(r, o)
        PROVE  TypeOK' /\ IndexReset'
    <3>1. component' \in [Request -> Fields]
      BY <2>2 DEF EvictComponent, Fields
    <3> QED
      BY <2>2, <3>1 DEF EvictComponent
  <2> QED
    BY <1>10, <2>1, <2>2 DEF Evict
<1>11. CASE UNCHANGED vars
  BY <1>11 DEF vars
<1> QED
  BY <1>1, <1>2, <1>3, <1>5, <1>6, <1>7, <1>8, <1>9, <1>10, <1>11
     DEF LossyNext, Next, Step


-----------------------------------------------------------------------------
(* Steps of the calls.                                                     *)

\* memcached's answer to add: nothing changes, or a key that was free is set.
CacheGrows(c) ==
  \/ component' = component
  \/ /\ ~Stored(c.req, c.op)
     /\ component' = [component EXCEPT ![c.req][c.op] = c]

\* What is in memcached stays there, each key under its own name, and a settled
\* component stays settled.
LEMMA CacheStep ==
  ASSUME TypeOK, TypeOK', OwnKey, NEW c \in Call, NEW loc \in Location,
         pc' = [pc EXCEPT ![c] = loc], CacheGrows(c),
         loc = "incr" => ~Stored(c.req, c.op)
  PROVE  /\ OwnKey'
         /\ \A r \in Request, o \in Component :
               Stored(r, o) => Stored(r, o)' /\ component'[r][o] = component[r][o]
         /\ \A r \in Request : Settled(r) \subseteq Settled(r)'
         /\ \A r \in Request : Settled(r) \in SUBSET Component /\ Settled(r)' \in SUBSET Component
<1>1. /\ c.req \in Request /\ c.op \in Component /\ NoCall \notin Call
  BY ComposeAssumption
<1>2. \A r \in Request, o \in Component :
         \/ component'[r][o] = component[r][o]
         \/ r = c.req /\ o = c.op /\ ~Stored(r, o) /\ component'[r][o] = c
  BY <1>1 DEF CacheGrows, TypeOK, Fields
<1>3. \A r \in Request, o \in Component :
         Stored(r, o) => Stored(r, o)' /\ component'[r][o] = component[r][o]
  BY <1>2 DEF Stored
<1>4. OwnKey'
  BY <1>1, <1>2 DEF OwnKey, Stored
<1>5. ASSUME NEW r \in Request, NEW o \in Settled(r) PROVE o \in Settled(r)'
  <2>1. /\ o \in Component /\ Stored(r, o) /\ pc[component[r][o]] # "incr"
        /\ component[r][o] \in Call
    BY <1>5 DEF Settled, Stored, TypeOK, Fields
  <2>2. Stored(r, o)' /\ component'[r][o] = component[r][o]
    BY <1>3, <2>1
  <2>3. CASE component[r][o] = c
    <3>1. r = c.req /\ o = c.op
      BY <2>1, <2>3 DEF OwnKey
    <3>2. loc # "incr"
      BY <2>1, <3>1
    <3> QED
      BY <2>1, <2>2, <2>3, <3>2 DEF Settled, TypeOK
  <2>4. CASE component[r][o] # c
    BY <2>1, <2>2, <2>4 DEF Settled, TypeOK
  <2> QED
    BY <2>3, <2>4
<1> QED
  BY <1>3, <1>4, <1>5 DEF Settled

\* The number of settled components of a request does not fall.
LEMMA CountStep ==
  ASSUME TypeOK, TypeOK', OwnKey, NEW c \in Call, NEW loc \in Location,
         pc' = [pc EXCEPT ![c] = loc], CacheGrows(c),
         loc = "incr" => ~Stored(c.req, c.op), NEW r \in Request
  PROVE  /\ Cardinality(Settled(r)) \in Nat
         /\ Cardinality(Settled(r)') \in Nat
         /\ Cardinality(Settled(r)) <= Cardinality(Settled(r)')
<1>1. /\ Settled(r) \subseteq Settled(r)'
      /\ Settled(r) \in SUBSET Component /\ Settled(r)' \in SUBSET Component
  BY CacheStep
<1>2. IsFiniteSet(Settled(r)) /\ IsFiniteSet(Settled(r)')
  BY <1>1, ComponentCount, FS_Subset
<1> QED
  BY <1>1, <1>2, FS_CardinalityType, FS_Subset

\* A step of one call keeps the invariant if the counters, the reviews and what
\* that call itself is composing are all right after it.
LEMMA CallStepKept ==
  ASSUME TypeOK, TypeOK', Kept, NEW c \in Call, NEW loc \in Location,
         pc' = [pc EXCEPT ![c] = loc], CacheGrows(c),
         loc = "incr" => ~Stored(c.req, c.op) /\ component'[c.req][c.op] = c,
         \A u \in Call \ {c} : next'[u] = next[u] /\ draft'[u] = draft[u],
         Composing(c)', CounterNeverAhead', ReviewsComplete'
  PROVE  Kept'
<1>1. /\ OwnKey'
      /\ \A r \in Request, o \in Component :
            Stored(r, o) => Stored(r, o)' /\ component'[r][o] = component[r][o]
  BY CacheStep DEF Kept
<1>2. \A u \in Call : u.req \in Request /\ u.op \in Component /\ u # NoCall
  BY ComposeAssumption
<1>3. pc'[c] = loc /\ \A u \in Call \ {c} : pc'[u] = pc[u]
  BY DEF TypeOK
<1>4. CountsOwn'
  <2> SUFFICES ASSUME NEW u \in Call, pc'[u] = "incr"
               PROVE  component'[u.req][u.op] = u
    BY DEF CountsOwn
  <2>1. CASE u = c
    BY <1>3, <2>1
  <2>2. CASE u # c
    <3>1. component[u.req][u.op] = u
      BY <1>3, <2>2 DEF Kept, CountsOwn
    <3> QED
      BY <1>1, <1>2, <3>1 DEF Stored
  <2> QED
    BY <2>1, <2>2
<1>5. ComposesAll'
  <2> SUFFICES ASSUME NEW u \in Call, u # c PROVE Composing(u)'
    BY DEF ComposesAll
  <2>1. Composing(u)
    BY DEF Kept, ComposesAll
  <2>2. pc'[u] = pc[u] /\ next'[u] = next[u] /\ draft'[u] = draft[u]
    BY <1>3
  <2>3. pc[u] \in {"composePop", "get", "store"} =>
          \A o \in Component : Stored(u.req, o)'
    BY <1>1, <1>2, <2>1 DEF Composing
  <2> QED
    BY <2>1, <2>2, <2>3 DEF Composing
<1> QED
  BY <1>1, <1>4, <1>5 DEF Kept


\* A step that raises no counter above 0.
LEMMA CounterQuiet ==
  ASSUME TypeOK, TypeOK', Kept, NEW c \in Call, NEW loc \in Location,
         pc' = [pc EXCEPT ![c] = loc], CacheGrows(c),
         loc = "incr" => ~Stored(c.req, c.op),
         \A r \in Request : counter'[r] = counter[r] \/ counter'[r] = 0
  PROVE  CounterNeverAhead'
<1> SUFFICES ASSUME NEW r \in Request PROVE counter'[r] <= Cardinality(Settled(r)')
  BY DEF CounterNeverAhead
<1>1. /\ Cardinality(Settled(r)) \in Nat
      /\ Cardinality(Settled(r)') \in Nat
      /\ Cardinality(Settled(r)) <= Cardinality(Settled(r)')
  BY CountStep DEF Kept
<1>2. counter[r] <= Cardinality(Settled(r)) /\ counter[r] \in Int
  BY DEF Kept, CounterNeverAhead, TypeOK, Absent
<1> QED
  BY <1>1, <1>2

\* The increment settles the component of the call that makes it, so the counter
\* may go up by one.
LEMMA CounterIncr ==
  ASSUME TypeOK, TypeOK', Kept, NEW c \in Call, pc[c] = "incr",
         NEW loc \in Location \ {"incr"}, pc' = [pc EXCEPT ![c] = loc],
         UNCHANGED component,
         counter' = counter \/ counter' = [counter EXCEPT ![c.req] = @ + 1]
  PROVE  CounterNeverAhead'
<1> SUFFICES ASSUME NEW r \in Request PROVE counter'[r] <= Cardinality(Settled(r)')
  BY DEF CounterNeverAhead
<1>1. /\ Cardinality(Settled(r)) \in Nat
      /\ Cardinality(Settled(r)') \in Nat
      /\ Cardinality(Settled(r)) <= Cardinality(Settled(r)')
  BY CountStep DEF Kept, CacheGrows
<1>2. counter[r] <= Cardinality(Settled(r)) /\ counter[r] \in Int
  BY DEF Kept, CounterNeverAhead, TypeOK, Absent
<1>3. CASE counter'[r] = counter[r]
  BY <1>1, <1>2, <1>3
<1>4. CASE r = c.req /\ counter'[r] = counter[r] + 1
  <2>1. /\ c.op \in Component /\ c # NoCall
        /\ component[r][c.op] = c
    BY <1>4, ComposeAssumption DEF Kept, CountsOwn
  <2>2. c.op \notin Settled(r)
    BY <2>1 DEF Settled
  <2>3. c.op \in Settled(r)'
    BY <2>1 DEF Settled, Stored, TypeOK
  <2>4. /\ Settled(r) \cup {c.op} \subseteq Settled(r)'
        /\ Settled(r) \in SUBSET Component /\ Settled(r)' \in SUBSET Component
    BY <2>3, CacheStep DEF Kept, CacheGrows
  <2>5. IsFiniteSet(Settled(r)) /\ IsFiniteSet(Settled(r)')
    BY <2>4, ComponentCount, FS_Subset
  <2>6. Cardinality(Settled(r) \cup {c.op}) = Cardinality(Settled(r)) + 1
    BY <2>2, <2>5, FS_AddElement
  <2>7. Cardinality(Settled(r) \cup {c.op}) <= Cardinality(Settled(r)')
    BY <2>4, <2>5, FS_Subset
  <2> QED
    BY <1>1, <1>2, <1>4, <2>6, <2>7
<1> QED
  BY <1>3, <1>4, ComposeAssumption DEF TypeOK

\* A step of one call that neither stores a review nor touches drafts, and takes
\* the call to a place where it composes nothing.
LEMMA PlainStepKept ==
  ASSUME TypeOK, TypeOK', Kept, NEW c \in Call,
         NEW loc \in Location \ {"composePop", "get", "store"},
         pc' = [pc EXCEPT ![c] = loc], CacheGrows(c),
         loc = "incr" => ~Stored(c.req, c.op) /\ component'[c.req][c.op] = c,
         UNCHANGED <<next, draft, reviews>>, CounterNeverAhead'
  PROVE  Kept'
<1>1. Composing(c)'
  BY DEF Composing, TypeOK
<1>2. ReviewsComplete'
  BY DEF Kept, ReviewsComplete
<1> QED
  BY <1>1, <1>2, CallStepKept

\* The end of Upload: the call returns 0, or composes and all components are there.
LEMMA CountedKept ==
  ASSUME TypeOK, TypeOK', Kept, NEW c \in Call, UNCHANGED component,
         Counted(c, counter'[c.req]), CounterNeverAhead'
  PROVE  Kept'
<1>1. UNCHANGED <<next, draft, reviews>> /\ CacheGrows(c)
  BY DEF Counted, CacheGrows
<1>2. CASE ~IsLast(counter'[c.req])
  BY <1>1, <1>2, PlainStepKept DEF Counted, Return, Goto, Location
<1>3. CASE IsLast(counter'[c.req])
  <2>1. pc' = [pc EXCEPT ![c] = "composePop"]
    BY <1>3 DEF Counted, Goto
  <2>2. counter'[c.req] = NumComponents /\ c.req \in Request
    BY <1>3, ComposeAssumption DEF IsLast
  <2>3. \A o \in Component : Stored(c.req, o)'
    <3>1. \A o \in Component : o \in Settled(c.req)'
      <4>1. Settled(c.req)' \in SUBSET Component
        BY DEF Settled
      <4>2. NumComponents <= Cardinality(Settled(c.req)')
        BY <2>2 DEF CounterNeverAhead
      <4> QED
        BY <4>1, <4>2, AllSettled
    <3> QED
      BY <3>1 DEF Settled
  <2>4. Composing(c)'
    BY <2>1, <2>3 DEF Composing, TypeOK
  <2>5. ReviewsComplete'
    BY <1>1 DEF Kept, ReviewsComplete
  <2> QED
    BY <1>1, <2>1, <2>4, <2>5, CallStepKept DEF Location
<1> QED
  BY <1>2, <1>3

\* Every step of a call keeps the invariant.
LEMMA KeptStep ==
  ASSUME IInv, TypeOK', [Next]_vars
  PROVE  Kept'
<1> USE DEF Goto, Return, Abandon, cacheVars, composeVars
<1>0. TypeOK /\ IndexReset /\ Kept
  BY DEF IInv
<1>1. ASSUME NEW c \in Call, Start(c) PROVE Kept'
  <2>1. CacheGrows(c) /\ UNCHANGED <<counter, next, draft, reviews>>
    BY <1>1 DEF Start, CacheGrows
  <2>2. PICK loc \in {"addCounter", "done"} : pc' = [pc EXCEPT ![c] = loc]
    BY <1>1 DEF Start
  <2>3. CounterNeverAhead'
    BY <1>0, <2>1, <2>2, CounterQuiet DEF Location
  <2> QED
    BY <1>0, <2>1, <2>2, <2>3, PlainStepKept DEF Location
<1>2. ASSUME NEW c \in Call, AddCounter(c) PROVE Kept'
  <2>1. CacheGrows(c) /\ UNCHANGED <<next, draft, reviews>>
    BY <1>2 DEF AddCounter, CacheGrows
  <2>2. PICK loc \in {"addComponent", "done"} : pc' = [pc EXCEPT ![c] = loc]
    BY <1>2 DEF AddCounter
  <2>3. \A r \in Request : counter'[r] = counter[r] \/ counter'[r] = 0
    BY <1>0, <1>2 DEF AddCounter, ServeAddCounter, TypeOK
  <2>4. CounterNeverAhead'
    BY <1>0, <2>1, <2>2, <2>3, CounterQuiet DEF Location
  <2> QED
    BY <1>0, <2>1, <2>2, <2>4, PlainStepKept DEF Location
<1>3. ASSUME NEW c \in Call, AddComponent(c) PROVE Kept'
  <2>1. CacheGrows(c) /\ UNCHANGED <<counter, next, draft, reviews>>
    BY <1>3 DEF AddComponent, ServeAddComponent, CacheGrows
  <2>2. PICK loc \in {"getCounter", "incr", "done"} :
           /\ pc' = [pc EXCEPT ![c] = loc]
           /\ loc = "incr" => ~Stored(c.req, c.op) /\ ServeAddComponent(c)
    BY <1>3 DEF AddComponent
  <2>3. loc = "incr" => ~Stored(c.req, c.op) /\ component'[c.req][c.op] = c
    BY <1>0, <2>2, ComposeAssumption DEF ServeAddComponent, TypeOK, Fields
  <2>4. CounterNeverAhead'
    BY <1>0, <2>1, <2>2, <2>3, CounterQuiet DEF Location
  <2> QED
    BY <1>0, <2>1, <2>2, <2>3, <2>4, PlainStepKept DEF Location
<1>4. ASSUME NEW c \in Call, Incr(c) PROVE Kept'
  <2>1. /\ pc[c] = "incr" /\ UNCHANGED component /\ c.req \in Request
        /\ counter' = counter \/ counter' = [counter EXCEPT ![c.req] = @ + 1]
    BY <1>4, ComposeAssumption DEF Incr, ServeIncr
  <2>2. PICK loc \in {"composePop", "done"} : pc' = [pc EXCEPT ![c] = loc]
    BY <1>4 DEF Incr, Counted
  <2>3. CounterNeverAhead'
    BY <1>0, <2>1, <2>2, CounterIncr DEF Location
  <2>4. CASE Counted(c, counter[c.req] + 1) /\ ServeIncr(c.req) /\ counter[c.req] # Absent
    <3>1. counter'[c.req] = counter[c.req] + 1
      BY <1>0, <2>1, <2>4 DEF ServeIncr, TypeOK
    <3> QED
      BY <1>0, <2>1, <2>3, <2>4, <3>1, CountedKept
  <2>5. CASE Abandon(c) /\ UNCHANGED composeVars
    <3>1. pc' = [pc EXCEPT ![c] = "done"] /\ UNCHANGED <<next, draft, reviews>>
      BY <2>5
    <3> QED
      BY <1>0, <2>1, <2>3, <3>1, PlainStepKept DEF Location, CacheGrows
  <2> QED
    BY <1>4, <2>4, <2>5 DEF Incr
<1>5. ASSUME NEW c \in Call, GetCounter(c) PROVE Kept'
  <2>1. UNCHANGED <<counter, component>> /\ CacheGrows(c)
    BY <1>5 DEF GetCounter, CacheGrows
  <2>2. PICK loc \in {"composePop", "done"} : pc' = [pc EXCEPT ![c] = loc]
    BY <1>5 DEF GetCounter, Counted
  <2>3. CounterNeverAhead'
    BY <1>0, <2>1, <2>2, CounterQuiet DEF Location
  <2>4. CASE Counted(c, counter[c.req])
    BY <1>0, <2>1, <2>3, <2>4, CountedKept
  <2>5. CASE Abandon(c) /\ UNCHANGED composeVars
    <3>1. pc' = [pc EXCEPT ![c] = "done"] /\ UNCHANGED <<next, draft, reviews>>
      BY <2>5
    <3> QED
      BY <1>0, <2>1, <2>3, <3>1, PlainStepKept DEF Location
  <2> QED
    BY <1>5, <2>4, <2>5 DEF GetCounter
<1>6. ASSUME NEW c \in Call, ComposePop(c) PROVE Kept'
  <2>1. /\ UNCHANGED <<counter, component, next, draft, reviews>> /\ CacheGrows(c)
        /\ pc[c] = "composePop" /\ next[c] = 1
    BY <1>0, <1>6 DEF ComposePop, CacheGrows, IndexReset
  <2>2. PICK loc \in {"get", "done"} : pc' = [pc EXCEPT ![c] = loc]
    BY <1>6 DEF ComposePop
  <2>3. CounterNeverAhead'
    BY <1>0, <2>1, <2>2, CounterQuiet DEF Location
  <2>4. \A o \in Component : Stored(c.req, o)'
    BY <1>0, <2>1 DEF Kept, ComposesAll, Composing, Stored
  <2>5. Composing(c)'
    BY <1>0, <2>1, <2>2, <2>4 DEF Composing, TypeOK
  <2>6. ReviewsComplete'
    BY <1>0, <2>1 DEF Kept, ReviewsComplete
  <2> QED
    BY <1>0, <2>1, <2>2, <2>3, <2>5, <2>6, CallStepKept DEF Location
<1>7. ASSUME NEW c \in Call, ComposeGet(c) PROVE Kept'
  <2>1. /\ UNCHANGED <<counter, component, reviews>> /\ CacheGrows(c)
        /\ pc[c] = "get"
    BY <1>7 DEF ComposeGet, CacheGrows
  <2>2. PICK loc \in {"get", "store", "done"} : pc' = [pc EXCEPT ![c] = loc]
    BY <1>0, <1>7 DEF ComposeGet, TypeOK
  <2>3. CounterNeverAhead'
    BY <1>0, <2>1, <2>2, CounterQuiet DEF Location
  <2>4. \A u \in Call \ {c} : next'[u] = next[u] /\ draft'[u] = draft[u]
    BY <1>0, <1>7 DEF ComposeGet, TypeOK
  <2>5. \A o \in Component : Stored(c.req, o) /\ Stored(c.req, o)'
    BY <1>0, <2>1 DEF Kept, ComposesAll, Composing, Stored
  <2>6. \A i \in 1 .. NumComponents : i < next[c] => draft[c][Key[i]] # NoCall
    BY <1>0, <2>1 DEF Kept, ComposesAll, Composing
  <2>7. Composing(c)'
    <3>1. CASE loc = "done"
      BY <1>0, <2>2, <3>1 DEF Composing, TypeOK
    <3>2. CASE loc # "done"
      <4>1. /\ pc'[c] = loc
            /\ draft' = [draft EXCEPT ![c][Key[next[c]]] = component[c.req][Key[next[c]]]]
            /\ \/ loc = "get" /\ next'[c] = next[c] + 1
               \/ loc = "store" /\ next[c] = NumComponents
        BY <1>0, <1>7, <2>1, <2>2, <3>2 DEF ComposeGet, TypeOK
      <4>2. /\ next[c] \in 1 .. NumComponents
            /\ Key[next[c]] \in Component
            /\ component[c.req][Key[next[c]]] # NoCall
        BY <1>0, <2>5, ComponentCount DEF TypeOK, Stored
      <4>3. \A o \in Component :
              draft'[c][o] = IF o = Key[next[c]] THEN component[c.req][o] ELSE draft[c][o]
        BY <1>0, <4>1, <4>2 DEF TypeOK, Fields
      <4>4. \A i \in 1 .. NumComponents : i < next[c] + 1 => draft'[c][Key[i]] # NoCall
        <5> SUFFICES ASSUME NEW i \in 1 .. NumComponents, i < next[c] + 1
                     PROVE  draft'[c][Key[i]] # NoCall
          OBVIOUS
        <5>1. i < next[c] \/ i = next[c]
          BY <4>2 DEF NumComponents
        <5>2. Key[i] \in Component
          BY ComponentCount
        <5> QED
          BY <2>6, <4>2, <4>3, <5>1, <5>2
      <4>5. CASE loc = "get"
        BY <2>5, <4>1, <4>4, <4>5 DEF Composing
      <4>6. CASE loc = "store"
        <5>1. \A i \in 1 .. NumComponents : draft'[c][Key[i]] # NoCall
          BY <4>1, <4>4, <4>6 DEF NumComponents
        <5>2. \A o \in Component : draft'[c][o] # NoCall
          BY <5>1, ComponentCount
        <5> QED
          BY <2>5, <4>1, <4>6, <5>2 DEF Composing
      <4> QED
        BY <4>1, <4>5, <4>6
    <3> QED
      BY <3>1, <3>2
  <2>8. ReviewsComplete'
    BY <1>0, <2>1 DEF Kept, ReviewsComplete
  <2> QED
    BY <1>0, <2>1, <2>2, <2>3, <2>4, <2>7, <2>8, CallStepKept DEF Location
<1>8. ASSUME NEW c \in Call, Store(c) PROVE Kept'
  <2>1. /\ UNCHANGED <<counter, component, next, draft>> /\ CacheGrows(c)
        /\ pc[c] = "store" /\ pc' = [pc EXCEPT ![c] = "done"]
    BY <1>8 DEF Store, CacheGrows
  <2>2. CounterNeverAhead'
    BY <1>0, <2>1, CounterQuiet DEF Location
  <2>3. Composing(c)'
    BY <1>0, <2>1 DEF Composing, TypeOK
  <2>4. ReviewsComplete'
    <3>1. \A o \in Component : draft[c][o] # NoCall
      BY <1>0, <2>1 DEF Kept, ComposesAll, Composing
    <3>2. reviews' \subseteq reviews \cup {[req |-> c.req, by |-> c, fields |-> draft[c]]}
      BY <1>8 DEF Store, StoreReview
    <3> QED
      BY <1>0, <3>1, <3>2 DEF Kept, ReviewsComplete
  <2> QED
    BY <1>0, <2>1, <2>2, <2>3, <2>4, CallStepKept DEF Location
<1>9. CASE UNCHANGED vars
  BY <1>0, <1>9 DEF vars, Kept, OwnKey, CountsOwn, CounterNeverAhead, Settled, Stored,
                     ComposesAll, Composing, ReviewsComplete
<1> QED
  BY <1>1, <1>2, <1>3, <1>4, <1>5, <1>6, <1>7, <1>8, <1>9 DEF Next, Step


-----------------------------------------------------------------------------
(* The theorems.                                                           *)

\* The inductive invariant is an invariant.
LEMMA NextIInv == IInv /\ [Next]_vars => IInv'
<1> SUFFICES ASSUME IInv, [Next]_vars PROVE IInv'
  OBVIOUS
<1>1. TypeOK' /\ IndexReset'
  BY TypeStep DEF IInv, LossyNext
<1>2. Kept'
  BY <1>1, KeptStep
<1> QED
  BY <1>1, <1>2 DEF IInv

LEMMA Invariance == Spec => []IInv
  BY InitIInv, NextIInv, PTL DEF Spec

\* The variables of the service keep their types, also if keys are dropped.
THEOREM TypeCorrect == LossySpec => []TypeOK
<1>1. Init => TypeOK /\ IndexReset
  BY InitIInv DEF IInv
<1> QED
  BY <1>1, TypeStep, PTL DEF LossySpec

\* While memcached keeps its keys the counter of a request counts only components that
\* are there, for any number of concurrent, repeated and failing uploads.
THEOREM CounterSound == Spec => []CounterNeverAhead
<1>1. IInv => CounterNeverAhead
  BY DEF IInv, Kept, CounterNeverAhead
<1> QED
  BY <1>1, Invariance, PTL

\* No review is stored with a component missing unless memcached dropped a key.
THEOREM Completeness == Spec => []ReviewsComplete
<1>1. IInv => ReviewsComplete
  BY DEF IInv, Kept, ReviewsComplete
<1> QED
  BY <1>1, Invariance, PTL

-----------------------------------------------------------------------------
(* The refinement of ReviewBoard.                                          *)

\* The components of request r that have arrived, as ReviewBoard sees them, and
\* the requests with a review.
ArrivedFor(r) == {o \in Component : Stored(r, o)}
Posted == {v.req : v \in reviews}

\* A step that changes neither components nor reviews is a stutter of the board.
LEMMA BoardStutter ==
  ASSUME UNCHANGED <<component, reviews>>
  PROVE  UNCHANGED Board!vars
BY DEF Board!vars, Stored

\* An add is an arrival, or a stutter.
LEMMA BoardArrive ==
  ASSUME TypeOK, NEW c \in Call, AddComponent(c)
  PROVE  [Board!Next]_(Board!vars)
<1>1. c.req \in Request /\ c.op \in Component /\ c # NoCall
  BY ComposeAssumption
<1>2. UNCHANGED reviews
  BY DEF AddComponent, composeVars
<1>3. CASE UNCHANGED component
  BY <1>2, <1>3, BoardStutter
<1>4. CASE ~Stored(c.req, c.op) /\ component' = [component EXCEPT ![c.req][c.op] = c]
  <2>1. \A r \in Request :
           ArrivedFor(r)' = IF r = c.req THEN ArrivedFor(r) \cup {c.op} ELSE ArrivedFor(r)
    BY <1>1, <1>4 DEF ArrivedFor, Stored, TypeOK, Fields
  <2>2. [r \in Request |-> ArrivedFor(r)]' =
           [[r \in Request |-> ArrivedFor(r)] EXCEPT ![c.req] = @ \cup {c.op}]
    BY <1>1, <2>1
  <2>3. c.op \notin ArrivedFor(c.req)
    BY <1>4 DEF ArrivedFor
  <2>4. Board!Arrive(c.req, c.op)
    BY <1>1, <1>2, <2>2, <2>3 DEF Board!Arrive, ArrivedFor
  <2> QED
    BY <1>1, <2>4 DEF Board!Next
<1> QED
  BY <1>3, <1>4 DEF AddComponent, ServeAddComponent

\* StoreReview posts the review of a request all of whose components are there,
\* or one that was posted before.
LEMMA BoardPost ==
  ASSUME IInv, NEW c \in Call, Store(c)
  PROVE  [Board!Next]_(Board!vars)
<1>1. c.req \in Request /\ UNCHANGED component
  BY ComposeAssumption DEF Store, cacheVars
<1>2. CASE UNCHANGED reviews
  BY <1>1, <1>2, BoardStutter
<1>3. CASE reviews' = reviews \cup {[req |-> c.req, by |-> c, fields |-> draft[c]]}
  <2>1. Posted' = Posted \cup {c.req}
    <3> DEFINE w == [req |-> c.req, by |-> c, fields |-> draft[c]]
    <3>1. reviews' = reviews \cup {w} /\ w.req = c.req
      BY <1>3
    <3> HIDE DEF w
    <3>2. {v.req : v \in reviews'} = {v.req : v \in reviews} \cup {w.req}
      BY <3>1
    <3> QED
      BY <3>1, <3>2 DEF Posted
  <2>2. UNCHANGED [r \in Request |-> ArrivedFor(r)]
    BY <1>1 DEF ArrivedFor, Stored
  <2>3. ArrivedFor(c.req) = Component
    BY DEF ArrivedFor, IInv, Kept, ComposesAll, Composing, Store
  <2>4. CASE c.req \in Posted
    BY <2>1, <2>2, <2>4 DEF Board!vars, Posted, ArrivedFor
  <2>5. CASE c.req \notin Posted
    <3>1. Board!Post(c.req)
      BY <1>1, <2>1, <2>2, <2>3, <2>5 DEF Board!Post, Posted, ArrivedFor
    <3> QED
      BY <1>1, <3>1 DEF Board!Next
  <2> QED
    BY <2>4, <2>5
<1> QED
  BY <1>2, <1>3 DEF Store, StoreReview

\* As long as memcached keeps its keys the service implements ReviewBoard, for any
\* requests, repeated calls and failures: a review is posted only when all of its
\* components have arrived, and components never leave.
THEOREM BoardRefined == Spec => ImplementsReviewBoard
<1>1. Init => Board!Init
  BY DEF Init, Board!Init, Stored
<1>2. ASSUME IInv, [Next]_vars PROVE [Board!Next]_(Board!vars)
  <2>0. TypeOK
    BY <1>2 DEF IInv
  <2>1. CASE \E c \in Call : AddComponent(c)
    BY <2>0, <2>1, BoardArrive
  <2>2. CASE \E c \in Call : Store(c)
    BY <1>2, <2>2, BoardPost
  <2>3. CASE UNCHANGED <<component, reviews>>
    BY <2>3, BoardStutter
  <2>4. \/ \E c \in Call : AddComponent(c) \/ Store(c)
        \/ UNCHANGED <<component, reviews>>
    BY <1>2 DEF Next, vars, Step, Start, AddCounter, Incr,
                GetCounter, Counted, ComposePop, ComposeGet, cacheVars, composeVars
  <2> QED
    BY <2>1, <2>2, <2>3, <2>4
<1> QED
  BY <1>1, <1>2, Invariance, PTL DEF Spec, ImplementsReviewBoard, Board!Spec

-----------------------------------------------------------------------------
(* The clients of the pool.                                                *)

\* A call changes nobody's hold on a client but its own, and with it its place.
LEMMA LeakStep ==
  ASSUME TypeOK, NoClientLeak, NEW c \in Call, Start(c) \/ Step(c)
  PROVE  NoClientLeak'
<1> USE DEF Goto, Return, Abandon, PushClient, PopClient
<1>1. pc \in [Call -> Location] /\ held \subseteq Call
  BY DEF TypeOK
<1>2. \A d \in Call \ {c} : pc'[d] = pc[d] /\ (d \in held' <=> d \in held)
  BY <1>1 DEF Start, Step, AddCounter, AddComponent, Incr, GetCounter, ComposePop,
       ComposeGet, Store, Counted
<1>3. c \in held' => pc'[c] \notin {"start", "composePop", "store", "done"}
  <2>1. CASE Start(c)
    BY <1>1, <2>1 DEF Start, NoClientLeak
  <2>2. CASE AddCounter(c) \/ AddComponent(c)
    BY <1>1, <2>2 DEF AddCounter, AddComponent
  <2>3. CASE Incr(c) \/ GetCounter(c)
    BY <1>1, <2>3 DEF Incr, GetCounter, Counted
  <2>4. CASE ComposePop(c)
    BY <1>1, <2>4 DEF ComposePop, NoClientLeak
  <2>5. CASE ComposeGet(c)
    BY <1>1, <2>5 DEF ComposeGet
  <2>6. CASE Store(c)
    BY <1>1, <2>6 DEF Store, NoClientLeak
  <2> QED
    BY <2>1, <2>2, <2>3, <2>4, <2>5, <2>6 DEF Step
<1>4. held' \subseteq Call
  BY <1>1 DEF Start, Step, AddCounter, AddComponent, Incr, GetCounter, ComposePop,
       ComposeGet, Store, Counted
<1> QED
  BY <1>2, <1>3, <1>4 DEF NoClientLeak

\* Every step keeps it.
LEMMA LeakNext == TypeOK /\ NoClientLeak /\ [LossyNext]_vars => NoClientLeak'
<1> SUFFICES ASSUME TypeOK, NoClientLeak, [LossyNext]_vars PROVE NoClientLeak'
  OBVIOUS
<1>1. CASE UNCHANGED vars
  BY <1>1 DEF vars, NoClientLeak
<1>2. CASE Evict
  BY <1>2 DEF Evict, EvictCounter, EvictComponent, NoClientLeak
<1>3. CASE \E c \in Call : Start(c) \/ Step(c)
  BY <1>3, LeakStep
<1> QED
  BY <1>1, <1>2, <1>3 DEF LossyNext, Next

\* For any calls, failures and dropped keys, whichever way a call leaves Upload or
\* ComposeAndUpload it has pushed its client back
\* (mc_client_pool_->Push at ComposeReviewHandler.h:102, 120, 165, 191, 202, 211
\* and 218).
THEOREM ClientsReturned == LossySpec => []NoClientLeak
<1>1. Init => NoClientLeak
  BY DEF Init, NoClientLeak
<1> QED
  BY <1>1, LeakNext, TypeCorrect, PTL DEF LossySpec

-----------------------------------------------------------------------------
(* Where the components come from.                                         *)

\* c has got as far as to send its component to memcached.
Passed(c) == pc[c] \notin {"start", "addCounter", "addComponent"}

\* c is an upload of component o that did.
From(c, o) == c \in Call /\ c.op = o /\ Passed(c)

\* What is in memcached, in a draft or in a review under the name of a component
\* was uploaded under that name.
Origin ==
  /\ \A r \in Request, o \in Component : Stored(r, o) => From(component[r][o], o)
  /\ \A c \in Call, o \in Component : draft[c][o] # NoCall => From(draft[c][o], o)
  /\ \A v \in reviews : \A o \in Component : v.fields[o] # NoCall => From(v.fields[o], o)

\* An upload never goes back behind its add.
LEMMA PassedKept ==
  ASSUME TypeOK, [LossyNext]_vars, NEW c \in Call, Passed(c)
  PROVE  Passed(c)'
<1> USE DEF Passed, Goto, Return, Abandon
<1>1. pc \in [Call -> Location]
  BY DEF TypeOK
<1>2. ASSUME NEW d \in Call, Start(d) \/ Step(d) PROVE Passed(c)'
  BY <1>1, <1>2 DEF Start, Step, AddCounter, AddComponent, Incr, GetCounter, Counted, ComposePop,
                    ComposeGet, Store
<1>3. CASE Evict \/ UNCHANGED vars
  BY <1>3 DEF Evict, EvictCounter, EvictComponent, vars
<1> QED
  BY <1>2, <1>3 DEF LossyNext, Next

\* Every step keeps this: ComposeGet copies from memcached, StoreReview from the draft.
LEMMA OriginStep ==
  ASSUME TypeOK, Origin, [LossyNext]_vars
  PROVE  Origin'
<1> USE DEF Goto, Return, Abandon
<1>0. /\ pc \in [Call -> Location] /\ component \in [Request -> [Component -> Call \cup {NoCall}]]
      /\ draft \in [Call -> [Component -> Call \cup {NoCall}]]
  BY DEF TypeOK, Fields
<1> DEFINE FromThen(c, o) == c \in Call /\ c.op = o
                             /\ pc'[c] \notin {"start", "addCounter", "addComponent"}
<1>1. \A c, o : From(c, o) => FromThen(c, o)
  BY PassedKept DEF From, Passed
<1>2. ASSUME NEW r \in Request, NEW o \in Component, component'[r][o] # NoCall
      PROVE  FromThen(component'[r][o], o)
  <2>1. CASE component'[r][o] = component[r][o]
    BY <1>1, <1>2, <2>1 DEF Origin, Stored
  <2>2. CASE component'[r][o] # component[r][o]
    <3>1. ASSUME NEW d \in Call, AddComponent(d) PROVE FromThen(component'[r][o], o)
      <4>1. d.req \in Request /\ d.op \in Component
        BY ComposeAssumption
      <4>2. component' = [component EXCEPT ![d.req][d.op] = d]
        BY <2>2, <3>1 DEF AddComponent, ServeAddComponent
      <4>3. r = d.req /\ o = d.op /\ component'[r][o] = d
        BY <1>0, <2>2, <4>1, <4>2
      <4>4. pc'[d] \in {"getCounter", "incr", "done"}
        BY <1>0, <3>1 DEF AddComponent
      <4> QED
        BY <4>3, <4>4
    <3>2. ASSUME NEW s \in Request, EvictCounter(s) \/ \E p \in Component : EvictComponent(s, p)
          PROVE  FALSE
      BY <1>0, <1>2, <2>2, <3>2 DEF EvictCounter, EvictComponent
    <3>3. component' # component
      BY <2>2
    <3> QED
      BY <3>1, <3>2, <3>3 DEF LossyNext, Next, vars, Step, Evict, Start, AddCounter, Incr, GetCounter,
           ComposePop, ComposeGet, Store, cacheVars
  <2> QED
    BY <2>1, <2>2
<1>3. ASSUME NEW c \in Call, NEW o \in Component, draft'[c][o] # NoCall
      PROVE  FromThen(draft'[c][o], o)
  <2>1. CASE draft'[c][o] = draft[c][o]
    BY <1>1, <1>3, <2>1 DEF Origin
  <2>2. CASE draft'[c][o] # draft[c][o]
    <3>1. PICK d \in Call : ComposeGet(d)
      BY <2>2 DEF LossyNext, Next, vars, Step, Evict, EvictCounter, EvictComponent, Start, AddCounter,
           AddComponent, Incr, GetCounter, Counted, ComposePop, Store, composeVars
    <3>2. d.req \in Request
      BY ComposeAssumption
    <3>3. draft' = [draft EXCEPT ![d][Key[next[d]]] = component[d.req][Key[next[d]]]]
      BY <2>2, <3>1 DEF ComposeGet
    <3>4. draft'[c][o] = component[d.req][o] /\ Stored(d.req, o)
      BY <1>0, <1>3, <2>2, <3>3 DEF Stored
    <3> QED
      BY <1>1, <3>2, <3>4 DEF Origin
  <2> QED
    BY <2>1, <2>2
<1>4. ASSUME NEW v \in reviews', NEW o \in Component, v.fields[o] # NoCall
      PROVE  FromThen(v.fields[o], o)
  <2>1. CASE v \in reviews
    BY <1>1, <1>4, <2>1 DEF Origin
  <2>2. CASE v \notin reviews
    <3>1. PICK d \in Call : Store(d)
      BY <2>2 DEF LossyNext, Next, vars, Step, Evict, EvictCounter, EvictComponent, Start, AddCounter,
           AddComponent, Incr, GetCounter, Counted, ComposePop, ComposeGet, composeVars
    <3>2. v.fields = draft[d]
      BY <2>2, <3>1 DEF Store, StoreReview
    <3> QED
      BY <1>1, <1>4, <3>2 DEF Origin
  <2> QED
    BY <2>1, <2>2
<1> QED
  BY <1>2, <1>3, <1>4 DEF Origin, Stored, From, Passed

-----------------------------------------------------------------------------
(***************************************************************************)
(* Acknowledgement.  As long as nothing that happened to a request has     *)
(* failed, its counter is exact: it lags behind the components by the      *)
(* uploads that have not come to their increment, and the one that brings  *)
(* it to NUM_COMPONENTS composes.  Requests do not disturb each other.     *)
(***************************************************************************)

\* A call has an answer when it is done,
RetAtDone == \A c \in Call : ret[c] = "none" <=> pc[c] # "done"

\* a composer is in ComposeAndUpload or done,
ComposersPast == \A c \in composers : pc[c] \in {"composePop", "get", "store", "done"}

\* and stores the review of its own request.
StoresOwn == \A v \in reviews : v.req = v.by.req

Books == RetAtDone /\ ComposersPast /\ StoresOwn

\* Who is past the add of the counter finds it there,
CounterThere(r) ==
  \A c \in Call : c.req = r /\ pc[c] \notin {"start", "addCounter"} => counter[r] # Absent

\* who is past the add of the component has it in memcached, its own or an earlier one,
UploadStored(r) == \A c \in Call : c.req = r /\ Passed(c) => Stored(r, c.op)

\* every settled component was counted,
CounterComplete(r) == counter[r] # Absent => counter[r] >= Cardinality(Settled(r))

\* and the upload that brought the counter to NUM_COMPONENTS has entered ComposeAndUpload.
LastComposes(r) == counter[r] = NumComponents => \E c \in composers : c.req = r

Smooth(r) == CounterThere(r) /\ UploadStored(r) /\ CounterComplete(r) /\ LastComposes(r)

\* The inductive invariant.
SmoothInv == /\ IInv /\ Origin /\ Books
             /\ \A r \in Request : Undisturbed(r) => Smooth(r)

\* The part of it that dropped keys cannot hurt.
LossyInv == TypeOK /\ IndexReset /\ Origin /\ Books

\* A step of a call leaves the other calls and the other requests alone.
LEMMA CallMoves ==
  ASSUME TypeOK, NEW c \in Call, Start(c) \/ Step(c)
  PROVE  /\ pc[c] # "done" /\ pc' = [pc EXCEPT ![c] = pc'[c]]
         /\ pc'[c] \in Location \ {"start"}
         /\ \A d \in Call \ {c} : pc'[d] = pc[d] /\ ret'[d] = ret[d]
         /\ \A r \in Request : r # c.req => counter'[r] = counter[r] /\ component'[r] = component[r]
         /\ composers \subseteq composers' /\ reviews \subseteq reviews'
<1> USE ComposeAssumption DEF Goto, Return, Abandon, cacheVars, composeVars, Location
<1>1. /\ pc \in [Call -> Location] /\ ret \in [Call -> {"none", "0", "-1"}]
      /\ counter \in [Request -> Nat \cup {Absent}] /\ component \in [Request -> Fields]
  BY DEF TypeOK
<1>2. /\ pc[c] # "done" /\ pc' = [pc EXCEPT ![c] = pc'[c]]
      /\ pc'[c] \in Location \ {"start"}
      /\ \A d \in Call \ {c} : pc'[d] = pc[d] /\ ret'[d] = ret[d]
      /\ composers \subseteq composers' /\ reviews \subseteq reviews'
  <2>1. CASE Start(c)
    BY <1>1, <2>1 DEF Start
  <2>2. CASE AddCounter(c) \/ AddComponent(c)
    BY <1>1, <2>2 DEF AddCounter, AddComponent
  <2>3. CASE Incr(c) \/ GetCounter(c)
    BY <1>1, <2>3 DEF Incr, GetCounter, Counted
  <2>4. CASE ComposePop(c) \/ Store(c)
    BY <1>1, <2>4 DEF ComposePop, Store, StoreReview
  <2>5. CASE ComposeGet(c)
    BY <1>1, <2>5 DEF ComposeGet
  <2> QED
    BY <2>1, <2>2, <2>3, <2>4, <2>5 DEF Step
<1>3. ASSUME NEW r \in Request, r # c.req
      PROVE  counter'[r] = counter[r] /\ component'[r] = component[r]
  <2>1. CASE AddCounter(c)
    BY <1>1, <1>3, <2>1 DEF AddCounter, ServeAddCounter
  <2>2. CASE AddComponent(c)
    BY <1>1, <1>3, <2>2 DEF AddComponent, ServeAddComponent
  <2>3. CASE Incr(c)
    BY <1>1, <1>3, <2>3 DEF Incr, ServeIncr
  <2>4. CASE Start(c) \/ GetCounter(c) \/ ComposePop(c) \/ ComposeGet(c) \/ Store(c)
    BY <2>4 DEF Start, GetCounter, ComposePop, ComposeGet, Store
  <2> QED
    BY <2>1, <2>2, <2>3, <2>4 DEF Step
<1> QED
  BY <1>2, <1>3

\* The books are kept.
LEMMA BooksStep ==
  ASSUME TypeOK, Books, [LossyNext]_vars
  PROVE  Books'
<1> USE DEF Goto, Return, Abandon, cacheVars, composeVars
<1>1. pc \in [Call -> Location] /\ ret \in [Call -> {"none", "0", "-1"}] /\ composers \subseteq Call
  BY DEF TypeOK
<1>2. ASSUME NEW c \in Call, Start(c) \/ Step(c) PROVE Books'
  <2>1. /\ pc[c] # "done" /\ \A d \in Call \ {c} : pc'[d] = pc[d] /\ ret'[d] = ret[d]
    BY <1>2, CallMoves
  <2>2. /\ ret'[c] = "none" <=> pc'[c] # "done"
        /\ composers' \subseteq composers \cup {c}
        /\ c \in composers' => pc'[c] \in {"composePop", "get", "store", "done"}
    <3>1. CASE Start(c)
      BY <1>1, <2>1, <3>1 DEF Start, Books, RetAtDone, ComposersPast
    <3>2. CASE AddCounter(c) \/ AddComponent(c)
      BY <1>1, <2>1, <3>2 DEF AddCounter, AddComponent, Books, RetAtDone, ComposersPast
    <3>3. CASE Incr(c) \/ GetCounter(c)
      BY <1>1, <2>1, <3>3 DEF Incr, GetCounter, Counted, Books, RetAtDone, ComposersPast
    <3>4. CASE ComposePop(c) \/ Store(c)
      BY <1>1, <2>1, <3>4 DEF ComposePop, Store, Books, RetAtDone, ComposersPast
    <3>5. CASE ComposeGet(c)
      BY <1>1, <2>1, <3>5 DEF ComposeGet, Books, RetAtDone, ComposersPast
    <3> QED
      BY <1>2, <3>1, <3>2, <3>3, <3>4, <3>5 DEF Step
  <2>3. RetAtDone'
    BY <2>1, <2>2 DEF Books, RetAtDone
  <2>4. ComposersPast'
    BY <1>1, <2>1, <2>2 DEF Books, ComposersPast
  <2>5. StoresOwn'
    <3>1. CASE reviews' = reviews
      BY <3>1 DEF Books, StoresOwn
    <3>2. CASE StoreReview(c)
      <4> DEFINE w == [req |-> c.req, by |-> c, fields |-> draft[c]]
      <4>1. reviews' = reviews \cup {w} /\ w.req = c.req /\ w.by = c
        BY <3>2 DEF StoreReview
      <4> HIDE DEF w
      <4> QED
        BY <4>1 DEF Books, StoresOwn
    <3> QED
      BY <1>2, <3>1, <3>2 DEF Start, Step, AddCounter, AddComponent, Incr, GetCounter, Counted,
           ComposePop, ComposeGet, Store
  <2> QED
    BY <2>3, <2>4, <2>5 DEF Books
<1>3. CASE Evict \/ UNCHANGED vars
  BY <1>3 DEF Evict, EvictCounter, EvictComponent, vars, Books, RetAtDone, ComposersPast, StoresOwn
<1> QED
  BY <1>2, <1>3 DEF LossyNext, Next

\* What has failed for a request stays failed.
LEMMA StaysDisturbed ==
  ASSUME TypeOK, Books, [LossyNext]_vars, NEW r \in Request, Undisturbed(r)'
  PROVE  Undisturbed(r)
<1>1. CASE Evict \/ UNCHANGED vars
  BY <1>1 DEF Evict, EvictCounter, EvictComponent, composeVars, vars, Undisturbed
<1>2. ASSUME NEW c \in Call, Start(c) \/ Step(c) PROVE Undisturbed(r)
  <2>1. /\ pc[c] # "done" /\ composers \subseteq composers'
        /\ \A d \in Call \ {c} : pc'[d] = pc[d] /\ ret'[d] = ret[d]
    BY <1>2, CallMoves
  <2>2. ret[c] = "none"
    BY <2>1 DEF Books, RetAtDone
  <2>3. ASSUME NEW d \in Call, d # c, NEW v \in reviews', v.by = d PROVE v \in reviews
    <3>1. reviews' = reviews \/ StoreReview(c)
      BY <1>2 DEF Start, Step, AddCounter, AddComponent, Incr, GetCounter, Counted, ComposePop,
           ComposeGet, Store, composeVars
    <3> QED
      BY <2>3, <3>1 DEF StoreReview
  <2> QED
    BY <2>1, <2>2, <2>3 DEF Undisturbed
<1> QED
  BY <1>1, <1>2 DEF LossyNext, Next

\* No component is settled by a step that is not an increment.
LEMMA SettlesNone ==
  ASSUME TypeOK, NEW c \in Call, NEW loc \in Location, pc' = [pc EXCEPT ![c] = loc],
         pc[c] # "incr", CacheGrows(c), component' = component \/ loc = "incr",
         TypeOK', NEW r \in Request
  PROVE  Cardinality(Settled(r)') <= Cardinality(Settled(r))
<1>1. ASSUME NEW o \in Component, o \in Settled(r)' PROVE o \in Settled(r)
  <2>1. /\ component'[r][o] # NoCall /\ pc'[component'[r][o]] # "incr"
        /\ component'[r][o] \in Call
    BY <1>1 DEF Settled, Stored, TypeOK, Fields
  <2>2. component'[r][o] = component[r][o]
    <3>1. CASE component' = component
      BY <3>1
    <3>2. CASE component' # component
      <4>1. pc'[c] = "incr" /\ component' = [component EXCEPT ![c.req][c.op] = c]
        BY <3>2 DEF CacheGrows, TypeOK
      <4>2. component'[r][o] # c
        BY <2>1, <4>1
      <4> QED
        BY <4>1, <4>2, ComposeAssumption DEF TypeOK, Fields
    <3> QED
      BY <3>1, <3>2
  <2>3. pc[component[r][o]] # "incr"
    BY <2>1, <2>2 DEF TypeOK
  <2> QED
    BY <2>1, <2>2, <2>3 DEF Settled, Stored
<1>2. Settled(r)' \subseteq Settled(r) /\ Settled(r) \in SUBSET Component
  BY <1>1 DEF Settled
<1>3. IsFiniteSet(Settled(r))
  BY <1>2, ComponentCount, FS_Subset
<1> QED
  BY <1>2, <1>3, FS_Subset

\* The increment settles the component of the call that makes it, and no other.
LEMMA SettlesOwn ==
  ASSUME TypeOK, OwnKey, NEW c \in Call, NEW loc \in Location, pc' = [pc EXCEPT ![c] = loc],
         UNCHANGED component, NEW r \in Request
  PROVE  /\ Cardinality(Settled(r)') <= Cardinality(Settled(r)) + 1
         /\ r # c.req => Settled(r)' = Settled(r)
         /\ Cardinality(Settled(r)) \in Nat /\ Cardinality(Settled(r)') \in Nat
<1>1. ASSUME NEW o \in Component, ~(r = c.req /\ o = c.op)
      PROVE  o \in Settled(r)' <=> o \in Settled(r)
  <2>1. Stored(r, o) => component[r][o] \in Call \ {c}
    BY <1>1 DEF OwnKey, Stored, TypeOK, Fields
  <2> QED
    BY <2>1 DEF Settled, Stored, TypeOK
<1>2. /\ Settled(r)' \subseteq Settled(r) \cup {c.op}
      /\ Settled(r) \in SUBSET Component /\ Settled(r)' \in SUBSET Component
  BY <1>1 DEF Settled
<1>3. IsFiniteSet(Settled(r)) /\ IsFiniteSet(Settled(r)')
  BY <1>2, ComponentCount, FS_Subset
<1>4. /\ IsFiniteSet(Settled(r) \cup {c.op})
      /\ Cardinality(Settled(r) \cup {c.op}) <= Cardinality(Settled(r)) + 1
  <2>1. /\ IsFiniteSet(Settled(r) \cup {c.op})
        /\ Cardinality(Settled(r) \cup {c.op}) =
             IF c.op \in Settled(r) THEN Cardinality(Settled(r)) ELSE Cardinality(Settled(r)) + 1
    BY <1>3, FS_AddElement
  <2>2. Cardinality(Settled(r)) \in Nat
    BY <1>3, FS_CardinalityType
  <2> QED
    BY <2>1, <2>2
<1>5. Cardinality(Settled(r)') <= Cardinality(Settled(r) \cup {c.op})
  BY <1>2, <1>4, FS_Subset
<1>6. r # c.req => Settled(r)' = Settled(r)
  BY <1>1, <1>2
<1> QED
  BY <1>3, <1>4, <1>5, <1>6, FS_CardinalityType

\* A step of a call of another request.
LEMMA SmoothElsewhere ==
  ASSUME TypeOK, OwnKey, NEW c \in Call, Start(c) \/ Step(c),
         NEW r \in Request, r # c.req, Smooth(r)
  PROVE  Smooth(r)'
<1>1. /\ counter'[r] = counter[r] /\ component'[r] = component[r] /\ composers \subseteq composers'
      /\ \A d \in Call : d.req = r => pc'[d] = pc[d]
  BY CallMoves
<1>2. \A o \in Component : Stored(r, o) => component[r][o] \in Call /\ component[r][o].req = r
  BY DEF OwnKey, Stored, TypeOK, Fields
<1>3. Settled(r)' = Settled(r)
  BY <1>1, <1>2 DEF Settled, Stored
<1> QED
  BY <1>1, <1>3 DEF Smooth, CounterThere, UploadStored, CounterComplete, LastComposes, Passed, Stored

\* A step that leaves the counter alone.
LEMMA SmoothQuiet ==
  ASSUME TypeOK, TypeOK', NEW c \in Call, Smooth(c.req), NEW loc \in Location,
         pc' = [pc EXCEPT ![c] = loc], pc[c] # "incr", CacheGrows(c),
         component' = component \/ loc = "incr",
         UNCHANGED counter, composers \subseteq composers',
         CounterThere(c.req)', UploadStored(c.req)'
  PROVE  Smooth(c.req)'
<1> DEFINE r == c.req
<1>0. r \in Request
  BY ComposeAssumption
<1>1. CounterComplete(r)'
  <2> SUFFICES ASSUME counter[r] # Absent
               PROVE  counter[r] >= Cardinality(Settled(r)')
    BY DEF CounterComplete
  <2>1. counter[r] >= Cardinality(Settled(r))
    BY DEF Smooth, CounterComplete
  <2>2. Cardinality(Settled(r)') <= Cardinality(Settled(r))
    BY <1>0, SettlesNone
  <2>3. Settled(r) \in SUBSET Component /\ Settled(r)' \in SUBSET Component
    BY DEF Settled
  <2>4. Cardinality(Settled(r)) \in Nat /\ Cardinality(Settled(r)') \in Nat
    BY <2>3, ComponentCount, FS_Subset, FS_CardinalityType
  <2>5. counter[r] \in Nat
    BY <1>0 DEF TypeOK
  <2> QED
    BY <2>1, <2>2, <2>4, <2>5
<1>2. LastComposes(r)'
  BY DEF Smooth, LastComposes
<1> QED
  BY <1>1, <1>2 DEF Smooth

\* A step of a call of the request, if nothing of the request has failed after it.
LEMMA SmoothOwn ==
  ASSUME SmoothInv, TypeOK', NEW c \in Call, Start(c) \/ Step(c),
         Smooth(c.req), ret'[c] # "-1"
  PROVE  Smooth(c.req)'
<1> DEFINE r == c.req
<1> USE DEF Goto, Return, Abandon, cacheVars, composeVars
<1>0. /\ TypeOK /\ OwnKey /\ CounterNeverAhead /\ Books /\ r \in Request /\ c.op \in Component
      /\ c # NoCall
      /\ pc \in [Call -> Location] /\ ret \in [Call -> {"none", "0", "-1"}]
      /\ counter \in [Request -> Nat \cup {Absent}]
      /\ component \in [Request -> [Component -> Call \cup {NoCall}]]
  BY ComposeAssumption DEF SmoothInv, IInv, Kept, TypeOK, Fields
<1>1. CASE Start(c)
  <2>1. /\ pc[c] = "start" /\ pc' = [pc EXCEPT ![c] = "addCounter"]
        /\ UNCHANGED <<counter, component, composers>>
    BY <1>0, <1>1 DEF Start
  <2>2. CounterThere(r)' /\ UploadStored(r)'
    BY <1>0, <2>1 DEF Smooth, CounterThere, UploadStored, Passed, Stored
  <2> QED
    BY <1>0, <2>1, <2>2, SmoothQuiet DEF CacheGrows, Location
<1>2. CASE AddCounter(c)
  <2>1. /\ pc[c] = "addCounter" /\ pc' = [pc EXCEPT ![c] = "addComponent"]
        /\ ServeAddCounter(c.req) /\ UNCHANGED <<component, composers>>
    BY <1>0, <1>2 DEF AddCounter
  <2>2. counter'[r] = IF counter[r] = Absent THEN 0 ELSE counter[r]
    BY <1>0, <2>1 DEF ServeAddCounter
  <2>3. CounterThere(r)' /\ UploadStored(r)'
    BY <1>0, <2>1, <2>2 DEF Smooth, CounterThere, UploadStored, Passed, Stored, Absent
  <2>4. LastComposes(r)'
    BY <1>0, <2>1, <2>2 DEF Smooth, LastComposes, NumComponents
  <2>5. CounterComplete(r)'
    <3> SUFFICES counter'[r] >= Cardinality(Settled(r)')
      BY DEF CounterComplete
    <3>1. Cardinality(Settled(r)') <= Cardinality(Settled(r))
      BY <1>0, <2>1, SettlesNone DEF CacheGrows, Location
    <3>2. Settled(r) \in SUBSET Component /\ Settled(r)' \in SUBSET Component
      BY DEF Settled
    <3>3. Cardinality(Settled(r)) \in Nat /\ Cardinality(Settled(r)') \in Nat
      BY <3>2, ComponentCount, FS_Subset, FS_CardinalityType
    <3>4. CASE counter[r] # Absent
      BY <1>0, <2>2, <3>1, <3>3, <3>4 DEF Smooth, CounterComplete
    \* Nothing is stored yet: who has stored something has added the counter before.
    <3>5. CASE counter[r] = Absent
      <4>1. \A o \in Component : ~Stored(r, o)
        <5> SUFFICES ASSUME NEW o \in Component, Stored(r, o) PROVE FALSE
          OBVIOUS
        <5>1. From(component[r][o], o) /\ component[r][o].req = r
          BY <1>0 DEF SmoothInv, Origin, OwnKey
        <5> QED
          BY <1>0, <3>5, <5>1 DEF From, Passed, Smooth, CounterThere
      <4>2. Settled(r) = {}
        BY <4>1 DEF Settled
      <4>3. Cardinality(Settled(r)) = 0
        BY <4>2, FS_EmptySet
      <4> QED
        BY <2>2, <3>1, <3>3, <3>5, <4>3
    <3> QED
      BY <3>4, <3>5
  <2> QED
    BY <2>3, <2>4, <2>5 DEF Smooth
<1>3. CASE AddComponent(c)
  <2>1. /\ pc[c] = "addComponent" /\ ServeAddComponent(c)
        /\ pc' = [pc EXCEPT ![c] = IF Stored(c.req, c.op) THEN "getCounter" ELSE "incr"]
        /\ UNCHANGED <<counter, composers>>
    BY <1>0, <1>3 DEF AddComponent
  <2>2. PICK loc \in {"getCounter", "incr"} :
          /\ pc' = [pc EXCEPT ![c] = loc] /\ CacheGrows(c)
          /\ component' = component \/ loc = "incr"
    BY <2>1 DEF ServeAddComponent, CacheGrows
  <2>3. CounterThere(r)'
    BY <1>0, <2>1, <2>2 DEF Smooth, CounterThere
  <2>4. UploadStored(r)'
    <3>1. \A o \in Component : Stored(r, o) => component'[r][o] # NoCall
      BY <1>0, <2>1 DEF ServeAddComponent, Stored
    <3>2. component'[r][c.op] # NoCall
      BY <1>0, <2>1 DEF ServeAddComponent, Stored
    <3>3. \A d \in Call : d.op \in Component
      BY ComposeAssumption
    <3> QED
      BY <1>0, <2>2, <3>1, <3>2, <3>3 DEF Smooth, UploadStored, Passed, Stored
  <2> QED
    BY <1>0, <2>1, <2>2, <2>3, <2>4, SmoothQuiet DEF Location
<1>4. CASE Incr(c)
  <2>1. counter[r] # Absent /\ counter[r] \in Nat
    BY <1>0, <1>4 DEF Smooth, CounterThere, Incr
  <2>2. /\ pc[c] = "incr" /\ counter' = [counter EXCEPT ![c.req] = @ + 1]
        /\ Counted(c, counter[c.req] + 1) /\ UNCHANGED component
    BY <1>0, <1>4, <2>1 DEF Incr, ServeIncr
  <2>3. counter'[r] = counter[r] + 1
    BY <1>0, <2>1, <2>2
  <2>4. PICK loc \in {"composePop", "done"} :
          /\ pc' = [pc EXCEPT ![c] = loc]
          /\ IsLast(counter'[r]) => c \in composers'
    BY <2>2, <2>3 DEF Counted
  <2>5. LastComposes(r)'
    BY <2>4 DEF LastComposes, IsLast
  <2>6. CounterComplete(r)'
    <3>1. /\ Cardinality(Settled(r)') <= Cardinality(Settled(r)) + 1
          /\ Cardinality(Settled(r)) \in Nat /\ Cardinality(Settled(r)') \in Nat
      BY <1>0, <2>2, <2>4, SettlesOwn DEF Location
    <3> QED
      BY <1>0, <2>1, <2>3, <3>1 DEF Smooth, CounterComplete
  <2>7. CounterThere(r)' /\ UploadStored(r)'
    BY <1>0, <2>1, <2>2, <2>3, <2>4 DEF Smooth, CounterThere, UploadStored, Passed, Stored, Absent
  <2> QED
    BY <2>5, <2>6, <2>7 DEF Smooth
<1>5. CASE GetCounter(c)
  <2>1. counter[r] # Absent
    BY <1>0, <1>5 DEF Smooth, CounterThere, GetCounter
  <2>2. pc[c] = "getCounter" /\ Counted(c, counter[c.req]) /\ UNCHANGED <<counter, component>>
    BY <1>0, <1>5, <2>1 DEF GetCounter
  <2>3. PICK loc \in {"composePop", "done"} :
          pc' = [pc EXCEPT ![c] = loc] /\ composers \subseteq composers'
    BY <2>2 DEF Counted
  <2>4. CounterThere(r)' /\ UploadStored(r)'
    BY <1>0, <2>2, <2>3 DEF Smooth, CounterThere, UploadStored, Passed, Stored
  <2> QED
    BY <1>0, <2>2, <2>3, <2>4, SmoothQuiet DEF CacheGrows, Location
<1>6. CASE ComposePop(c) \/ ComposeGet(c) \/ Store(c)
  <2>1. PICK loc \in {"get", "store", "done"} :
          /\ pc[c] \in {"composePop", "get", "store"} /\ pc' = [pc EXCEPT ![c] = loc]
          /\ UNCHANGED <<counter, component, composers>>
    BY <1>0, <1>6 DEF ComposePop, ComposeGet, Store
  <2>2. CounterThere(r)' /\ UploadStored(r)'
    BY <1>0, <2>1 DEF Smooth, CounterThere, UploadStored, Passed, Stored
  <2> QED
    BY <1>0, <2>1, <2>2, SmoothQuiet DEF CacheGrows, Location
<1> QED
  BY <1>1, <1>2, <1>3, <1>4, <1>5, <1>6 DEF Step

\* Initially nothing has happened.
LEMMA SmoothInit == Init => SmoothInv
<1> SUFFICES ASSUME Init PROVE SmoothInv
  OBVIOUS
<1>1. IInv /\ Origin /\ Books
  BY InitIInv, ComposeAssumption
     DEF Init, Origin, Stored, Books, RetAtDone, ComposersPast, StoresOwn
<1>2. \A r \in Request : CounterThere(r) /\ UploadStored(r) /\ LastComposes(r) /\ CounterComplete(r)
  BY DEF Init, CounterThere, UploadStored, LastComposes, CounterComplete, Passed, Absent,
         NumComponents
<1> QED
  BY <1>1, <1>2 DEF SmoothInv, Smooth

\* Any step, also one that drops a key, preserves that part.
LEMMA LossyStep == LossyInv /\ [LossyNext]_vars => LossyInv'
BY TypeStep, OriginStep, BooksStep DEF LossyInv

\* A step of a call preserves the whole.
LEMMA SmoothNext == SmoothInv /\ [Next]_vars => SmoothInv'
<1> SUFFICES ASSUME SmoothInv, [Next]_vars PROVE SmoothInv'
  OBVIOUS
<1>0. [LossyNext]_vars
  BY DEF LossyNext
<1>1. TypeOK /\ TypeOK' /\ IInv'
  BY NextIInv DEF SmoothInv, IInv
<1>2. Origin' /\ Books'
  BY <1>0, <1>1, OriginStep, BooksStep DEF SmoothInv
<1>3. ASSUME NEW r \in Request, Undisturbed(r)' PROVE Smooth(r)'
  <2>1. Smooth(r) /\ OwnKey
    BY <1>0, <1>1, <1>3, StaysDisturbed DEF SmoothInv, IInv, Kept
  <2>2. ASSUME NEW c \in Call, Start(c) \/ Step(c) PROVE Smooth(r)'
    <3>1. CASE c.req = r
      BY <1>1, <1>3, <2>1, <2>2, <3>1, SmoothOwn DEF Undisturbed
    <3>2. CASE c.req # r
      BY <1>1, <2>1, <2>2, <3>2, SmoothElsewhere
    <3> QED
      BY <3>1, <3>2
  <2>3. CASE UNCHANGED vars
    BY <2>1, <2>3 DEF vars, Smooth, CounterThere, UploadStored, CounterComplete, LastComposes,
         Settled, Stored, Passed
  <2> QED
    BY <2>2, <2>3 DEF Next
<1> QED
  BY <1>1, <1>2, <1>3 DEF SmoothInv

\* A request whose uploads were all answered with 0 has its review.
LEMMA SmoothAck == SmoothInv => AckMeansStored
<1> SUFFICES ASSUME SmoothInv, NEW r \in Request, Undisturbed(r), Acknowledged(r)
             PROVE  \E v \in reviews : v.req = r
  BY DEF AckMeansStored
<1>0. /\ Smooth(r) /\ TypeOK /\ OwnKey /\ CounterNeverAhead /\ Books
      /\ \A c \in Call : c.req = r => pc[c] \in {"start", "done"}
  BY DEF SmoothInv, IInv, Kept, Acknowledged
<1>1. ASSUME NEW o \in Component PROVE o \in Settled(r)
  <2>1. PICK c \in Call : c.req = r /\ c.op = o /\ ret[c] = "0"
    BY DEF Acknowledged
  <2>2. pc[c] = "done"
    BY <1>0, <2>1 DEF Books, RetAtDone
  <2>3. Stored(r, o)
    BY <1>0, <2>1, <2>2 DEF Smooth, UploadStored, Passed
  <2>4. component[r][o] \in Call /\ component[r][o].req = r
    BY <1>0, <2>3 DEF OwnKey, Stored, TypeOK, Fields
  <2> QED
    BY <1>0, <2>3, <2>4 DEF Settled
<1>2. Settled(r) = Component
  BY <1>1 DEF Settled
<1>3. counter[r] # Absent
  <2>1. PICK c \in Call : c.req = r /\ ret[c] = "0"
    BY DEF Acknowledged, Component
  <2>2. pc[c] = "done"
    BY <1>0, <2>1 DEF Books, RetAtDone
  <2> QED
    BY <1>0, <2>1, <2>2 DEF Smooth, CounterThere
<1>4. counter[r] = NumComponents
  BY <1>0, <1>2, <1>3, ComponentCount
     DEF Smooth, CounterComplete, CounterNeverAhead, TypeOK, NumComponents
<1>5. PICK c \in composers : c.req = r
  BY <1>0, <1>4 DEF Smooth, LastComposes
<1>6. c \in Call /\ pc[c] = "done"
  BY <1>0, <1>5 DEF TypeOK, Books, ComposersPast
<1>7. PICK v \in reviews : v.by = c
  BY <1>5, <1>6 DEF Undisturbed
<1> QED
  BY <1>0, <1>5, <1>7 DEF Books, StoresOwn

\* For any requests, calls, repetitions and failures: a request all of whose components were
\* uploaded with answer 0 has its review in the storage as soon as no upload is running, unless
\* one of its uploads was answered with -1, its composing failed
\* (ComposeReviewHandler.h:224 does not look at the result) or memcached dropped a key.
THEOREM AckStored == Spec => []AckMeansStored
<1> QED
  BY SmoothInit, SmoothNext, SmoothAck, PTL DEF Spec

-----------------------------------------------------------------------------
(***************************************************************************)
(* Uniqueness.  The counter is at most the number of calls of the request  *)
(* that are past the increment, whichever way they took.  When a call      *)
(* brings the counter to four, calls for all components are past it: none  *)
(* of them was a composer before, and whoever could become one later would *)
(* be a repetition.  A composer stores its review once.                    *)
(***************************************************************************)

\* The calls of request r, and those of them that will not touch its counter again.
Calls(r) == {c \in Call : c.req = r}
Past(r) == {c \in Calls(r) : pc[c] \in {"composePop", "get", "store", "done"}}

\* What is stored was stored by a call that is past the add, so that without
\* repetition no call finds its component stored.
StoredByPassed ==
  /\ \A r \in Request, o \in Component : Stored(r, o) =>
        /\ component[r][o] \in Call
        /\ component[r][o].req = r /\ component[r][o].op = o
        /\ pc[component[r][o]] \notin {"start", "addCounter", "addComponent"}
  /\ \A c \in Call : pc[c] # "getCounter"

CounterBelowPast == \A r \in Request : counter[r] <= Cardinality(Past(r))

ComposerIsLast ==
  /\ \A c \in Call : pc[c] \in {"composePop", "get", "store"} => c \in composers
  /\ \A c \in composers : \A o \in Component : \E d \in Past(c.req) : d.op = o
  /\ \A c, d \in composers : c.req = d.req => c = d

StoredByComposer ==
  /\ \A v \in reviews : /\ v.by \in composers /\ v.req = v.by.req
                        /\ pc[v.by] = "done"
  /\ \A v, w \in reviews : v.by = w.by => v = w

Once == StoredByPassed /\ CounterBelowPast /\ ComposerIsLast /\ StoredByComposer

OnceInv == TypeOK /\ IndexReset /\ (NoDuplicates => Once)

-----------------------------------------------------------------------------
\* NUM_COMPONENTS calls without repetition are for all components.
LEMMA FullHouse ==
  ASSUME NEW P, P \subseteq Call, \A c, d \in P : c.op = d.op => c = d,
         NumComponents <= Cardinality(P)
  PROVE  \A o \in Component : \E d \in P : d.op = o
<1> SUFFICES ASSUME NEW o \in Component, \A d \in P : d.op # o PROVE FALSE
  OBVIOUS
<1> DEFINE f == [c \in P |-> c.op]
           Others == Component \ {o}
<1>1. IsFiniteSet(P)
  BY FiniteCalls, FS_Subset
<1>2. f \in Injection(P, Others)
  BY ComposeAssumption DEF Injection, IsInjective
<1>3. IsFiniteSet(Component) /\ Cardinality(Component) = NumComponents
  BY ComponentCount
<1>4. IsFiniteSet(Others) /\ Cardinality(Others) = NumComponents - 1
  BY <1>3, FS_RemoveElement
<1>5. Cardinality(P) <= Cardinality(Others)
  BY <1>1, <1>2, <1>4, FS_Injection
<1>6. Cardinality(P) \in Nat
  BY <1>1, FS_CardinalityType
<1> QED
  BY <1>4, <1>5, <1>6 DEF NumComponents

\* Nothing takes a repetition back.
LEMMA StaysRepeated ==
  ASSUME TypeOK, [LossyNext]_vars, NoDuplicates'
  PROVE  NoDuplicates
<1>1. \A c \in Call : pc[c] # "start" => pc'[c] # "start"
  <2>1. ASSUME NEW c \in Call, Start(c) \/ Step(c)
        PROVE  \A u \in Call : pc[u] # "start" => pc'[u] # "start"
    BY <2>1, CallMoves DEF TypeOK
  <2>2. CASE UNCHANGED pc
    BY <2>2
  <2>3. CASE Evict
    BY <2>2, <2>3 DEF Evict, EvictCounter, EvictComponent
  <2> QED
    BY <2>1, <2>2, <2>3 DEF LossyNext, Next, vars
<1> QED
  BY <1>1 DEF NoDuplicates

-----------------------------------------------------------------------------
(* Steps of one call.                                                      *)

Entering == {"start", "addCounter", "addComponent"}
Leaving == {"composePop", "get", "store", "done"}

\* Call c goes on to loc, and never back.
Advance(c, loc) ==
  /\ pc' = [pc EXCEPT ![c] = loc]
  /\ pc[c] # "done" /\ loc \notin {"getCounter", "start"}
  /\ pc[c] \notin Entering => loc \notin Entering
  /\ pc[c] \in Leaving => loc \in Leaving

\* The calls that are past the increment stay past it; c may join them.
LEMMA PastGrows ==
  ASSUME TypeOK, NEW c \in Call, NEW loc \in Location, Advance(c, loc), NEW r \in Request
  PROVE  /\ Past(r) \subseteq Past(r)'
         /\ Past(r)' \subseteq Calls(r)
         /\ Cardinality(Past(r)) \in Nat /\ Cardinality(Past(r)') \in Nat
         /\ Cardinality(Past(r)) <= Cardinality(Past(r)')
         /\ c.req = r /\ pc[c] \notin Leaving /\ loc \in Leaving =>
              Cardinality(Past(r)') = Cardinality(Past(r)) + 1
<1>1. \A u \in Call : pc'[u] = IF u = c THEN loc ELSE pc[u]
  BY DEF Advance, TypeOK
<1>2. Past(r) \subseteq Past(r)' /\ Past(r)' \subseteq Calls(r) /\ Calls(r) \subseteq Call
  BY <1>1 DEF Past, Calls, Advance, Leaving
<1>3. IsFiniteSet(Past(r)) /\ IsFiniteSet(Past(r)')
  BY <1>2, FiniteCalls, FS_Subset
<1>4. ASSUME c.req = r, pc[c] \notin Leaving, loc \in Leaving
      PROVE  Cardinality(Past(r)') = Cardinality(Past(r)) + 1
  <2>1. c \notin Past(r) /\ Past(r)' = Past(r) \cup {c}
    BY <1>1, <1>4 DEF Past, Calls, Leaving
  <2> QED
    BY <2>1, <1>3, FS_AddElement
<1> QED
  BY <1>2, <1>3, <1>4, FS_Subset, FS_CardinalityType

\* A component is stored by the call itself, on its way past the add.
LEMMA StoredByPassedStep ==
  ASSUME TypeOK, StoredByPassed, NEW c \in Call, NEW loc \in Location, Advance(c, loc),
         \/ UNCHANGED component
         \/ loc \notin Entering /\ component' = [component EXCEPT ![c.req][c.op] = c]
  PROVE  StoredByPassed'
<1>1. \A u \in Call : pc'[u] = IF u = c THEN loc ELSE pc[u]
  BY DEF Advance, TypeOK
<1>2. \A u \in Call : pc'[u] # "getCounter"
  BY <1>1 DEF StoredByPassed, Advance
<1>3. ASSUME NEW r \in Request, NEW o \in Component, Stored(r, o)'
      PROVE  /\ component'[r][o] \in Call
             /\ component'[r][o].req = r /\ component'[r][o].op = o
             /\ pc'[component'[r][o]] \notin Entering
  <2>1. CASE component'[r][o] = component[r][o]
    <3>1. Stored(r, o)
      BY <1>3, <2>1 DEF Stored
    <3> QED
      BY <1>1, <2>1, <3>1 DEF StoredByPassed, Advance, Entering
  <2>2. CASE r = c.req /\ o = c.op /\ component'[r][o] = c /\ loc \notin Entering
    BY <1>1, <2>2
  <2> QED
    BY <2>1, <2>2, ComposeAssumption DEF TypeOK, Fields
<1> QED
  BY <1>2, <1>3 DEF StoredByPassed, Entering

\* The counter goes up only with a call that gets past the increment.
LEMMA CounterBelowPastStep ==
  ASSUME TypeOK, CounterBelowPast, NEW c \in Call, NEW loc \in Location, Advance(c, loc),
         \A r \in Request :
            \/ counter'[r] = counter[r] \/ counter'[r] = 0
            \/ /\ r = c.req /\ counter'[r] = counter[r] + 1
               /\ pc[c] \notin Leaving /\ loc \in Leaving
  PROVE  CounterBelowPast'
<1> SUFFICES ASSUME NEW r \in Request PROVE counter'[r] <= Cardinality(Past(r)')
  BY DEF CounterBelowPast
<1>1. counter[r] \in Int /\ counter[r] <= Cardinality(Past(r))
  BY DEF TypeOK, Absent, CounterBelowPast
<1> QED
  BY <1>1, PastGrows

\* The call that brings the counter to NUM_COMPONENTS is the last of its request.
LEMMA ComposerIsLastStep ==
  ASSUME NoDuplicates', TypeOK, ComposerIsLast, CounterBelowPast',
         NEW c \in Call, NEW loc \in Location, Advance(c, loc),
         \/ /\ UNCHANGED composers
            /\ loc \in {"composePop", "get", "store"} => pc[c] \in {"composePop", "get", "store"}
         \/ /\ composers' = composers \cup {c} /\ pc[c] \notin Leaving
            /\ counter'[c.req] = NumComponents
  PROVE  ComposerIsLast'
<1>1. \A u \in Call : pc'[u] = IF u = c THEN loc ELSE pc[u]
  BY DEF Advance, TypeOK
<1>2. \A u \in Call : pc'[u] \in {"composePop", "get", "store"} => u \in composers'
  BY <1>1 DEF ComposerIsLast
<1>3. composers \in SUBSET Call /\ \A u \in Call : u.req \in Request
  BY ComposeAssumption DEF TypeOK
<1>4. \A u \in composers : \A o \in Component : \E d \in Past(u.req)' : d.op = o
  <2> SUFFICES ASSUME NEW u \in composers, NEW o \in Component
               PROVE  \E d \in Past(u.req)' : d.op = o
    OBVIOUS
  <2>1. u.req \in Request /\ \E d \in Past(u.req) : d.op = o
    BY <1>3 DEF ComposerIsLast
  <2>2. Past(u.req) \subseteq Past(u.req)'
    BY <2>1, PastGrows
  <2> QED
    BY <2>1, <2>2
<1>5. CASE UNCHANGED composers
  BY <1>2, <1>4, <1>5 DEF ComposerIsLast
<1>6. CASE composers' = composers \cup {c} /\ pc[c] \notin Leaving /\ counter'[c.req] = NumComponents
  <2>1. \A o \in Component : \E d \in Past(c.req)' : d.op = o
    <3>1. NumComponents <= Cardinality(Past(c.req)')
      BY <1>3, <1>6 DEF CounterBelowPast
    <3>2. Past(c.req)' \subseteq Call /\ \A u \in Past(c.req)' : u.req = c.req /\ pc'[u] # "start"
      BY DEF Past, Calls
    <3>3. \A u, w \in Past(c.req)' : u.op = w.op => u = w
      BY <3>2 DEF NoDuplicates
    <3> QED
      BY <3>1, <3>2, <3>3, FullHouse
  <2>2. \A u \in composers : u.req # c.req
    <3> SUFFICES ASSUME NEW u \in composers, u.req = c.req PROVE FALSE
      OBVIOUS
    <3>1. PICK d \in Past(c.req) : d.op = c.op
      BY <1>3, ComposeAssumption DEF ComposerIsLast
    <3>2. d \in Call /\ d.req = c.req /\ pc[d] \in Leaving
      BY DEF Past, Calls, Leaving
    <3>3. pc'[d] # "start" /\ pc'[c] # "start"
      BY <1>1, <3>2 DEF Advance, Leaving
    <3>4. d = c
      BY <3>1, <3>2, <3>3 DEF NoDuplicates
    <3> QED
      BY <1>6, <3>2, <3>4
  <2>3. \A u \in composers' : \A o \in Component : \E d \in Past(u.req)' : d.op = o
    BY <1>4, <1>6, <2>1
  <2>4. \A u, w \in composers' : u.req = w.req => u = w
    BY <1>6, <2>2 DEF ComposerIsLast
  <2> QED
    BY <1>2, <2>3, <2>4 DEF ComposerIsLast
<1> QED
  BY <1>5, <1>6

\* A composer stores its review in its last step.
LEMMA StoredByComposerStep ==
  ASSUME TypeOK, ComposerIsLast, StoredByComposer,
         NEW c \in Call, NEW loc \in Location, Advance(c, loc),
         composers \subseteq composers',
         \/ UNCHANGED reviews
         \/ /\ reviews' = reviews \cup {[req |-> c.req, by |-> c, fields |-> draft[c]]}
            /\ pc[c] = "store" /\ loc = "done"
  PROVE  StoredByComposer'
<1>1. \A u \in Call : pc'[u] = IF u = c THEN loc ELSE pc[u]
  BY DEF Advance, TypeOK
<1>2. \A v \in reviews : /\ v.by \in composers' /\ v.req = v.by.req
                         /\ v.by # c /\ pc'[v.by] = "done"
  BY <1>1 DEF StoredByComposer, Advance, TypeOK
<1>3. CASE UNCHANGED reviews
  BY <1>2, <1>3 DEF StoredByComposer
<1>4. CASE /\ reviews' = reviews \cup {[req |-> c.req, by |-> c, fields |-> draft[c]]}
           /\ pc[c] = "store" /\ loc = "done"
  <2>1. c \in composers' /\ pc'[c] = "done"
    BY <1>1, <1>4 DEF ComposerIsLast
  <2> QED
    BY <1>2, <1>4, <2>1 DEF StoredByComposer
<1> QED
  BY <1>3, <1>4

-----------------------------------------------------------------------------
(* Every step.                                                             *)

\* What a step of Upload that does not compose leaves to show.
LEMMA PlainStepOnce ==
  ASSUME NoDuplicates', TypeOK, Once, NEW c \in Call,
         NEW loc \in {"addCounter", "addComponent", "incr", "done"}, Advance(c, loc),
         \/ UNCHANGED component
         \/ loc \notin Entering /\ component' = [component EXCEPT ![c.req][c.op] = c],
         \A r \in Request :
            \/ counter'[r] = counter[r] \/ counter'[r] = 0
            \/ /\ r = c.req /\ counter'[r] = counter[r] + 1
               /\ pc[c] \notin Leaving /\ loc \in Leaving,
         UNCHANGED <<composers, reviews>>
  PROVE  Once'
<1>0. loc \in Location
  BY DEF Location
<1>1. StoredByPassed'
  BY <1>0, StoredByPassedStep DEF Once
<1>2. CounterBelowPast'
  BY <1>0, CounterBelowPastStep DEF Once
<1>3. ComposerIsLast'
  BY <1>0, <1>2, ComposerIsLastStep DEF Once
<1>4. StoredByComposer'
  BY <1>0, StoredByComposerStep DEF Once
<1> QED
  BY <1>1, <1>2, <1>3, <1>4 DEF Once

\* What a step of ComposeAndUpload leaves to show.
LEMMA ComposeStepOnce ==
  ASSUME NoDuplicates', TypeOK, Once, NEW c \in Call,
         pc[c] \in {"composePop", "get", "store"},
         NEW loc \in {"get", "store", "done"}, pc' = [pc EXCEPT ![c] = loc],
         UNCHANGED <<counter, component, composers>>,
         \/ UNCHANGED reviews
         \/ /\ reviews' = reviews \cup {[req |-> c.req, by |-> c, fields |-> draft[c]]}
            /\ pc[c] = "store" /\ loc = "done"
  PROVE  Once'
<1>0. loc \in Location /\ Advance(c, loc)
  BY DEF Location, Advance, Entering, Leaving
<1>1. StoredByPassed'
  BY <1>0, StoredByPassedStep DEF Once
<1>2. CounterBelowPast'
  BY <1>0, CounterBelowPastStep DEF Once
<1>3. ComposerIsLast'
  BY <1>0, <1>2, ComposerIsLastStep DEF Once
<1>4. StoredByComposer'
  BY <1>0, StoredByComposerStep DEF Once
<1> QED
  BY <1>1, <1>2, <1>3, <1>4 DEF Once

\* Without repetition every step keeps the four parts of the invariant.
LEMMA OnceStep ==
  ASSUME NoDuplicates, NoDuplicates', TypeOK, Once, [LossyNext]_vars
  PROVE  Once'
<1> USE DEF Goto, Return, Abandon, cacheVars, composeVars
<1>0. \A c \in Call : c.req \in Request /\ c.op \in Component /\ c # NoCall
  BY ComposeAssumption
<1>1. ASSUME NEW c \in Call, Start(c) PROVE Once'
  <2>1. PICK loc \in {"addCounter", "done"} : pc' = [pc EXCEPT ![c] = loc]
    BY <1>1 DEF Start
  <2>2. Advance(c, loc)
    BY <1>1, <2>1 DEF Start, Advance, Entering, Leaving
  <2> QED
    BY <1>1, <2>2, PlainStepOnce DEF Start
<1>2. ASSUME NEW c \in Call, AddCounter(c) PROVE Once'
  <2>1. PICK loc \in {"addComponent", "done"} : pc' = [pc EXCEPT ![c] = loc]
    BY <1>2 DEF AddCounter
  <2>2. Advance(c, loc)
    BY <1>2, <2>1 DEF AddCounter, Advance, Entering, Leaving
  <2>3. \A r \in Request : counter'[r] = counter[r] \/ counter'[r] = 0
    BY <1>2 DEF AddCounter, ServeAddCounter, TypeOK
  <2> QED
    BY <1>2, <2>2, <2>3, PlainStepOnce DEF AddCounter
<1>3. ASSUME NEW c \in Call, AddComponent(c) PROVE Once'
  <2>1. ~Stored(c.req, c.op)
    <3> SUFFICES ASSUME Stored(c.req, c.op) PROVE FALSE
      OBVIOUS
    <3>1. pc[c] = "addComponent"
      BY <1>3 DEF AddComponent
    <3>2. component[c.req][c.op] = c /\ pc[component[c.req][c.op]] # "addComponent"
      BY <1>0, <3>1 DEF Once, StoredByPassed, NoDuplicates
    <3> QED
      BY <3>1, <3>2
  <2>2. PICK loc \in {"incr", "done"} : pc' = [pc EXCEPT ![c] = loc]
    BY <1>3, <2>1 DEF AddComponent
  <2>3. Advance(c, loc) /\ loc \notin Entering
    BY <1>3, <2>2 DEF AddComponent, Advance, Entering, Leaving
  <2>4. UNCHANGED component \/ component' = [component EXCEPT ![c.req][c.op] = c]
    BY <1>3 DEF AddComponent, ServeAddComponent
  <2> QED
    BY <1>3, <2>3, <2>4, PlainStepOnce DEF AddComponent
<1>4. ASSUME NEW c \in Call, Incr(c) PROVE Once'
  <2>1. PICK loc \in {"composePop", "done"} : pc' = [pc EXCEPT ![c] = loc]
    BY <1>4 DEF Incr, Counted
  <2>2. /\ Advance(c, loc) /\ pc[c] \notin Leaving /\ loc \in Leaving /\ loc \in Location
        /\ UNCHANGED <<component, reviews>>
    BY <1>4, <2>1 DEF Incr, Counted, Advance, Entering, Leaving, Location
  <2>3. \A r \in Request :
           counter'[r] = counter[r] \/ (r = c.req /\ counter'[r] = counter[r] + 1)
    BY <1>0, <1>4 DEF Incr, ServeIncr, TypeOK
  <2>4. CASE UNCHANGED composers /\ loc = "done"
    BY <2>2, <2>3, <2>4, PlainStepOnce
  <2>5. CASE /\ composers' = composers \cup {c} /\ loc = "composePop"
             /\ counter'[c.req] = NumComponents
    <3>1. StoredByPassed'
      BY <2>2, StoredByPassedStep DEF Once
    <3>2. CounterBelowPast'
      BY <2>2, <2>3, CounterBelowPastStep DEF Once
    <3>3. ComposerIsLast'
      BY <2>2, <2>5, <3>2, ComposerIsLastStep DEF Once
    <3>4. StoredByComposer'
      BY <2>2, <2>5, StoredByComposerStep DEF Once
    <3> QED
      BY <3>1, <3>2, <3>3, <3>4 DEF Once
  <2>6. pc'[c] = loc
    BY <2>1 DEF TypeOK
  <2>7. CASE ServeIncr(c.req) /\ counter[c.req] # Absent /\ Counted(c, counter[c.req] + 1)
    <3>1. counter'[c.req] = counter[c.req] + 1
      BY <1>0, <2>7 DEF ServeIncr, TypeOK
    <3>2. \/ /\ composers' = composers \cup {c} /\ pc' = [pc EXCEPT ![c] = "composePop"]
             /\ counter[c.req] + 1 = NumComponents
          \/ UNCHANGED composers /\ pc' = [pc EXCEPT ![c] = "done"]
      BY <2>7 DEF Counted, IsLast
    <3> QED
      BY <2>4, <2>5, <2>6, <3>1, <3>2 DEF TypeOK
  <2>8. CASE Abandon(c) /\ UNCHANGED composeVars
    BY <2>4, <2>6, <2>8 DEF TypeOK
  <2> QED
    BY <1>4, <2>7, <2>8 DEF Incr
<1>5. ASSUME NEW c \in Call, GetCounter(c) PROVE Once'
  BY <1>5 DEF GetCounter, Once, StoredByPassed
<1>6. ASSUME NEW c \in Call, ComposePop(c) PROVE Once'
  <2>1. PICK loc \in {"get", "done"} : pc' = [pc EXCEPT ![c] = loc]
    BY <1>6 DEF ComposePop
  <2> QED
    BY <1>6, <2>1, ComposeStepOnce DEF ComposePop
<1>7. ASSUME NEW c \in Call, ComposeGet(c) PROVE Once'
  <2>1. PICK loc \in {"get", "store", "done"} : pc' = [pc EXCEPT ![c] = loc]
    BY <1>7 DEF ComposeGet, TypeOK
  <2>2. pc[c] = "get" /\ UNCHANGED <<counter, component, composers, reviews>>
    BY <1>7 DEF ComposeGet
  <2> QED
    BY <2>1, <2>2, ComposeStepOnce
<1>8. ASSUME NEW c \in Call, Store(c) PROVE Once'
  <2>1. pc[c] = "store" /\ pc' = [pc EXCEPT ![c] = "done"]
    BY <1>8 DEF Store
  <2> QED
    BY <1>8, <2>1, ComposeStepOnce DEF Store, StoreReview
<1>9. CASE Evict
  <2>1. UNCHANGED <<pc, composers, reviews>>
    BY <1>9 DEF Evict, EvictCounter, EvictComponent
  <2>2. \A r \in Request : counter'[r] = counter[r] \/ counter'[r] = Absent
    BY <1>9 DEF Evict, EvictCounter, EvictComponent, TypeOK
  <2>3. \A r \in Request, o \in Component :
           component'[r][o] = component[r][o] \/ component'[r][o] = NoCall
    BY <1>9 DEF Evict, EvictCounter, EvictComponent, TypeOK, Fields
  <2>4. StoredByPassed'
    BY <2>1, <2>3 DEF Once, StoredByPassed, Stored
  <2>5. CounterBelowPast'
    <3> SUFFICES ASSUME NEW r \in Request PROVE counter'[r] <= Cardinality(Past(r)')
      BY DEF CounterBelowPast
    <3>1. Past(r)' = Past(r)
      BY <2>1 DEF Past, Calls
    <3>2. Cardinality(Past(r)) \in Nat
      BY FiniteCalls, FS_Subset, FS_CardinalityType DEF Past, Calls
    <3> QED
      BY <2>2, <3>1, <3>2 DEF Once, CounterBelowPast, Absent
  <2> QED
    BY <2>1, <2>4, <2>5 DEF Once, ComposerIsLast, StoredByComposer, Past, Calls
<1>10. CASE UNCHANGED vars
  BY <1>10 DEF vars, Once, StoredByPassed, Stored, CounterBelowPast, ComposerIsLast,
               StoredByComposer, Past, Calls
<1> QED
  BY <1>1, <1>2, <1>3, <1>4, <1>5, <1>6, <1>7, <1>8, <1>9, <1>10 DEF LossyNext, Next, Step

\* Initially nothing is stored.
LEMMA OnceInit == Init => OnceInv
<1> SUFFICES ASSUME Init PROVE OnceInv
  OBVIOUS
<1>1. TypeOK /\ IndexReset
  BY InitIInv DEF IInv
<1>2. StoredByPassed /\ ComposerIsLast /\ StoredByComposer
  BY ComposeAssumption DEF Init, StoredByPassed, Stored, ComposerIsLast, StoredByComposer
<1>3. CounterBelowPast
  <2> SUFFICES ASSUME NEW r \in Request PROVE counter[r] <= Cardinality(Past(r))
    BY DEF CounterBelowPast
  <2>1. Cardinality(Past(r)) \in Nat
    BY FiniteCalls, FS_Subset, FS_CardinalityType DEF Past, Calls
  <2> QED
    BY <2>1 DEF Init, Absent
<1> QED
  BY <1>1, <1>2, <1>3 DEF OnceInv, Once

\* The invariant is inductive.
LEMMA OnceNext == OnceInv /\ [LossyNext]_vars => OnceInv'
<1> SUFFICES ASSUME OnceInv, [LossyNext]_vars PROVE OnceInv'
  OBVIOUS
<1>1. TypeOK' /\ IndexReset'
  BY TypeStep DEF OnceInv
<1>2. NoDuplicates' => Once'
  BY OnceStep, StaysRepeated DEF OnceInv
<1> QED
  BY <1>1, <1>2 DEF OnceInv

\* A review is stored by a composer, and a request has one.
LEMMA OnceStored == OnceInv => OneReviewPerRequest
BY DEF OnceInv, Once, OneReviewPerRequest, ComposerIsLast, StoredByComposer

\* Until an upload is repeated a request gets at most one review, for any
\* requests, failures and pool sizes and whatever keys memcached drops.
THEOREM AtMostOneReview == LossySpec => []OneReviewPerRequest
BY OnceInit, OnceNext, OnceStored, PTL DEF LossySpec
=============================================================================
