---------------------------- MODULE ComposeReview ----------------------------
(***************************************************************************)
(* The compose-review service, 3_ComposeReviewService/                     *)
(* ComposeReviewHandler.h.  The four components of a review are uploaded   *)
(* by four functions that know nothing of each other.  Each puts its       *)
(* component into memcached, counts it, and the one that brings the        *)
(* counter to NUM_COMPONENTS reads the components back and stores the      *)
(* review.                                                                 *)
(*                                                                         *)
(* A step is one request to memcached, which serves them atomically, one   *)
(* call of the client pool, or the call of StoreReview4.  A request whose  *)
(* reply is an error may or may not have been served.                      *)
(***************************************************************************)
EXTENDS Integers, Sequences, FiniteSets

CONSTANTS
  Request,      \* req_ids
  Call,         \* calls of UploadText, UploadUniqueId, UploadMovieId, UploadRating
  NoCall,       \* no value
  MaxPoolSize,  \* clients in the memcached pool of the process
  Faults        \* what may fail: "memcached", "storage", "alloc"

Component == {"UniqueId", "MovieId", "Text", "Rating"}

NumComponents == 4

Absent == -1    \* a counter that is not in memcached

ASSUME ComposeAssumption ==
  /\ \A c \in Call : c.req \in Request /\ c.op \in Component
  /\ NoCall \notin Call
  /\ MaxPoolSize \in Nat \ {0}
  /\ Faults \subseteq {"memcached", "storage", "alloc"}

ASSUME FiniteCalls == IsFiniteSet(Call)

VARIABLES
  counter,     \* memcached: "<req_id>:counter"
  component,   \* memcached: "<req_id>:<component>", the call whose value it is
  held,        \* calls that hold a client of the pool
  pc,          \* where each call is
  next,        \* index of its loop over the keys in ComposeAndUpload
  draft,       \* new_review, the review it is composing
  ret,         \* what it returned
  composers,   \* history: the calls that entered ComposeAndUpload
  reviews      \* the review collection in MongoDB

vars == <<counter, component, held, pc, next, draft, ret, composers, reviews>>

Location == {"start", "addCounter", "addComponent", "incr", "getCounter",
             "composePop", "get", "store", "done"}

Fields == [Component -> Call \cup {NoCall}]

TypeOK ==
  /\ counter \in [Request -> Nat \cup {Absent}]
  /\ component \in [Request -> Fields]
  /\ held \in SUBSET Call
  /\ pc \in [Call -> Location]
  /\ next \in [Call -> 1 .. NumComponents]
  /\ draft \in [Call -> Fields]
  /\ ret \in [Call -> {"none", "0", "-1"}]
  /\ composers \in SUBSET Call
  /\ reviews \in SUBSET [req : Request, by : Call, fields : Fields]

Init ==
  /\ counter = [r \in Request |-> Absent]
  /\ component = [r \in Request |-> [o \in Component |-> NoCall]]
  /\ held = {}
  /\ pc = [c \in Call |-> "start"]
  /\ next = [c \in Call |-> 1]
  /\ draft = [c \in Call |-> [o \in Component |-> NoCall]]
  /\ ret = [c \in Call |-> "none"]
  /\ composers = {}
  /\ reviews = {}

cacheVars == <<counter, component>>
composeVars == <<next, draft, composers, reviews>>

-----------------------------------------------------------------------------
(* The client pool, as BoundedPool specifies it.                           *)

PopClient(c) == Cardinality(held) < MaxPoolSize /\ held' = held \cup {c}

\* Pop answers nullptr: it waited for a client in vain, or could not create one.
PopNull == Cardinality(held) >= MaxPoolSize \/ "alloc" \in Faults

PushClient(c) == held' = held \ {c}

-----------------------------------------------------------------------------
(* Upload.                                                                 *)

Goto(c, loc) == pc' = [pc EXCEPT ![c] = loc]

Return(c, value) ==
  /\ Goto(c, "done")
  /\ ret' = [ret EXCEPT ![c] = value]

\* An error path: push the client back and return -1.
Abandon(c) == PushClient(c) /\ Return(c, "-1")

Start(c) ==
  /\ pc[c] = "start"
  /\ \/ PopClient(c) /\ Goto(c, "addCounter") /\ UNCHANGED ret
     \/ PopNull /\ Return(c, "-1") /\ UNCHANGED held
  /\ UNCHANGED <<cacheVars, composeVars>>

\* memcached: add "<req_id>:counter" 0.
ServeAddCounter(r) ==
  counter' = IF counter[r] = Absent THEN [counter EXCEPT ![r] = 0] ELSE counter

AddCounter(c) ==
  /\ pc[c] = "addCounter"
  /\ \/ ServeAddCounter(c.req) /\ Goto(c, "addComponent") /\ UNCHANGED <<held, ret>>
     \/ /\ "memcached" \in Faults
        /\ ServeAddCounter(c.req) \/ UNCHANGED counter
        /\ Abandon(c)
  /\ UNCHANGED <<component, composeVars>>

Stored(r, o) == component[r][o] # NoCall

\* memcached: add "<req_id>:<component>".
ServeAddComponent(c) ==
  component' = IF Stored(c.req, c.op) THEN component
               ELSE [component EXCEPT ![c.req][c.op] = c]

\* Mutant of AddComponent: the client is not pushed back when the add fails.
AddComponentLeak(c) ==
  /\ pc[c] = "addComponent"
  /\ \/ /\ ServeAddComponent(c)
        /\ Goto(c, IF Stored(c.req, c.op) THEN "getCounter" ELSE "incr")
        /\ UNCHANGED <<held, ret>>
     \/ /\ "memcached" \in Faults
        /\ ServeAddComponent(c) \/ UNCHANGED component
        /\ Return(c, "-1") /\ UNCHANGED held
  /\ UNCHANGED <<counter, composeVars>>

\* Mutant of AddComponent: set where the code has add, so that every upload counts.
AddComponentSet(c) ==
  /\ pc[c] = "addComponent"
  /\ component' = [component EXCEPT ![c.req][c.op] = c]
  /\ Goto(c, "incr")
  /\ UNCHANGED <<counter, held, ret, composeVars>>

\* STORED leads to the increment, NOT_STORED ("another thread has uploaded") to
\* a look at the counter.
AddComponent(c) ==
  /\ pc[c] = "addComponent"
  /\ \/ /\ ServeAddComponent(c)
        /\ Goto(c, IF Stored(c.req, c.op) THEN "getCounter" ELSE "incr")
        /\ UNCHANGED <<held, ret>>
     \/ /\ "memcached" \in Faults
        /\ ServeAddComponent(c) \/ UNCHANGED component
        /\ Abandon(c)
  /\ UNCHANGED <<counter, composeVars>>

\* Mutant of IsLast: one component too early.
IsLastEarly(value) == value >= NumComponents - 1

\* if (counter_value == NUM_COMPONENTS)
IsLast(value) == value = NumComponents

\* The client is pushed back; the last one goes on to ComposeAndUpload.
Counted(c, value) ==
  /\ PushClient(c)
  /\ \/ /\ IsLast(value)
        /\ Goto(c, "composePop")
        /\ composers' = composers \cup {c}
        /\ UNCHANGED ret
     \/ /\ ~IsLast(value)
        /\ Return(c, "0")
        /\ UNCHANGED composers
  /\ UNCHANGED <<next, draft, reviews>>

\* memcached: incr "<req_id>:counter" 1, NOT_FOUND if the key is gone.
ServeIncr(r) ==
  counter' = IF counter[r] = Absent THEN counter
             ELSE [counter EXCEPT ![r] = @ + 1]

\* Mutant of Incr: the value before the increment is looked at.
IncrReadsOld(c) ==
  /\ pc[c] = "incr"
  /\ ServeIncr(c.req)
  /\ \/ counter[c.req] # Absent /\ Counted(c, counter[c.req])
     \/ counter[c.req] = Absent /\ Abandon(c) /\ UNCHANGED composeVars
  /\ UNCHANGED component

Incr(c) ==
  /\ pc[c] = "incr"
  /\ \/ /\ counter[c.req] # Absent
        /\ ServeIncr(c.req)
        /\ Counted(c, counter[c.req] + 1)
     \/ /\ \/ counter[c.req] = Absent /\ UNCHANGED counter
           \/ "memcached" \in Faults /\ (ServeIncr(c.req) \/ UNCHANGED counter)
        /\ Abandon(c)
        /\ UNCHANGED composeVars
  /\ UNCHANGED component

GetCounter(c) ==
  /\ pc[c] = "getCounter"
  /\ \/ counter[c.req] # Absent /\ Counted(c, counter[c.req])
     \/ /\ counter[c.req] = Absent \/ "memcached" \in Faults
        /\ Abandon(c)
        /\ UNCHANGED composeVars
  /\ UNCHANGED cacheVars

-----------------------------------------------------------------------------
(* ComposeAndUpload.  Upload ignores what it returns and answers 0.        *)

\* The order of keys[].
Key == <<"UniqueId", "MovieId", "Text", "Rating">>

ComposePop(c) ==
  /\ pc[c] = "composePop"
  /\ \/ PopClient(c) /\ Goto(c, "get") /\ UNCHANGED ret
     \/ PopNull /\ Return(c, "0") /\ UNCHANGED held
  /\ UNCHANGED <<cacheVars, composeVars>>

\* Mutant of ComposeGet: the index is moved past the last key.
ComposeGetPastEnd(c) ==
  LET o == Key[next[c]] IN
  /\ pc[c] = "get"
  /\ draft' = [draft EXCEPT ![c][o] = component[c.req][o]]
  /\ next' = [next EXCEPT ![c] = @ + 1]
  /\ \/ next[c] < NumComponents /\ UNCHANGED <<held, pc>>
     \/ next[c] = NumComponents /\ PushClient(c) /\ Goto(c, "store")
  /\ UNCHANGED <<cacheVars, ret, composers, reviews>>

\* One turn of the loop: a component that is not found is left out of the review,
\* an error ends the loop.
ComposeGet(c) ==
  LET o == Key[next[c]] IN
  /\ pc[c] = "get"
  /\ \/ /\ draft' = [draft EXCEPT ![c][o] = component[c.req][o]]
        /\ UNCHANGED ret
        /\ \/ /\ next[c] < NumComponents
              /\ next' = [next EXCEPT ![c] = @ + 1]
              /\ UNCHANGED <<held, pc>>
           \/ /\ next[c] = NumComponents
              /\ PushClient(c)
              /\ Goto(c, "store")
              /\ UNCHANGED next
     \/ /\ "memcached" \in Faults
        /\ PushClient(c)
        /\ Return(c, "0")
        /\ UNCHANGED <<next, draft>>
  /\ UNCHANGED <<cacheVars, composers, reviews>>

\* StoreReview inserts a document; nothing in the collection makes it unique.
StoreReview(c) ==
  reviews' = reviews \cup {[req |-> c.req, by |-> c, fields |-> draft[c]]}

\* invoke exp02StoreReview4: it stores the review, or an error is returned
\* before or after the insert.
Store(c) ==
  /\ pc[c] = "store"
  /\ StoreReview(c) \/ ("storage" \in Faults /\ UNCHANGED reviews)
  /\ Return(c, "0")
  /\ UNCHANGED <<cacheVars, held, next, draft, composers>>

-----------------------------------------------------------------------------
(* memcached drops a key: MMC_EXP_TIME has passed, or it is full.          *)

EvictCounter(r) ==
  /\ counter[r] # Absent
  /\ counter' = [counter EXCEPT ![r] = Absent]
  /\ UNCHANGED <<component, held, pc, ret, composeVars>>

EvictComponent(r, o) ==
  /\ Stored(r, o)
  /\ component' = [component EXCEPT ![r][o] = NoCall]
  /\ UNCHANGED <<counter, held, pc, ret, composeVars>>

Evict == \E r \in Request : EvictCounter(r) \/ \E o \in Component : EvictComponent(r, o)

-----------------------------------------------------------------------------
Step(c) == \/ AddCounter(c) \/ AddComponent(c) \/ Incr(c) \/ GetCounter(c)
           \/ ComposePop(c) \/ ComposeGet(c) \/ Store(c)

\* As long as memcached keeps the keys of the requests.
Next == \E c \in Call : Start(c) \/ Step(c)

Spec == Init /\ [][Next]_vars

\* A function that was called runs on; nobody is assumed to call one.
FairSpec == Spec /\ \A c \in Call : WF_vars(Step(c))

\* The service as it is: a key may be dropped at any time.
LossyNext == Next \/ Evict

LossySpec == Init /\ [][LossyNext]_vars

-----------------------------------------------------------------------------
(* Properties.                                                             *)

\* Every component was uploaded by one call so far: nobody has retried a request.
NoDuplicates ==
  \A c, d \in Call :
     c.req = d.req /\ c.op = d.op /\ pc[c] # "start" /\ pc[d] # "start" => c = d

\* The components of r whose upload is past the increment of the counter (it has
\* incremented it, or failed to).
Settled(r) ==
  {o \in Component : Stored(r, o) /\ pc[component[r][o]] # "incr"}

\* The counter never runs ahead of the components: it counts only components
\* that are in memcached already.  The order of add and incr in Upload, and that
\* a second upload of the same component does not count, are there for this.
\* (A key that memcached drops takes its component back but not its count.)
CounterNeverAhead ==
  \A r \in Request : counter[r] <= Cardinality(Settled(r))

\* As long as memcached keeps the keys no review is stored with a component
\* missing, whatever the order of the uploads, and whichever of them are retried
\* or fail half way.
ReviewsComplete ==
  \A v \in reviews : \A o \in Component : v.fields[o] # NoCall

\* Until an upload is repeated only one of the four uploads sees the counter at
\* NUM_COMPONENTS, so a request gets at most one review, whatever fails, and even
\* if memcached loses keys and the counter starts again.
OneReviewPerRequest ==
  NoDuplicates => \A v, w \in reviews : v.req = w.req => v = w

\* Every path out of Upload and ComposeAndUpload has pushed the client back.
NoClientLeak == \A c \in held : pc[c] \notin {"start", "composePop", "store", "done"}

\* Each component of r has been uploaded with answer 0, and no upload is running.
Acknowledged(r) ==
  /\ \A o \in Component : \E c \in Call : c.req = r /\ c.op = o /\ ret[c] = "0"
  /\ \A c \in Call : c.req = r => pc[c] \in {"start", "done"}

\* No upload of r was answered with -1, and whoever entered ComposeAndUpload and
\* left it has stored a review (Upload does not look at what it returns).
Undisturbed(r) ==
  \A c \in Call : c.req = r =>
     /\ ret[c] # "-1"
     /\ c \in composers /\ pc[c] = "done" => \E v \in reviews : v.by = c

\* Uploads that were all answered with 0 mean that the review is in the storage,
\* also if some were sent twice, as long as no other upload of the request failed,
\* the composing did not fail, and memcached keeps the keys.  (An upload that
\* fails at its incr has stored a component that nobody will count; while a first
\* upload of a component is on its way to the counter, a second one of it may be
\* answered before it, hence "no upload is running" in Acknowledged.)
AckMeansStored ==
  \A r \in Request :
     Undisturbed(r) /\ Acknowledged(r) => \E v \in reviews : v.req = r

\* A request all of whose uploads were called gets its review, unless something
\* fails on the way.
UploadsLeadToReview ==
  \A r \in Request :
    (\A o \in Component : \E c \in Call : c.req = r /\ c.op = o /\ pc[c] # "start")
      ~> ((\E v \in reviews : v.req = r) \/ ~Undisturbed(r))

\* A request gets its review, and again if a repeated upload composes it again,
\* only when all of its components are in memcached, where they stay.
Board == INSTANCE ReviewBoard WITH
  arrived <- [r \in Request |-> {o \in Component : Stored(r, o)}],
  posted <- {v.req : v \in reviews}

ImplementsReviewBoard == Board!Spec

\* ComposeReviewHandler.h:220: "If this thread is the last one uploading the
\* review components, it is in charge of compose the request".  So the composer
\* of a review is a call that uploaded one of its components.
ComposerUploaded == \A v \in reviews : v.fields[v.by.op] = v.by
===========================================================================
