------------------------- MODULE MediaReviewProofs -------------------------
(***************************************************************************)
(* Proofs about MediaReview for any number of attempts, any registrations  *)
(* of the title, any failures of the services and of the invocations, and  *)
(* any loss of keys.                                                       *)
(*                                                                         *)
(* The application runs MovieIdService and ComposeReview as they are, so   *)
(* what is proved of these holds in it.  Until the first loss it is also   *)
(* a ComposeReview whose memcached keeps its keys, so that the counter is  *)
(* exact and reviews are complete.  What is added is how the three jobs of *)
(* an attempt, the uploads they call and the front end keep step.          *)
(***************************************************************************)
EXTENDS MediaReview, FiniteSetTheorems, TLAPS

MovieProofs == INSTANCE MovieIdServiceProofs WITH
  Title <- {TheTitle}, Upload <- {MovieJob(a) : a \in Attempt},
  Faults <- Faults \cup {"invoke"}, MayEvict <- TRUE, pc <- moviePc, ret <- movieRet

ComposeProofs == INSTANCE ComposeReviewProofs WITH
  Request <- {TheRequest},
  Call <- {UploadOf(a, o) : a \in Attempt, o \in {"UniqueId", "MovieId", "Text", "Rating"}},
  MaxPoolSize <- PoolSize, Faults <- ComposeFaults

-----------------------------------------------------------------------------
(* The services are used within their assumptions.                         *)

\* The calls of the compose-review service.
Uploads == {UploadOf(a, o) : a \in Attempt, o \in {"UniqueId", "MovieId", "Text", "Rating"}}

\* The movie-id service may be called with the jobs of the attempts.
LEMMA MovieAssumed == MovieProofs!MovieIdAssumption
BY MediaAssumption DEF MovieProofs!MovieIdAssumption, MovieJob

\* There are finitely many uploads.
LEMMA UploadsFinite == IsFiniteSet(Uploads)
<1> DEFINE Op == {"UniqueId", "MovieId", "Text", "Rating"}
           Pairs == Attempt \X Op
           f == [x \in Pairs |-> UploadOf(x[1], x[2])]
<1>1. IsFiniteSet(Attempt)
  BY MediaAssumption, FS_Interval DEF Attempt
<1>2. IsFiniteSet(Op)
  <2>1. Op = ((({"UniqueId"} \cup {"MovieId"}) \cup {"Text"}) \cup {"Rating"})
    OBVIOUS
  <2>2. IsFiniteSet({"UniqueId"})
    BY FS_Singleton
  <2>3. IsFiniteSet({"UniqueId"} \cup {"MovieId"})
    BY <2>2, FS_AddElement
  <2>4. IsFiniteSet(({"UniqueId"} \cup {"MovieId"}) \cup {"Text"})
    BY <2>3, FS_AddElement
  <2> QED
    BY <2>1, <2>4, FS_AddElement
<1> HIDE DEF Op
<1>3. IsFiniteSet(Pairs)
  BY <1>1, <1>2, FS_Product
<1>4. f \in Surjection(Pairs, Uploads)
  <2>1. f \in [Pairs -> Uploads]
    BY DEF Uploads, Op
  <2>2. ASSUME NEW u \in Uploads PROVE \E x \in Pairs : f[x] = u
    <3>1. PICK a \in Attempt, o \in Op : u = UploadOf(a, o)
      BY DEF Uploads, Op
    <3>2. <<a, o>> \in Pairs /\ f[<<a, o>>] = u
      BY <3>1
    <3> QED
      BY <3>2
  <2> QED
    BY <2>1, <2>2 DEF Surjection
<1> QED
  BY <1>3, <1>4, FS_Surjection

\* The compose-review service may be called with these uploads.
LEMMA ComposeAssumed == ComposeProofs!ComposeAssumption /\ ComposeProofs!FiniteCalls
<1>1. ComposeProofs!FiniteCalls
  <2>1. ComposeProofs!IsFiniteSet(Uploads)
    BY UploadsFinite DEF ComposeProofs!IsFiniteSet, IsFiniteSet
  <2> QED
    BY <2>1 DEF ComposeProofs!FiniteCalls, Uploads
<1>2. \A a \in Attempt, o \in {"UniqueId", "MovieId", "Text", "Rating"} :
         /\ UploadOf(a, o).req = TheRequest /\ UploadOf(a, o).op = o /\ UploadOf(a, o).n = a
         /\ NoCall # UploadOf(a, o)
  BY MediaAssumption DEF UploadOf, Compose!Component
<1>3. ComposeProofs!ComposeAssumption
  BY <1>2, MediaAssumption DEF ComposeProofs!ComposeAssumption, ComposeProofs!Component
<1> QED
  BY <1>1, <1>3

-----------------------------------------------------------------------------
(* The instances of each service are the same specification.               *)

\* The calls of the movie-id service.
LEMMA SameCalls ==
  ASSUME NEW r
  PROVE  /\ Movie!Register(r) = MovieProofs!Register(r)
<1>1. Movie!Register(r) = MovieProofs!Register(r)
  BY DEF Movie!Register, MovieProofs!Register, Movie!RegisterFind,
         MovieProofs!RegisterFind, Movie!RegisterInsert, MovieProofs!RegisterInsert,
         Movie!Remember, MovieProofs!Remember, Movie!DocsOf, MovieProofs!DocsOf,
         Movie!Return, MovieProofs!Return, Movie!Continue, MovieProofs!Continue,
         Movie!Goto, MovieProofs!Goto
<1> QED
  BY <1>1

\* The steps of its uploads.
LEMMA SameUploads ==
  ASSUME NEW u
  PROVE  /\ Movie!Lookup(u) = MovieProofs!Lookup(u)
         /\ Movie!SendMovieId(u) = MovieProofs!SendMovieId(u)
         /\ Movie!SendRating(u) = MovieProofs!SendRating(u)
         /\ Movie!Reply(u) = MovieProofs!Reply(u)
<1>1. Movie!Lookup(u) = MovieProofs!Lookup(u)
  BY DEF Movie!Lookup, MovieProofs!Lookup, Movie!CacheGet, MovieProofs!CacheGet,
         Movie!Find, MovieProofs!Find, Movie!CacheSet, MovieProofs!CacheSet,
         Movie!Remember, MovieProofs!Remember, Movie!DocsOf, MovieProofs!DocsOf,
         Movie!Return, MovieProofs!Return, Movie!Continue, MovieProofs!Continue,
         Movie!Goto, MovieProofs!Goto
<1>2. Movie!SendMovieId(u) = MovieProofs!SendMovieId(u)
  BY DEF Movie!SendMovieId, MovieProofs!SendMovieId, Movie!Continue,
         MovieProofs!Continue, Movie!Goto, MovieProofs!Goto
<1>3. Movie!SendRating(u) = MovieProofs!SendRating(u)
  BY DEF Movie!SendRating, MovieProofs!SendRating, Movie!Continue, MovieProofs!Continue,
         Movie!Goto, MovieProofs!Goto
<1>4. Movie!Reply(u) = MovieProofs!Reply(u)
  BY DEF Movie!Reply, MovieProofs!Reply, Movie!MovieIdReply, MovieProofs!MovieIdReply,
         Movie!RatingReply, MovieProofs!RatingReply, Movie!Return, MovieProofs!Return,
         Movie!Continue, MovieProofs!Continue, Movie!Goto, MovieProofs!Goto
<1> QED
  BY <1>1, <1>2, <1>3, <1>4

\* The service as a whole.
LEMMA SameMovie ==
  /\ Movie!Init = MovieProofs!Init
  /\ Movie!movieVars = MovieProofs!movieVars
<1>1. Movie!Init = MovieProofs!Init
  BY DEF Movie!Init, MovieProofs!Init, Movie!AnyCall, MovieProofs!AnyCall
<1>2. Movie!movieVars = MovieProofs!movieVars
  BY DEF Movie!movieVars, MovieProofs!movieVars
<1> QED
  BY <1>1, <1>2

\* The steps of the compose-review service.
LEMMA SameSteps ==
  ASSUME NEW c
  PROVE  /\ Compose!Start(c) = ComposeProofs!Start(c)
         /\ Compose!AddCounter(c) = ComposeProofs!AddCounter(c)
         /\ Compose!AddComponent(c) = ComposeProofs!AddComponent(c)
         /\ Compose!Incr(c) = ComposeProofs!Incr(c)
         /\ Compose!GetCounter(c) = ComposeProofs!GetCounter(c)
         /\ Compose!ComposePop(c) = ComposeProofs!ComposePop(c)
         /\ Compose!ComposeGet(c) = ComposeProofs!ComposeGet(c)
         /\ Compose!Store(c) = ComposeProofs!Store(c)
<1>1. Compose!Start(c) = ComposeProofs!Start(c)
  BY DEF Compose!Start, ComposeProofs!Start, Compose!PopClient, ComposeProofs!PopClient,
         Compose!PopNull, ComposeProofs!PopNull, Compose!Cardinality,
         ComposeProofs!Cardinality, Compose!Goto, ComposeProofs!Goto, Compose!Return,
         ComposeProofs!Return, Compose!cacheVars, ComposeProofs!cacheVars,
         Compose!composeVars, ComposeProofs!composeVars
<1>2. Compose!AddCounter(c) = ComposeProofs!AddCounter(c)
  BY DEF Compose!AddCounter, ComposeProofs!AddCounter, Compose!ServeAddCounter,
         ComposeProofs!ServeAddCounter, Compose!Absent, ComposeProofs!Absent,
         Compose!Goto, ComposeProofs!Goto, Compose!Return, ComposeProofs!Return,
         Compose!Abandon, ComposeProofs!Abandon, Compose!PushClient,
         ComposeProofs!PushClient, Compose!composeVars, ComposeProofs!composeVars
<1>3. Compose!AddComponent(c) = ComposeProofs!AddComponent(c)
  BY DEF Compose!AddComponent, ComposeProofs!AddComponent, Compose!ServeAddComponent,
         ComposeProofs!ServeAddComponent, Compose!Stored, ComposeProofs!Stored,
         Compose!Goto, ComposeProofs!Goto, Compose!Return, ComposeProofs!Return,
         Compose!Abandon, ComposeProofs!Abandon, Compose!PushClient,
         ComposeProofs!PushClient, Compose!composeVars, ComposeProofs!composeVars
<1>4. Compose!Incr(c) = ComposeProofs!Incr(c)
  BY DEF Compose!Incr, ComposeProofs!Incr, Compose!ServeIncr, ComposeProofs!ServeIncr,
         Compose!Counted, ComposeProofs!Counted, Compose!IsLast, ComposeProofs!IsLast,
         Compose!NumComponents, ComposeProofs!NumComponents, Compose!Absent,
         ComposeProofs!Absent, Compose!Goto, ComposeProofs!Goto, Compose!Return,
         ComposeProofs!Return, Compose!Abandon, ComposeProofs!Abandon,
         Compose!PushClient, ComposeProofs!PushClient, Compose!composeVars,
         ComposeProofs!composeVars
<1>5. Compose!GetCounter(c) = ComposeProofs!GetCounter(c)
  BY DEF Compose!GetCounter, ComposeProofs!GetCounter, Compose!Counted,
         ComposeProofs!Counted, Compose!IsLast, ComposeProofs!IsLast,
         Compose!NumComponents, ComposeProofs!NumComponents, Compose!Absent,
         ComposeProofs!Absent, Compose!Goto, ComposeProofs!Goto, Compose!Return,
         ComposeProofs!Return, Compose!Abandon, ComposeProofs!Abandon,
         Compose!PushClient, ComposeProofs!PushClient, Compose!cacheVars,
         ComposeProofs!cacheVars, Compose!composeVars, ComposeProofs!composeVars
<1>6. Compose!ComposePop(c) = ComposeProofs!ComposePop(c)
  BY DEF Compose!ComposePop, ComposeProofs!ComposePop, Compose!PopClient,
         ComposeProofs!PopClient, Compose!PopNull, ComposeProofs!PopNull,
         Compose!Cardinality, ComposeProofs!Cardinality, Compose!Goto,
         ComposeProofs!Goto, Compose!Return, ComposeProofs!Return, Compose!cacheVars,
         ComposeProofs!cacheVars, Compose!composeVars, ComposeProofs!composeVars
<1>7. Compose!ComposeGet(c) = ComposeProofs!ComposeGet(c)
  BY DEF Compose!ComposeGet, ComposeProofs!ComposeGet, Compose!Key, ComposeProofs!Key,
         Compose!NumComponents, ComposeProofs!NumComponents, Compose!Goto,
         ComposeProofs!Goto, Compose!Return, ComposeProofs!Return, Compose!PushClient,
         ComposeProofs!PushClient, Compose!cacheVars, ComposeProofs!cacheVars
<1>8. Compose!Store(c) = ComposeProofs!Store(c)
  BY DEF Compose!Store, ComposeProofs!Store, Compose!StoreReview,
         ComposeProofs!StoreReview, Compose!Goto, ComposeProofs!Goto, Compose!Return,
         ComposeProofs!Return, Compose!cacheVars, ComposeProofs!cacheVars
<1> QED
  BY <1>1, <1>2, <1>3, <1>4, <1>5, <1>6, <1>7, <1>8

\* Loss of keys, and what is disturbed by failures.
LEMMA SameEvict ==
  /\ Compose!Evict => ComposeProofs!Evict
  /\ \A r : Compose!Undisturbed(r) = ComposeProofs!Undisturbed(r)
  /\ \A r : Compose!Undisturbed(r)' = ComposeProofs!Undisturbed(r)'
BY DEF Compose!Evict, ComposeProofs!Evict, Compose!EvictCounter, ComposeProofs!EvictCounter,
       Compose!EvictComponent, ComposeProofs!EvictComponent, Compose!Absent,
       ComposeProofs!Absent, Compose!Stored, ComposeProofs!Stored, Compose!composeVars,
       ComposeProofs!composeVars, Compose!Component, ComposeProofs!Component,
       Compose!Undisturbed, ComposeProofs!Undisturbed

\* The service as a whole.
LEMMA SameCompose == Compose!Init = ComposeProofs!Init /\ Compose!vars = ComposeProofs!vars
<1>1. Compose!Init = ComposeProofs!Init
  BY DEF Compose!Init, ComposeProofs!Init, Compose!Absent, ComposeProofs!Absent,
         Compose!Component, ComposeProofs!Component
<1>2. Compose!vars = ComposeProofs!vars
  BY DEF Compose!vars, ComposeProofs!vars
<1> QED
  BY <1>1, <1>2

-----------------------------------------------------------------------------
(* What is known of the services.                                          *)

\* and those of the movie-id service.
Jobs == {MovieJob(a) : a \in Attempt}

\* Attempts share neither uploads nor jobs.
LEMMA Distinct ==
  ASSUME NEW a \in Attempt, NEW b \in Attempt
  PROVE  /\ MovieJob(a) = MovieJob(b) => a = b
         /\ \A o, q : UploadOf(a, o) = UploadOf(b, q) => a = b /\ o = q
         /\ MovieJob(a) \in Jobs /\ MovieJob(a) \notin Registration
         /\ MovieJob(a).title = TheTitle
         /\ \A o \in {"UniqueId", "MovieId", "Text", "Rating"} : UploadOf(a, o) \in Uploads
<1>1. MovieJob(a).n = a /\ MovieJob(b).n = b /\ MovieJob(a).title = TheTitle
  BY DEF MovieJob
<1>2. ASSUME NEW o, NEW q PROVE UploadOf(a, o) = UploadOf(b, q) => a = b /\ o = q
  <2>1. /\ UploadOf(a, o).n = a /\ UploadOf(b, q).n = b
        /\ UploadOf(a, o).op = o /\ UploadOf(b, q).op = q
    BY DEF UploadOf
  <2> QED
    BY <2>1
<1> QED
  BY <1>1, <1>2, MediaAssumption DEF Jobs, Uploads

\* An upload has an answer when it is done, and a MovieId in a review was uploaded.
LEMMA ComposeFacts ==
  ASSUME ComposeProofs!LossyInv
  PROVE  /\ pc \in [Uploads -> ComposeProofs!Location]
         /\ ret \in [Uploads -> {"none", "0", "-1"}]
         /\ \A c \in Uploads : ret[c] = "none" <=> pc[c] # "done"
         /\ \A v \in reviews : v.fields["MovieId"] # NoCall => \E a \in Attempt :
               /\ v.fields["MovieId"] = UploadOf(a, "MovieId")
               /\ pc[UploadOf(a, "MovieId")] # "start"
<1> USE ComposeAssumed
<1>1. /\ pc \in [Uploads -> ComposeProofs!Location]
      /\ ret \in [Uploads -> {"none", "0", "-1"}]
  BY DEF ComposeProofs!LossyInv, ComposeProofs!TypeOK, Uploads
<1>2. \A c \in Uploads : ret[c] = "none" <=> pc[c] # "done"
  BY DEF ComposeProofs!LossyInv, ComposeProofs!Books, ComposeProofs!RetAtDone, Uploads
<1>3. ASSUME NEW v \in reviews, v.fields["MovieId"] # NoCall
      PROVE  \E a \in Attempt : /\ v.fields["MovieId"] = UploadOf(a, "MovieId")
                                /\ pc[UploadOf(a, "MovieId")] # "start"
  <2>0. "MovieId" \in ComposeProofs!Component
    BY DEF ComposeProofs!Component
  <2>1. ComposeProofs!From(v.fields["MovieId"], "MovieId")
    BY <1>3, <2>0 DEF ComposeProofs!LossyInv, ComposeProofs!Origin
  <2>2. /\ v.fields["MovieId"] \in Uploads /\ v.fields["MovieId"].op = "MovieId"
        /\ pc[v.fields["MovieId"]] # "start"
    BY <2>1 DEF ComposeProofs!From, ComposeProofs!Passed, Uploads
  <2>3. PICK a \in Attempt, o \in {"UniqueId", "MovieId", "Text", "Rating"} :
          v.fields["MovieId"] = UploadOf(a, o)
    BY <2>2 DEF Uploads
  <2>4. o = "MovieId"
    BY <2>2, <2>3 DEF UploadOf
  <2> QED
    BY <2>2, <2>3, <2>4
<1> QED
  BY <1>1, <1>2, <1>3

\* As long as keys are kept every review has a MovieId.
LEMMA KeptFacts ==
  ASSUME ComposeProofs!SmoothInv, NEW v \in reviews
  PROVE  v.fields["MovieId"] # NoCall
<1>1. "MovieId" \in ComposeProofs!Component
  BY DEF ComposeProofs!Component
<1> QED
  BY <1>1 DEF ComposeProofs!SmoothInv, ComposeProofs!IInv, ComposeProofs!Kept, ComposeProofs!ReviewsComplete

\* An attempt whose four uploads were answered with 0 has its review once no upload is running.
LEMMA ReviewThere ==
  ASSUME ComposeProofs!SmoothInv, Compose!Undisturbed(TheRequest), NEW a \in Attempt,
         \A o \in {"UniqueId", "MovieId", "Text", "Rating"} : ret[UploadOf(a, o)] = "0",
         \A c \in Uploads : pc[c] \in {"start", "done"}
  PROVE  reviews # {}
<1> USE ComposeAssumed
<1>1. ComposeProofs!AckMeansStored
  BY ComposeProofs!SmoothAck
<1>2. ComposeProofs!Acknowledged(TheRequest)
  <2>1. ASSUME NEW o \in ComposeProofs!Component
        PROVE  \E c \in Uploads : c.req = TheRequest /\ c.op = o /\ ret[c] = "0"
    <3>1. o \in {"UniqueId", "MovieId", "Text", "Rating"}
      BY DEF ComposeProofs!Component
    <3>2. UploadOf(a, o) \in Uploads /\ ret[UploadOf(a, o)] = "0"
      BY <3>1, Distinct
    <3>3. UploadOf(a, o).req = TheRequest /\ UploadOf(a, o).op = o
      BY DEF UploadOf
    <3> QED
      BY <3>2, <3>3
  <2> QED
    BY <2>1 DEF ComposeProofs!Acknowledged, Uploads
<1>3. ComposeProofs!Undisturbed(TheRequest)
  BY SameEvict
<1>4. \E v \in reviews : v.req = TheRequest
  BY <1>1, <1>2, <1>3 DEF ComposeProofs!AckMeansStored
<1> QED
  BY <1>4

\* The id an upload has in hand was registered for the title.
LEMMA MovieFacts ==
  ASSUME MovieProofs!IInv
  PROVE  /\ DOMAIN moviePc = Registration \cup Jobs
         /\ moviePc = [c \in Registration \cup Jobs |-> moviePc[c]]
         /\ movieRet = [c \in Registration \cup Jobs |-> movieRet[c]]
         /\ movieId = [u \in Jobs |-> movieId[u]]
         /\ ret1 = [u \in Jobs |-> ret1[u]]
         /\ \A u \in Jobs :
              /\ moviePc[u] \in {"start", "insert", "find", "set", "movieId",
                                 "movieIdSent", "rating", "ratingSent", "done"}
              /\ movieId[u] # NoId => movieId[u] \in Movie!IdsOf(TheTitle)
              /\ moviePc[u] \in {"set", "movieId", "movieIdSent", "rating", "ratingSent"}
                   => movieId[u] # NoId
<1>1. MovieProofs!TypeOK /\ MovieProofs!OnlyRegisteredIds
  BY DEF MovieProofs!IInv
<1>2. Movie!IdsOf(TheTitle) = MovieProofs!IdsOf(TheTitle)
  BY DEF Movie!IdsOf, MovieProofs!IdsOf, Movie!DocsOf, MovieProofs!DocsOf
<1>3. \A u \in Jobs : u.title = TheTitle
  BY DEF Jobs, MovieJob
<1> QED
  BY <1>1, <1>2, <1>3
     DEF MovieProofs!TypeOK, MovieProofs!OnlyRegisteredIds, MovieProofs!AnyCall, Jobs

-----------------------------------------------------------------------------
(* Every step of the application is a step of each service or leaves it be. *)

\* An upload is called or goes on.
CallsGoOn == \E c \in Uploads : Compose!Start(c) \/ Compose!Step(c)

\* The compose-review service sees calls, its own steps, and losses of keys, which are counted.
LEMMA ComposeStepped ==
  [Next]_vars => CallsGoOn \/ UNCHANGED composeVars \/ (Compose!Evict /\ Lose(1))
<1> SUFFICES ASSUME [Next]_vars
             PROVE  CallsGoOn \/ UNCHANGED composeVars \/ (Compose!Evict /\ Lose(1))
  OBVIOUS
<1>1. ASSUME NEW a \in Attempt, AttemptStep(a) PROVE CallsGoOn \/ UNCHANGED composeVars
  <2>1. ASSUME NEW o \in {"UniqueId", "MovieId", "Text", "Rating"},
               Compose!Start(UploadOf(a, o)) \/ Compose!Step(UploadOf(a, o))
        PROVE  CallsGoOn
    BY <2>1, Distinct DEF CallsGoOn
  <2> QED
    BY <1>1, <2>1 DEF AttemptStep, UploadText, UploadUniqueId, LookupTitle, CallMovieId,
         UploadMovieId, CallRating, UploadRating, ComposeStep, FrontReturn, Compose!Component
<1>2. ASSUME NEW a \in Attempt, Submit(a) PROVE UNCHANGED composeVars
  BY <1>2 DEF Submit
<1>3. CASE RegisterTitle \/ DropTitle \/ UNCHANGED vars
  BY <1>3 DEF RegisterTitle, DropTitle, vars
<1>4. CASE DropReviewKey
  BY <1>4 DEF DropReviewKey
<1> QED
  BY <1>1, <1>2, <1>3, <1>4 DEF Next

\* The movie-id service sees calls, its own steps, and replies.
LEMMA MovieStepped ==
  ASSUME [Next]_vars
  PROVE  [Movie!Next]_movieVars
<1>1. ASSUME NEW a \in Attempt,
             \/ Movie!Lookup(MovieJob(a)) \/ Movie!SendMovieId(MovieJob(a))
             \/ Movie!SendRating(MovieJob(a)) \/ Movie!Reply(MovieJob(a))
      PROVE  Movie!Next
  BY <1>1 DEF Movie!Next
<1>2. ASSUME NEW a \in Attempt, NEW answer \in {"0", "-1"},
             \/ Movie!MovieIdReply(MovieJob(a), answer)
             \/ Movie!RatingReply(MovieJob(a), answer)
      PROVE  Movie!Next
  <2>1. Movie!Reply(MovieJob(a))
    BY <1>2 DEF Movie!Reply
  <2> QED
    BY <1>1, <2>1
<1>3. ASSUME NEW a \in Attempt, AttemptStep(a) PROVE [Movie!Next]_movieVars
  BY <1>1, <1>2, <1>3 DEF AttemptStep, UploadText, UploadUniqueId, LookupTitle, CallMovieId,
       UploadMovieId, CallRating, UploadRating, ComposeStep, FrontReturn
<1>4. ASSUME NEW a \in Attempt, Submit(a) PROVE [Movie!Next]_movieVars
  BY <1>4 DEF Submit
<1>5. CASE RegisterTitle \/ DropTitle \/ DropReviewKey
  BY <1>5 DEF RegisterTitle, DropTitle, DropReviewKey, Movie!Next
<1>6. CASE UNCHANGED vars
  BY <1>6 DEF vars
<1> QED
  BY <1>3, <1>4, <1>5, <1>6 DEF Next

\* Nothing is lost only if nothing was lost before and no invocation failed.
LEMMA LoseSome ==
  ASSUME lost \in Nat, NEW failed \in SUBSET (1 .. 3), Lose(Cardinality(failed))
  PROVE  lost' \in Nat /\ (lost' = 0 => lost = 0 /\ failed = {})
<1>1. PICK n \in Int : failed \subseteq 1 .. n
  OBVIOUS
<1>2. IsFiniteSet(failed)
  <2>1. 1 \in Int
    OBVIOUS
  <2>2. IsFiniteSet(1 .. n)
    BY ONLY <2>1, n \in Int, FS_Interval
  <2> QED
    BY ONLY <1>1, <2>2, FS_Subset
<1>3. Cardinality(failed) \in Nat /\ (Cardinality(failed) = 0 => failed = {})
  BY <1>2, FS_CardinalityType, FS_EmptySet
<1> QED
  BY <1>3 DEF Lose

\* What is lost stays lost.
LEMMA LostStep ==
  ASSUME lost \in Nat, [Next]_vars
  PROVE  /\ lost' \in Nat /\ (lost' = 0 => lost = 0)
         /\ lost' = 0 => CallsGoOn \/ UNCHANGED composeVars
<1>1. ASSUME NEW a \in Attempt, FrontReturn(a)
      PROVE  /\ lost' \in Nat /\ (lost' = 0 => lost = 0)
             /\ UNCHANGED composeVars
  BY <1>1, LoseSome DEF FrontReturn
<1>2. lost' = lost \/ Lose(1) \/ \E a \in Attempt : FrontReturn(a)
  BY DEF Next, AttemptStep, Submit, UploadText, UploadUniqueId, LookupTitle, CallMovieId,
       UploadMovieId, CallRating, UploadRating, ComposeStep, Reply,
       RegisterTitle, DropTitle, DropReviewKey, vars
<1> QED
  BY <1>1, <1>2, ComposeStepped DEF Lose

\* A call of the compose-review service, as its proofs know it.
LEMMA CallsTaken == CallsGoOn => ComposeProofs!Next
<1>1. ASSUME NEW c \in Uploads, Compose!Start(c) \/ Compose!Step(c)
      PROVE  ComposeProofs!Start(c) \/ ComposeProofs!Step(c)
  BY <1>1, SameSteps DEF Compose!Step, ComposeProofs!Step
<1> QED
  BY <1>1 DEF ComposeProofs!Next, Uploads, CallsGoOn

\* The service takes a step, or drops a key, or nothing happens to it.
LEMMA ComposeTaken ==
  ASSUME [Next]_vars
  PROVE  [ComposeProofs!LossyNext]_(ComposeProofs!vars)
<1>1. Compose!Evict => ComposeProofs!LossyNext
  BY SameEvict DEF ComposeProofs!LossyNext
<1> QED
  BY <1>1, CallsTaken, ComposeStepped
     DEF composeVars, ComposeProofs!vars, ComposeProofs!LossyNext

\* So what is invariant in the services is invariant here.
LEMMA ServicesKept ==
  ASSUME ComposeProofs!LossyInv, MovieProofs!IInv, lost = 0 => ComposeProofs!SmoothInv,
         lost \in Nat, [Next]_vars
  PROVE  /\ ComposeProofs!LossyInv' /\ MovieProofs!IInv'
         /\ lost' = 0 => ComposeProofs!SmoothInv'
<1> USE ComposeAssumed, MovieAssumed
<1>1. ComposeProofs!LossyInv'
  BY ComposeTaken, ComposeProofs!LossyStep
<1>2. ASSUME lost' = 0 PROVE ComposeProofs!SmoothInv'
  <2>1. [ComposeProofs!Next]_(ComposeProofs!vars)
    BY <1>2, CallsTaken, LostStep DEF composeVars, ComposeProofs!vars
  <2> QED
    BY <1>2, <2>1, LostStep, ComposeProofs!SmoothNext
<1>3. MovieProofs!IInv'
  <2>1. [Movie!Next]_movieVars
    BY MovieStepped
  <2>2. \A t \in {TheTitle} : Movie!Evict(t) = MovieProofs!Evict(t)
    BY DEF Movie!Evict, MovieProofs!Evict
  <2>3. Movie!Next => MovieProofs!Next
    BY <2>2, SameCalls, SameUploads DEF Movie!Next, MovieProofs!Next
  <2>4. [MovieProofs!Next]_(MovieProofs!movieVars)
    BY <2>1, <2>3 DEF movieVars, MovieProofs!movieVars
  <2> QED
    BY <2>4, MovieProofs!NextIInv
<1> QED
  BY <1>1, <1>2, <1>3

-----------------------------------------------------------------------------
(* What one step of a service does.                                        *)

\* Upload c, and no other, goes from one place to another.
UploadMoves(c) ==
  /\ pc[c] # "done" /\ pc'[c] # "start"
  /\ \A d \in Uploads \ {c} : pc'[d] = pc[d] /\ ret'[d] = ret[d]
  /\ reviews \subseteq reviews'

\* The call of an upload, and each of its steps.
LEMMA CallMoves ==
  ASSUME ComposeProofs!LossyInv, NEW c \in Uploads, Compose!Start(c) \/ Compose!Step(c)
  PROVE  /\ UploadMoves(c)
         /\ Compose!Start(c) => pc[c] = "start"
         /\ Compose!Step(c) => pc[c] # "start"
<1> USE ComposeAssumed
<1>1. ComposeProofs!TypeOK
  BY DEF ComposeProofs!LossyInv
<1>2. ComposeProofs!Start(c) \/ ComposeProofs!Step(c)
  BY SameSteps DEF Compose!Step, ComposeProofs!Step
<1>3. UploadMoves(c)
  BY <1>1, <1>2, ComposeProofs!CallMoves DEF UploadMoves, Uploads
<1>4. /\ Compose!Start(c) => pc[c] = "start"
      /\ Compose!Step(c) => pc[c] # "start"
  BY DEF Compose!Start, Compose!Step, Compose!AddCounter, Compose!AddComponent, Compose!Incr,
         Compose!GetCounter, Compose!ComposePop, Compose!ComposeGet, Compose!Store
<1> QED
  BY <1>3, <1>4

-----------------------------------------------------------------------------
(* The inductive invariant.                                                *)

\* An attempt is sent after all earlier ones were answered.
Sequential == \A a \in Attempt : front[a] # "idle" => \A b \in 1 .. a - 1 : b \in Answered

\* What the front end may be doing.
FrontTypes == front \in [Attempt -> {"idle", "running", "0", "-1"}] /\ lost \in Nat

\* No job of attempt a has begun.
NotSent(a) ==
  /\ moviePc[MovieJob(a)] = "start" /\ ret1[MovieJob(a)] = "none"
  /\ \A o \in {"UniqueId", "MovieId", "Text", "Rating"} : pc[UploadOf(a, o)] = "start"

\* Whatever is lost: nothing of an attempt runs before it was sent, and its movie id is
\* sent on only when there is one.
Begun(a) ==
  /\ front[a] = "idle" => NotSent(a)
  /\ ret1[MovieJob(a)] # "none" => movieId[MovieJob(a)] # NoId
  /\ pc[UploadOf(a, "MovieId")] # "start" => movieId[MovieJob(a)] # NoId

\* All three jobs have returned.
AllReturned(a) ==
  /\ moviePc[MovieJob(a)] = "done"
  /\ pc[UploadOf(a, "Text")] = "done" /\ pc[UploadOf(a, "UniqueId")] = "done"

\* The movie-id job and the two uploads it calls, one after the other: it ends with both of
\* them done or, if the look-up failed, with none of them begun.
CallsInOrder(a) ==
  LET m == moviePc[MovieJob(a)]
      p == pc[UploadOf(a, "MovieId")]
      q == pc[UploadOf(a, "Rating")]
      r1 == ret1[MovieJob(a)]
      x == ret[UploadOf(a, "MovieId")]
      y == ret[UploadOf(a, "Rating")]
  IN /\ m \in {"start", "insert", "find", "set", "movieId"}
          => p = "start" /\ q = "start" /\ r1 = "none"
     /\ m = "movieIdSent" => q = "start" /\ r1 = "none"
     /\ m = "rating" => p = "done" /\ q = "start" /\ r1 = x
     /\ m = "ratingSent" => p = "done" /\ r1 = x
     /\ m = "done" =>
          \/ movieRet[MovieJob(a)] = "-1" /\ p = "start" /\ q = "start" /\ r1 = "none"
          \/ /\ p = "done" /\ q = "done" /\ r1 = x
             /\ movieRet[MovieJob(a)] = IF x = "0" /\ y = "0" THEN "0" ELSE "-1"
     /\ m # "done" => movieRet[MovieJob(a)] = "none"

\* As long as nothing is lost, the front end and the jobs of attempt a keep step.
InStep(a) ==
  /\ front[a] \in {"0", "-1"} => AllReturned(a)
  /\ front[a] = "-1" => \/ movieRet[MovieJob(a)] = "-1"
                        \/ ret[UploadOf(a, "Text")] = "-1" \/ ret[UploadOf(a, "UniqueId")] = "-1"
  /\ CallsInOrder(a)

\* The inductive invariant.
IInv ==
  /\ ComposeProofs!LossyInv /\ MovieProofs!IInv
  /\ lost = 0 => ComposeProofs!SmoothInv
  /\ FrontTypes /\ Sequential
  /\ \A a \in Attempt : Begun(a)
  /\ lost = 0 => \A a \in Attempt : InStep(a)
  /\ SuccessMeansStored

\* Initially nobody has begun.
LEMMA InitIInv == Init => IInv
<1> SUFFICES ASSUME Init PROVE IInv
  OBVIOUS
<1>1. ComposeProofs!LossyInv /\ ComposeProofs!SmoothInv
  BY ComposeAssumed, SameCompose, ComposeProofs!SmoothInit
     DEF Init, ComposeProofs!LossyInv, ComposeProofs!SmoothInv, ComposeProofs!IInv
<1>2. MovieProofs!IInv
  BY MovieAssumed, SameMovie, MovieProofs!InitIInv DEF Init
<1>3. FrontTypes /\ Sequential /\ SuccessMeansStored
  BY DEF Init, FrontTypes, Sequential, SuccessMeansStored
<1>4. ASSUME NEW a \in Attempt PROVE Begun(a) /\ InStep(a)
  <2>1. MovieJob(a) \in Jobs /\ \A o \in {"UniqueId", "MovieId", "Text", "Rating"} :
                                   UploadOf(a, o) \in Uploads
    BY Distinct
  <2>2. /\ \A o \in {"UniqueId", "MovieId", "Text", "Rating"} : pc[UploadOf(a, o)] = "start"
        /\ moviePc[MovieJob(a)] = "start" /\ movieRet[MovieJob(a)] = "none"
        /\ ret1[MovieJob(a)] = "none"
    BY <2>1 DEF Init, Compose!Init, Movie!Init, Movie!AnyCall, Jobs, Uploads
  <2>3. front[a] = "idle"
    BY DEF Init
  <2> QED
    BY <2>2, <2>3 DEF InStep, Begun, NotSent, CallsInOrder
<1> QED
  BY <1>1, <1>2, <1>3, <1>4 DEF IInv

\* Nothing of attempt b changes.
Untouched(b) ==
  /\ front'[b] = front[b]
  /\ moviePc'[MovieJob(b)] = moviePc[MovieJob(b)]
  /\ movieRet'[MovieJob(b)] = movieRet[MovieJob(b)]
  /\ movieId'[MovieJob(b)] = movieId[MovieJob(b)]
  /\ ret1'[MovieJob(b)] = ret1[MovieJob(b)]
  /\ \A o \in {"UniqueId", "MovieId", "Text", "Rating"} :
        pc'[UploadOf(b, o)] = pc[UploadOf(b, o)] /\ ret'[UploadOf(b, o)] = ret[UploadOf(b, o)]

\* It stays in step then.
LEMMA Elsewhere ==
  ASSUME NEW b \in Attempt, Untouched(b)
  PROVE  (Begun(b) => Begun(b)') /\ (InStep(b) => InStep(b)')
BY DEF Untouched, Begun, InStep, NotSent, AllReturned, CallsInOrder

\* A step of attempt a.
LEMMA OfOneAttempt ==
  ASSUME IInv, NEW a \in Attempt, \A b \in Attempt \ {a} : Untouched(b),
         Begun(a)', lost = 0 /\ lost' = 0 => InStep(a)', lost' = 0 => lost = 0
  PROVE  /\ \A b \in Attempt : Begun(b)'
         /\ lost' = 0 => \A b \in Attempt : InStep(b)'
BY Elsewhere DEF IInv

\* What has failed stays failed.
LEMMA StaysDisturbed ==
  ASSUME IInv, [Next]_vars, Compose!Undisturbed(TheRequest)'
  PROVE  Compose!Undisturbed(TheRequest)
<1> USE ComposeAssumed
<1>1. ComposeProofs!TypeOK /\ ComposeProofs!Books
  BY DEF IInv, ComposeProofs!LossyInv
<1>3. [ComposeProofs!LossyNext]_(ComposeProofs!vars)
  BY ComposeTaken
<1>4. ComposeProofs!Undisturbed(TheRequest)'
  BY SameEvict
<1>5. ComposeProofs!Undisturbed(TheRequest)
  BY <1>1, <1>3, <1>4, ComposeProofs!StaysDisturbed
<1> QED
  BY <1>5, SameEvict

\* Reviews stay in the storage.
LEMMA ReviewsStay ==
  ASSUME IInv, [Next]_vars
  PROVE  reviews \subseteq reviews'
<1>1. CASE CallsGoOn
  BY <1>1, CallMoves DEF IInv, CallsGoOn, UploadMoves
<1>2. CASE UNCHANGED composeVars
  BY <1>2 DEF composeVars
<1>3. CASE Compose!Evict
  BY <1>3 DEF Compose!Evict, Compose!EvictCounter, Compose!EvictComponent, Compose!composeVars
<1> QED
  BY <1>1, <1>2, <1>3, ComposeStepped

\* An attempt that was answered with 0 keeps its review.
LEMMA SuccessKept ==
  ASSUME IInv, [Next]_vars,
         \A a \in Attempt : lost' = 0 /\ Compose!Undisturbed(TheRequest) /\ front'[a] = "0"
                              => front[a] = "0" \/ reviews # {}
  PROVE  SuccessMeansStored'
<1> SUFFICES ASSUME lost' = 0, Compose!Undisturbed(TheRequest)', NEW a \in Attempt, front'[a] = "0"
             PROVE  reviews' # {}
  BY DEF SuccessMeansStored
<1>1. Compose!Undisturbed(TheRequest) /\ lost = 0
  BY StaysDisturbed, LostStep DEF IInv, FrontTypes
<1>2. reviews # {}
  BY <1>1 DEF IInv, SuccessMeansStored
<1> QED
  BY <1>2, ReviewsStay

\* What a step of the front end or of a job has to keep.
Keeps == /\ FrontTypes' /\ Sequential'
         /\ \A b \in Attempt : Begun(b)'
         /\ lost' = 0 => \A b \in Attempt : InStep(b)'

\* The client sends the request.
LEMMA SubmitKeeps ==
  ASSUME IInv, NEW a \in Attempt, Submit(a)
  PROVE  Keeps /\ \A b \in Attempt : front'[b] = "0" => front[b] = "0"
<1>1. /\ front \in [Attempt -> {"idle", "running", "0", "-1"}] /\ front[a] = "idle"
      /\ front' = [front EXCEPT ![a] = "running"]
      /\ UNCHANGED <<moviePc, movieRet, movieId, ret1, pc, ret, lost>>
  BY DEF IInv, FrontTypes, Submit, movieVars, composeVars
<1>2. FrontTypes'
  BY <1>1 DEF IInv, FrontTypes
<1>3. Answered \subseteq Answered'
  BY <1>1 DEF Answered
<1>4. Sequential'
  BY <1>1, <1>3 DEF IInv, Sequential, Submit
<1>5. \A b \in Attempt \ {a} : Untouched(b)
  BY <1>1 DEF Untouched
<1>6. Begun(a)' /\ (lost = 0 => InStep(a)')
  BY <1>1 DEF IInv, Begun, InStep, CallsInOrder
<1> QED
  BY <1>1, <1>2, <1>4, <1>5, <1>6, OfOneAttempt DEF Keeps

\* The front end answers.
LEMMA FrontReturnKeeps ==
  ASSUME IInv, NEW a \in Attempt, FrontReturn(a), lost' \in Nat, lost' = 0 => lost = 0
  PROVE  /\ Keeps
         /\ \A b \in Attempt : lost' = 0 /\ Compose!Undisturbed(TheRequest) /\ front'[b] = "0"
                                 => front[b] = "0" \/ reviews # {}
<1> DEFINE m == movieRet[MovieJob(a)]
           t == ret[UploadOf(a, "Text")]
           i == ret[UploadOf(a, "UniqueId")]
<1>0. PICK failed \in SUBSET (1 .. 3) :
        /\ Lose(Cardinality(failed))
        /\ \A k \in 1 .. 3 \ failed : JobAnswers(a)[k] # "none"
        /\ front' = [front EXCEPT ![a] =
              IF failed = {} /\ \A k \in 1 .. 3 : JobAnswers(a)[k] # "-1" THEN "0" ELSE "-1"]
  BY DEF FrontReturn
<1>1. PICK answer \in {"0", "-1"} :
        /\ front \in [Attempt -> {"idle", "running", "0", "-1"}] /\ front[a] = "running"
        /\ front' = [front EXCEPT ![a] = answer]
        /\ UNCHANGED <<moviePc, movieRet, movieId, ret1, pc, ret, reviews>>
        /\ lost' = 0 => /\ \A k \in 1 .. 3 : JobAnswers(a)[k] # "none"
                        /\ answer = "0" => \A k \in 1 .. 3 : JobAnswers(a)[k] # "-1"
                        /\ answer = "-1" => \E k \in 1 .. 3 : JobAnswers(a)[k] = "-1"
  <2>1. lost' = 0 => failed = {}
    BY <1>0, LoseSome DEF IInv, FrontTypes
  <2> QED
    BY <1>0, <2>1 DEF IInv, FrontTypes, FrontReturn, movieVars, composeVars
<1>2. /\ (\A k \in 1 .. 3 : JobAnswers(a)[k] # "none") => m # "none" /\ t # "none" /\ i # "none"
      /\ (\A k \in 1 .. 3 : JobAnswers(a)[k] # "-1") => m # "-1" /\ t # "-1" /\ i # "-1"
      /\ (\E k \in 1 .. 3 : JobAnswers(a)[k] = "-1") => m = "-1" \/ t = "-1" \/ i = "-1"
  <2>1. JobAnswers(a)[1] = m /\ JobAnswers(a)[2] = t /\ JobAnswers(a)[3] = i
    BY DEF JobAnswers
  <2>2. \A k \in 1 .. 3 : k = 1 \/ k = 2 \/ k = 3
    OBVIOUS
  <2> QED
    BY <2>1, <2>2
<1>3. FrontTypes'
  BY <1>1 DEF FrontTypes
<1>4. Sequential'
  <2>1. Answered \subseteq Answered'
    BY <1>1 DEF Answered
  <2> QED
    BY <1>1, <2>1 DEF IInv, Sequential
<1>5. \A b \in Attempt \ {a} : Untouched(b)
  BY <1>1 DEF Untouched
<1>6. Begun(a)'
  BY <1>1 DEF IInv, Begun, NotSent
<1>7. ASSUME lost' = 0
      PROVE  /\ pc[UploadOf(a, "Text")] = "done" /\ pc[UploadOf(a, "UniqueId")] = "done"
             /\ moviePc[MovieJob(a)] = "done" /\ lost = 0 /\ InStep(a)
  BY <1>1, <1>2, <1>7, ComposeFacts, Distinct DEF IInv, InStep, CallsInOrder
<1>8. lost' = 0 => InStep(a)'
  BY <1>1, <1>2, <1>7 DEF InStep, CallsInOrder, AllReturned
\* Nobody else is running: earlier attempts were answered, later ones not sent.
<1>9. ASSUME answer = "0", lost' = 0, Compose!Undisturbed(TheRequest) PROVE reviews # {}
  <2>0. m # "-1" /\ t = "0" /\ i = "0"
    BY <1>1, <1>2, <1>9, ComposeFacts, Distinct DEF IInv
  <2>1. \A o \in {"UniqueId", "MovieId", "Text", "Rating"} :
           pc[UploadOf(a, o)] = "done" /\ ret[UploadOf(a, o)] = "0"
    BY <1>7, <1>9, <2>0 DEF InStep, CallsInOrder
  <2>2. ASSUME NEW b \in Attempt, b # a, NEW o \in {"UniqueId", "MovieId", "Text", "Rating"}
        PROVE  pc[UploadOf(b, o)] \in {"start", "done"}
    <3>1. front[b] \in {"idle", "0", "-1"}
      <4>1. a \notin Answered /\ a \in Int /\ b \in Int /\ a >= 1 /\ b >= 1
        BY <1>1, MediaAssumption DEF Answered, Attempt
      <4>2. CASE b < a
        BY <1>1, <2>2, <4>1, <4>2 DEF IInv, Sequential, Answered
      <4>3. CASE b > a
        BY <1>1, <2>2, <4>1, <4>3 DEF IInv, Sequential
      <4> QED
        BY <2>2, <4>1, <4>2, <4>3
    <3>2. CASE front[b] = "idle"
      BY <3>2, <2>2 DEF IInv, Begun, NotSent
    <3>3. CASE front[b] \in {"0", "-1"}
      BY <1>7, <1>9, <3>3, <2>2 DEF IInv, InStep, AllReturned, CallsInOrder
    <3> QED
      BY <3>1, <3>2, <3>3
  <2>3. \A c \in Uploads : pc[c] \in {"start", "done"}
    BY <2>1, <2>2 DEF Uploads
  <2> QED
    BY <1>7, <1>9, <2>1, <2>3, ReviewThere DEF IInv
<1>10. Keeps
  BY <1>3, <1>4, <1>5, <1>6, <1>8, OfOneAttempt DEF Keeps
<1> QED
  BY <1>1, <1>9, <1>10

\* The services leave the front end alone.
LEMMA FrontKept ==
  ASSUME IInv, UNCHANGED front, lost' \in Nat
  PROVE  FrontTypes' /\ Sequential'
BY DEF IInv, FrontTypes, Sequential, Answered

\* An upload is called when it was asked for,
LEMMA UploadKeeps ==
  ASSUME IInv, NEW a \in Attempt, NEW t \in {"UniqueId", "MovieId", "Text", "Rating"},
         Compose!Start(UploadOf(a, t)), UNCHANGED <<movieVars, front, lost>>,
         t \in {"Text", "UniqueId"} => front[a] # "idle",
         t = "MovieId" => moviePc[MovieJob(a)] = "movieIdSent" \/ ret1[MovieJob(a)] # "none",
         t = "Rating" => \/ moviePc[MovieJob(a)] = "ratingSent"
                         \/ moviePc[MovieJob(a)] = "done" /\ ret1[MovieJob(a)] # "none"
  PROVE  Keeps
<1> DEFINE c == UploadOf(a, t)
<1>1. /\ UploadMoves(c) /\ UNCHANGED <<front, lost, moviePc, movieRet, movieId, ret1>>
      /\ pc[c] = "start" /\ c \in Uploads /\ lost \in Nat
  BY CallMoves, Distinct DEF IInv, movieVars, FrontTypes
<1>2. ASSUME NEW b \in Attempt, NEW o \in {"UniqueId", "MovieId", "Text", "Rating"},
             b # a \/ o # t
      PROVE  pc'[UploadOf(b, o)] = pc[UploadOf(b, o)] /\ ret'[UploadOf(b, o)] = ret[UploadOf(b, o)]
  BY <1>1, <1>2, Distinct DEF UploadMoves
<1>3. \A b \in Attempt \ {a} : Untouched(b)
  BY <1>1, <1>2 DEF Untouched
<1>4. Begun(a)'
  <2>1. front[a] # "idle"
    BY DEF IInv, Begun, NotSent
  <2>2. t = "MovieId" => movieId[MovieJob(a)] # NoId
    BY MovieFacts, Distinct DEF IInv, Begun
  <2> QED
    BY <1>1, <1>2, <2>1, <2>2 DEF IInv, Begun
<1>5. lost = 0 => InStep(a)'
  <2> SUFFICES ASSUME lost = 0 PROVE InStep(a)'
    OBVIOUS
  <2>1. InStep(a) /\ pc[c] = "start" /\ ret[c] = "none"
    BY <1>1, ComposeFacts DEF IInv
  <2>2. CallsInOrder(a)'
    BY <1>1, <1>2, <2>1 DEF InStep, CallsInOrder
  <2>3. front[a] \in {"0", "-1"} => t \notin {"Text", "UniqueId"}
    BY <2>1 DEF InStep, AllReturned
  <2> QED
    BY <1>1, <1>2, <2>1, <2>2, <2>3 DEF InStep, AllReturned
<1> QED
  BY <1>1, <1>3, <1>4, <1>5, OfOneAttempt, FrontKept DEF Keeps

\* and goes on: as long as nothing is lost nobody has answered for one that is still running.
LEMMA ComposeStepKeeps ==
  ASSUME IInv, NEW a \in Attempt, ComposeStep(a)
  PROVE  Keeps
<1>0. PICK t \in {"UniqueId", "MovieId", "Text", "Rating"} : Compose!Step(UploadOf(a, t))
  BY DEF ComposeStep, Compose!Component
<1> DEFINE c == UploadOf(a, t)
<1>1. /\ UploadMoves(c) /\ UNCHANGED <<front, lost, moviePc, movieRet, movieId, ret1>>
      /\ pc[c] \notin {"start", "done"} /\ pc'[c] # "start" /\ c \in Uploads /\ lost \in Nat
  BY <1>0, CallMoves, Distinct DEF IInv, ComposeStep, movieVars, UploadMoves, FrontTypes
<1>2. ASSUME NEW b \in Attempt, NEW o \in {"UniqueId", "MovieId", "Text", "Rating"},
             b # a \/ o # t
      PROVE  pc'[UploadOf(b, o)] = pc[UploadOf(b, o)] /\ ret'[UploadOf(b, o)] = ret[UploadOf(b, o)]
  BY <1>1, <1>2, Distinct DEF UploadMoves
<1>3. \A b \in Attempt \ {a} : Untouched(b)
  BY <1>1, <1>2 DEF Untouched
<1>4. Begun(a)'
  BY <1>1, <1>2 DEF IInv, Begun, NotSent
<1>5. lost = 0 => InStep(a)'
  <2> SUFFICES ASSUME lost = 0 PROVE InStep(a)'
    OBVIOUS
  <2>1. InStep(a) /\ pc[c] \notin {"start", "done"}
    BY <1>1 DEF IInv
  <2>2. CallsInOrder(a)'
    BY <1>1, <1>2, <2>1 DEF InStep, CallsInOrder
  <2>3. front[a] \in {"0", "-1"} => t \notin {"Text", "UniqueId"}
    BY <2>1 DEF InStep, AllReturned
  <2> QED
    BY <1>1, <1>2, <2>1, <2>2, <2>3 DEF InStep, AllReturned
<1> QED
  BY <1>1, <1>3, <1>4, <1>5, OfOneAttempt, FrontKept DEF Keeps

\* The job of the movie id looks its title up.
LEMMA LookupKeeps ==
  ASSUME IInv, NEW a \in Attempt, LookupTitle(a)
  PROVE  Keeps
<1> DEFINE u == MovieJob(a)
<1>1. /\ front[a] # "idle" /\ UNCHANGED <<front, pc, ret, lost>> /\ Movie!Lookup(u)
      /\ MovieProofs!IInv /\ lost \in Nat
  BY DEF LookupTitle, composeVars, IInv, FrontTypes
<1>2. /\ UNCHANGED ret1 /\ moviePc[u] \in {"start", "find", "set"}
      /\ moviePc'[u] \in {"find", "set", "movieId", "done"}
      /\ movieRet'[u] = IF moviePc'[u] = "done" THEN "-1" ELSE movieRet[u]
      /\ \A b \in Attempt \ {a} : /\ moviePc'[MovieJob(b)] = moviePc[MovieJob(b)]
                                  /\ movieRet'[MovieJob(b)] = movieRet[MovieJob(b)]
                                  /\ movieId'[MovieJob(b)] = movieId[MovieJob(b)]
  <2> USE <1>1, Distinct, MovieFacts DEF Movie!Goto, Movie!Return, Movie!Continue
  <2>1. CASE Movie!CacheGet(u)
    BY <2>1 DEF Movie!CacheGet
  <2>2. CASE Movie!Find(u)
    BY <2>2 DEF Movie!Find
  <2>3. CASE Movie!CacheSet(u)
    BY <2>3 DEF Movie!CacheSet
  <2> QED
    BY <2>1, <2>2, <2>3 DEF Movie!Lookup
<1>3. movieId[u] # NoId => movieId'[u] # NoId
  <2> USE <1>1, Distinct, MovieFacts, MediaAssumption
  <2>1. CASE Movie!CacheGet(u)
    BY <2>1 DEF Movie!CacheGet
  <2>2. CASE Movie!Find(u)
    <3>1. docs \subseteq Registration
      BY DEF MovieProofs!IInv, MovieProofs!TypeOK
    <3> QED
      BY <2>2, <3>1 DEF Movie!Find, Movie!DocsOf
  <2>3. CASE Movie!CacheSet(u)
    BY <2>3 DEF Movie!CacheSet
  <2> QED
    BY <2>1, <2>2, <2>3 DEF Movie!Lookup
<1>4. \A b \in Attempt \ {a} : Untouched(b)
  BY <1>1, <1>2 DEF Untouched
<1>5. Begun(a)'
  BY <1>1, <1>2, <1>3 DEF IInv, Begun
<1>6. lost = 0 => InStep(a)'
  BY <1>1, <1>2 DEF IInv, InStep, AllReturned, CallsInOrder
<1> QED
  BY <1>1, <1>4, <1>5, <1>6, OfOneAttempt, FrontKept DEF Keeps

\* It invokes an upload.
LEMMA SendKeeps ==
  ASSUME IInv, NEW a \in Attempt,
         Movie!SendMovieId(MovieJob(a)) \/ Movie!SendRating(MovieJob(a)),
         UNCHANGED <<composeVars, front, lost>>
  PROVE  Keeps
<1> DEFINE u == MovieJob(a)
<1>1. /\ UNCHANGED <<front, pc, ret, lost, movieRet, movieId, ret1>> /\ lost \in Nat
      /\ \/ moviePc[u] = "movieId" /\ moviePc'[u] = "movieIdSent"
         \/ moviePc[u] = "rating" /\ moviePc'[u] = "ratingSent"
      /\ \A b \in Attempt \ {a} : moviePc'[MovieJob(b)] = moviePc[MovieJob(b)]
  BY MovieFacts, Distinct
     DEF IInv, Movie!SendMovieId, Movie!SendRating, Movie!Continue, Movie!Goto, composeVars,
         FrontTypes
<1>2. \A b \in Attempt \ {a} : Untouched(b)
  BY <1>1 DEF Untouched
<1>3. Begun(a)'
  BY <1>1 DEF IInv, Begun, NotSent
<1>4. lost = 0 => InStep(a)'
  BY <1>1 DEF IInv, InStep, AllReturned, CallsInOrder
<1> QED
  BY <1>1, <1>2, <1>3, <1>4, OfOneAttempt, FrontKept DEF Keeps

\* It gets a reply.
LEMMA ReplyKeeps ==
  ASSUME IInv, NEW a \in Attempt, NEW answer \in {"0", "-1"},
         \/ Reply(a, "MovieId", answer) /\ Movie!MovieIdReply(MovieJob(a), answer)
         \/ Reply(a, "Rating", answer) /\ Movie!RatingReply(MovieJob(a), answer),
         UNCHANGED <<composeVars, front>>
  PROVE  Keeps
<1> DEFINE u == MovieJob(a)
<1>1. /\ UNCHANGED <<front, pc, ret, movieId>> /\ lost \in Nat /\ lost' \in Nat
      /\ lost' = 0 => lost = 0
      /\ MovieProofs!IInv
  BY DEF composeVars, Reply, Lose, IInv, FrontTypes, Movie!MovieIdReply, Movie!RatingReply
<1>2. /\ \A b \in Attempt \ {a} : /\ moviePc'[MovieJob(b)] = moviePc[MovieJob(b)]
                                  /\ movieRet'[MovieJob(b)] = movieRet[MovieJob(b)]
                                  /\ ret1'[MovieJob(b)] = ret1[MovieJob(b)]
      /\ \/ /\ Reply(a, "MovieId", answer)
            /\ moviePc[u] = "movieIdSent" /\ moviePc'[u] = "rating"
            /\ ret1'[u] = answer /\ UNCHANGED movieRet
         \/ /\ Reply(a, "Rating", answer)
            /\ moviePc[u] = "ratingSent" /\ moviePc'[u] = "done" /\ UNCHANGED ret1
            /\ movieRet'[u] = IF ret1[u] = "0" /\ answer = "0" THEN "0" ELSE "-1"
  BY <1>1, MovieFacts, Distinct
     DEF Movie!MovieIdReply, Movie!RatingReply, Movie!Return, Movie!Continue, Movie!Goto
<1>3. \A b \in Attempt \ {a} : Untouched(b)
  BY <1>1, <1>2 DEF Untouched
<1>4. Begun(a)'
  <2>1. moviePc[u] = "movieIdSent" => movieId[u] # NoId
    BY <1>1, MovieFacts, Distinct
  <2> QED
    BY <1>1, <1>2, <2>1 DEF IInv, Begun, NotSent
<1>5. ASSUME lost' = 0 PROVE InStep(a)'
  <2>1. InStep(a) /\ lost = 0
    BY <1>1, <1>5 DEF IInv
  <2>2. /\ Reply(a, "MovieId", answer) =>
              answer = ret[UploadOf(a, "MovieId")] /\ pc[UploadOf(a, "MovieId")] = "done"
        /\ Reply(a, "Rating", answer) =>
              answer = ret[UploadOf(a, "Rating")] /\ pc[UploadOf(a, "Rating")] = "done"
    BY <1>1, <1>5, ComposeFacts, Distinct DEF Reply, Lose, IInv
  <2>3. CallsInOrder(a)'
    <3>1. CASE moviePc[u] = "movieIdSent"
      BY <1>1, <1>2, <2>1, <2>2, <3>1 DEF InStep, CallsInOrder
    <3>2. CASE moviePc[u] = "ratingSent"
      BY <1>1, <1>2, <2>1, <2>2, <3>2 DEF InStep, CallsInOrder
    <3> QED
      BY <1>2, <3>1, <3>2
  <2>4. front[a] \notin {"0", "-1"}
    BY <1>2, <2>1 DEF InStep, AllReturned
  <2> QED
    BY <1>1, <2>3, <2>4 DEF InStep
<1> QED
  BY <1>1, <1>3, <1>4, <1>5, OfOneAttempt, FrontKept DEF Keeps

\* Registrations and memcached do not touch the jobs.
LEMMA OthersKeep ==
  ASSUME IInv, RegisterTitle \/ DropTitle \/ DropReviewKey, lost' \in Nat, lost' = 0 => lost = 0
  PROVE  Keeps /\ UNCHANGED front
<1>1. UNCHANGED <<front, pc, ret>>
  BY DEF RegisterTitle, DropTitle, DropReviewKey, composeVars, Compose!Evict,
         Compose!EvictCounter, Compose!EvictComponent
<1>2. /\ UNCHANGED <<movieId, ret1>>
      /\ \A u \in Jobs : moviePc'[u] = moviePc[u] /\ movieRet'[u] = movieRet[u]
  <2>1. CASE DropTitle
    BY <2>1 DEF DropTitle, Movie!Evict
  <2>2. CASE DropReviewKey
    BY <2>2 DEF DropReviewKey, movieVars
  <2>3. ASSUME NEW r \in Registration, Movie!Register(r)
        PROVE  /\ UNCHANGED <<movieId, ret1>>
               /\ \A u \in Jobs : moviePc'[u] = moviePc[u] /\ movieRet'[u] = movieRet[u]
    <3>1. \A u \in Jobs : u # r
      BY Distinct DEF Jobs
    <3>2. MovieProofs!IInv
      BY DEF IInv
    <3> QED
      BY <2>3, <3>1, <3>2, MovieFacts
         DEF Movie!Register, Movie!RegisterFind, Movie!RegisterInsert, Movie!Return,
             Movie!Continue, Movie!Goto
  <2> QED
    BY <2>1, <2>2, <2>3 DEF RegisterTitle
<1>3. \A b \in Attempt : Untouched(b)
  BY <1>1, <1>2, Distinct DEF Untouched
<1> QED
  BY <1>1, <1>3, FrontKept, Elsewhere DEF IInv, Keeps

\* Every step preserves the invariant.
LEMMA NextIInv == IInv /\ [Next]_vars => IInv'
<1> SUFFICES ASSUME IInv, [Next]_vars PROVE IInv'
  OBVIOUS
<1> DEFINE NewlyFine == \A b \in Attempt :
             lost' = 0 /\ Compose!Undisturbed(TheRequest) /\ front'[b] = "0"
               => front[b] = "0" \/ reviews # {}
<1>0. lost' \in Nat /\ (lost' = 0 => lost = 0)
  BY LostStep DEF IInv, FrontTypes
<1>1. ASSUME NEW a \in Attempt, Submit(a) \/ AttemptStep(a) PROVE Keeps /\ NewlyFine
  <2>1. CASE Submit(a)
    BY <2>1, SubmitKeeps
  <2>2. CASE UploadText(a) \/ UploadUniqueId(a) \/ UploadMovieId(a) \/ UploadRating(a)
    BY <2>2, UploadKeeps DEF UploadText, UploadUniqueId, UploadMovieId, UploadRating
  <2>3. CASE LookupTitle(a)
    BY <2>3, LookupKeeps DEF LookupTitle
  <2>4. CASE CallMovieId(a)
    BY <2>4, SendKeeps, ReplyKeeps DEF CallMovieId
  <2>5. CASE CallRating(a)
    BY <2>5, SendKeeps, ReplyKeeps DEF CallRating
  <2>6. CASE ComposeStep(a)
    BY <2>6, ComposeStepKeeps DEF ComposeStep
  <2>7. CASE FrontReturn(a)
    BY <1>0, <2>7, FrontReturnKeeps
  <2> QED
    BY <1>1, <2>1, <2>2, <2>3, <2>4, <2>5, <2>6, <2>7 DEF AttemptStep
<1>2. ASSUME RegisterTitle \/ DropTitle \/ DropReviewKey PROVE Keeps /\ NewlyFine
  BY <1>0, <1>2, OthersKeep
<1>3. ASSUME UNCHANGED vars PROVE Keeps /\ NewlyFine
  <2>1. UNCHANGED <<front, lost, pc, ret, moviePc, movieRet, movieId, ret1>>
    BY <1>3 DEF vars, movieVars, composeVars
  <2>2. \A b \in Attempt : Untouched(b)
    BY <2>1 DEF Untouched
  <2> QED
    BY <1>0, <2>1, <2>2, FrontKept, Elsewhere DEF IInv, Keeps
<1>4. Keeps /\ NewlyFine
  BY <1>1, <1>2, <1>3 DEF Next
<1>5. SuccessMeansStored'
  BY <1>4, SuccessKept
<1>6. /\ ComposeProofs!LossyInv' /\ MovieProofs!IInv'
      /\ lost' = 0 => ComposeProofs!SmoothInv'
  BY ServicesKept DEF IInv, FrontTypes
<1> QED
  BY <1>4, <1>5, <1>6 DEF IInv, Keeps

\* The invariant holds in every reachable state.
LEMMA Invariance == Spec => []IInv
BY InitIInv, NextIInv, PTL DEF Spec

-----------------------------------------------------------------------------
(* The theorems.                                                           *)

\* For any number of attempts: as long as no upload was answered with -1, no composing failed,
\* no key of the review expired and no invocation failed by itself, the front end answers 0
\* only if the review is in the storage, also if earlier attempts failed at their title and
\* left some of the components behind
\* (ComposeReview.cpp:145 to 149 answers -1 if a job did not succeed, and 0 at :159).
THEOREM SuccessStored == Spec => []SuccessMeansStored
<1>1. IInv => SuccessMeansStored
  BY DEF IInv
<1> QED
  BY <1>1, Invariance, PTL

\* For any number of attempts: as long as every answer was -1, but no upload was answered with
\* -1, no key of the review expired and no invocation failed by itself, nothing is in the
\* storage.  A review needs a MovieId, and an attempt that uploaded one does not fail then.
THEOREM FailureStoresNothing == Spec => []FailureMeansNothingStored
<1>1. IInv => FailureMeansNothingStored
  <2> SUFFICES ASSUME IInv, lost = 0, NoUploadFailed,
                      \A a \in Attempt : front[a] \in {"idle", "-1"}, NEW v \in reviews
               PROVE  FALSE
    BY DEF FailureMeansNothingStored
  <2>1. PICK a \in Attempt : pc[UploadOf(a, "MovieId")] # "start"
    BY ComposeFacts, KeptFacts DEF IInv
  <2>2. CASE front[a] = "idle"
    BY <2>1, <2>2 DEF IInv, Begun, NotSent
  <2>3. CASE front[a] = "-1"
    <3>1. \A o \in {"UniqueId", "MovieId", "Text", "Rating"} : ret[UploadOf(a, o)] # "-1"
      BY DEF NoUploadFailed, Compose!Component
    <3>2. InStep(a) /\ moviePc[MovieJob(a)] = "done" /\ movieRet[MovieJob(a)] = "-1"
      BY <2>3, <3>1 DEF IInv, InStep, AllReturned
    <3>3. /\ pc[UploadOf(a, "MovieId")] = "done" /\ pc[UploadOf(a, "Rating")] = "done"
          /\ ~(ret[UploadOf(a, "MovieId")] = "0" /\ ret[UploadOf(a, "Rating")] = "0")
      BY <2>1, <3>2 DEF InStep, CallsInOrder
    <3> QED
      BY <3>1, <3>3, ComposeFacts, Distinct DEF IInv
  <2> QED
    BY <2>2, <2>3
<1> QED
  BY <1>1, Invariance, PTL

\* For any registrations, failures and losses: the movie id of a stored review was registered
\* for the title the client sent (UploadMovieId sends on only what Find or the cache gave it).
THEOREM MovieRegistered == Spec => []StoredMovieIsRegistered
<1>1. IInv => StoredMovieIsRegistered
  <2> SUFFICES ASSUME IInv, NEW v \in reviews, v.fields["MovieId"] # NoCall
               PROVE  movieId[MovieJob(v.fields["MovieId"].n)] \in Movie!IdsOf(TheTitle)
    BY DEF StoredMovieIsRegistered
  <2>1. PICK a \in Attempt : /\ v.fields["MovieId"] = UploadOf(a, "MovieId")
                             /\ pc[UploadOf(a, "MovieId")] # "start"
    BY ComposeFacts DEF IInv
  <2>2. v.fields["MovieId"].n = a
    BY <2>1 DEF UploadOf
  <2>3. movieId[MovieJob(a)] # NoId
    BY <2>1 DEF IInv, Begun
  <2> QED
    BY <2>2, <2>3, MovieFacts, Distinct DEF IInv
<1> QED
  BY <1>1, Invariance, PTL

\* For any failures and losses: until the request is sent again there is at most one review of
\* it.  Its uploads are the four of the first attempt, so the counter that Upload compares with
\* NUM_COMPONENTS lets one of them compose.
THEOREM StoredOnce == Spec => []SentOnceStoredOnce
<1> USE ComposeAssumed
<1>1. Init => ComposeProofs!OnceInv
  BY SameCompose, ComposeProofs!OnceInit DEF Init
<1>2. ComposeProofs!OnceInv /\ [Next]_vars => ComposeProofs!OnceInv'
  BY ComposeTaken, ComposeProofs!OnceNext
<1>3. IInv /\ ComposeProofs!OnceInv => SentOnceStoredOnce
  <2> SUFFICES ASSUME IInv, ComposeProofs!OnceInv,
                      \A a \in Attempt : front[a] # "idle" => a = 1,
                      NEW v \in reviews, NEW w \in reviews
               PROVE  v = w
    BY DEF SentOnceStoredOnce
  <2>1. ASSUME NEW c \in Uploads, pc[c] # "start"
        PROVE  \E o : c = UploadOf(1, o) /\ c.op = o
    <3>1. PICK a \in Attempt, o \in {"UniqueId", "MovieId", "Text", "Rating"} : c = UploadOf(a, o)
      BY DEF Uploads
    <3>2. a = 1
      BY <2>1, <3>1 DEF IInv, Begun, NotSent
    <3> QED
      BY <3>1, <3>2 DEF UploadOf
  <2>2. ComposeProofs!NoDuplicates
    BY <2>1 DEF ComposeProofs!NoDuplicates, Uploads
  <2>3. ComposeProofs!OneReviewPerRequest
    BY ComposeProofs!OnceStored
  <2>4. ComposeProofs!TypeOK
    BY DEF ComposeProofs!OnceInv
  <2>5. v.req = TheRequest /\ w.req = TheRequest
    BY <2>4 DEF ComposeProofs!TypeOK
  <2> QED
    BY <2>2, <2>3, <2>5 DEF ComposeProofs!OneReviewPerRequest
<1> QED
  BY <1>1, <1>2, <1>3, Invariance, PTL DEF Spec

\* The application uses the compose-review service as ComposeReview says it may be used, so
\* that what is proved of the service holds in the application.
THEOREM UsesCompose == Spec => Compose!LossySpec
<1>1. Init => Compose!Init
  BY DEF Init
<1>2. [Next]_vars => [Compose!LossyNext]_(Compose!vars)
  <2>1. CallsGoOn => Compose!LossyNext
    BY DEF CallsGoOn, Compose!LossyNext, Compose!Next, Uploads
  <2>2. Compose!Evict => Compose!LossyNext
    BY DEF Compose!LossyNext
  <2> QED
    BY <2>1, <2>2, ComposeStepped DEF composeVars, Compose!vars
<1> QED
  BY <1>1, <1>2, PTL DEF Spec, Compose!LossySpec

\* It uses the movie-id service as MovieIdService says it may be used: in particular the
\* replies it gives, those of failed invocations included, are such as the service expects.
THEOREM UsesMovie == Spec => Movie!Spec
<1>1. Init => Movie!Init
  BY DEF Init
<1>2. [Next]_vars => [Movie!Next]_(Movie!movieVars)
  BY MovieStepped DEF movieVars, Movie!movieVars
<1> QED
  BY <1>1, <1>2, PTL DEF Spec, Movie!Spec
=============================================================================
