--------------------------- MODULE MovieIdService ---------------------------
(***************************************************************************)
(* The movie-id service, 1_MovieIdService/MovieIdHandler.h: titles are     *)
(* registered with a movie id in MongoDB, and an upload looks its title up *)
(* in memcached, then in MongoDB, writes what it found to memcached and    *)
(* calls UploadMovieId3 and UploadRating3 one after the other.             *)
(*                                                                         *)
(* A step is one request to memcached or MongoDB, with the calls of the    *)
(* client pools around it, or one end of the call of a function.           *)
(***************************************************************************)
EXTENDS Naturals, FiniteSets

CONSTANTS
  Title, Id,
  Registration,   \* calls of RegisterMovieId: records with a title and an id
  Upload,         \* calls of UploadMovieId: records with a title
  NoId,           \* no movie id
  Faults,         \* what may fail: "memcached", "mongodb", "alloc", "invoke"
  MayEvict        \* may memcached drop keys?

ASSUME MovieIdAssumption ==
  /\ \A r \in Registration : r.title \in Title /\ r.id \in Id
  /\ \A u \in Upload : u.title \in Title
  /\ Registration \cap Upload = {}
  /\ NoId \notin Id
  /\ Faults \subseteq {"memcached", "mongodb", "alloc", "invoke"}
  /\ MayEvict \in BOOLEAN

VARIABLES
  docs,      \* the collection "movie-id": the registrations that inserted theirs
  cache,     \* memcached: the id under each title
  pc,        \* where each call is
  movieId,   \* movie_id_str of each upload
  ret1,      \* what UploadMovieId3 answered each upload
  ret,       \* what each call returned
  before     \* history: registrations answered 0 when a call made its first step

movieVars == <<docs, cache, pc, movieId, ret1, ret, before>>

AnyCall == Registration \cup Upload

Answer == {"none", "0", "-1"}

TypeOK ==
  /\ docs \in SUBSET Registration
  /\ cache \in [Title -> Id \cup {NoId}]
  /\ pc \in [AnyCall -> {"start", "insert", "find", "set", "movieId",
                         "movieIdSent", "rating", "ratingSent", "done"}]
  /\ movieId \in [Upload -> Id \cup {NoId}]
  /\ ret1 \in [Upload -> Answer]
  /\ ret \in [AnyCall -> Answer]
  /\ before \in [AnyCall -> SUBSET Registration]

Init ==
  /\ docs = {}
  /\ cache = [t \in Title |-> NoId]
  /\ pc = [c \in AnyCall |-> "start"]
  /\ movieId = [u \in Upload |-> NoId]
  /\ ret1 = [u \in Upload |-> "none"]
  /\ ret = [c \in AnyCall |-> "none"]
  /\ before = [c \in AnyCall |-> {}]

Goto(c, loc) == pc' = [pc EXCEPT ![c] = loc]

Return(c, value) == Goto(c, "done") /\ ret' = [ret EXCEPT ![c] = value]

Continue(c, loc) == Goto(c, loc) /\ UNCHANGED ret

Remember(c) ==
  before' = [before EXCEPT ![c] = {q \in Registration : ret[q] = "0"}]

DocsOf(t) == {d \in docs : d.title = t}

-----------------------------------------------------------------------------
(* RegisterMovieId.                                                        *)

\* Mutant of RegisterFind: whatever the query finds, the title is inserted.
RegisterFindBlind(r) ==
  /\ pc[r] = "start"
  /\ Remember(r)
  /\ Continue(r, "insert")
  /\ UNCHANGED <<docs, cache, movieId, ret1>>

\* The query for the title.  A query that fails looks like one that found
\* nothing: mongoc_cursor_next is false in both cases.
RegisterFind(r) ==
  /\ pc[r] = "start"
  /\ Remember(r)
  /\ \/ DocsOf(r.title) # {} /\ Return(r, "-1")
     \/ DocsOf(r.title) = {} /\ Continue(r, "insert")
     \/ "mongodb" \in Faults /\ Continue(r, "insert")
     \/ "alloc" \in Faults /\ Return(r, "-1")
  /\ UNCHANGED <<docs, cache, movieId, ret1>>

RegisterInsert(r) ==
  /\ pc[r] = "insert"
  /\ \/ docs' = docs \cup {r} /\ Return(r, "0")
     \/ /\ "mongodb" \in Faults
        /\ docs' = docs \cup {r} \/ UNCHANGED docs
        /\ Return(r, "-1")
  /\ UNCHANGED <<cache, movieId, ret1, before>>

-----------------------------------------------------------------------------
(* UploadMovieId.                                                          *)

CacheGet(u) ==
  /\ pc[u] = "start"
  /\ Remember(u)
  /\ \/ /\ cache[u.title] # NoId
        /\ movieId' = [movieId EXCEPT ![u] = cache[u.title]]
        /\ Continue(u, "set")
     \/ cache[u.title] = NoId /\ Continue(u, "find") /\ UNCHANGED movieId
     \/ Faults \cap {"memcached", "alloc"} # {} /\ Return(u, "-1") /\ UNCHANGED movieId
  /\ UNCHANGED <<docs, cache, ret1>>

\* Mutant of Find: the query does not restrict the title.
FindAny(u) ==
  /\ pc[u] = "find"
  /\ \/ \E d \in docs : /\ movieId' = [movieId EXCEPT ![u] = d.id]
                        /\ Continue(u, "set")
     \/ docs = {} /\ Return(u, "-1") /\ UNCHANGED movieId
  /\ UNCHANGED <<docs, cache, ret1, before>>

\* Mutant of Find: the document is taken for its attribute movie_id.
FindDocument(u) ==
  /\ pc[u] = "find"
  /\ \E d \in DocsOf(u.title) : movieId' = [movieId EXCEPT ![u] = d]
  /\ Continue(u, "set")
  /\ UNCHANGED <<docs, cache, ret1, before>>

\* Mutant of Find: an upload whose title was not found goes on.
FindMissGoesOn(u) ==
  /\ pc[u] = "find"
  /\ Continue(u, "set")
  /\ UNCHANGED <<docs, cache, movieId, ret1, before>>

\* The first document of the cursor; any, if there are several.
Find(u) ==
  /\ pc[u] = "find"
  /\ \/ \E d \in DocsOf(u.title) :
           /\ movieId' = [movieId EXCEPT ![u] = d.id]
           /\ Continue(u, "set")
     \/ /\ DocsOf(u.title) = {} \/ Faults \cap {"mongodb", "alloc"} # {}
        /\ Return(u, "-1")
        /\ UNCHANGED movieId
  /\ UNCHANGED <<docs, cache, ret1, before>>

\* The id goes to memcached, after a hit too, and whether it got there or not
\* the upload goes on.
CacheSet(u) ==
  /\ pc[u] = "set"
  /\ \/ /\ \/ cache' = [cache EXCEPT ![u.title] = movieId[u]]
           \/ "memcached" \in Faults /\ UNCHANGED cache
        /\ Continue(u, "movieId")
     \/ "alloc" \in Faults /\ Return(u, "-1") /\ UNCHANGED cache
  /\ UNCHANGED <<docs, movieId, ret1, before>>

SendMovieId(u) ==
  /\ pc[u] = "movieId"
  /\ Continue(u, "movieIdSent")
  /\ UNCHANGED <<docs, cache, movieId, ret1, before>>

MovieIdReply(u, answer) ==
  /\ pc[u] = "movieIdSent"
  /\ ret1' = [ret1 EXCEPT ![u] = answer]
  /\ Continue(u, "rating")
  /\ UNCHANGED <<docs, cache, movieId, before>>

\* The rating is sent even if the movie id was refused.
SendRating(u) ==
  /\ pc[u] = "rating"
  /\ Continue(u, "ratingSent")
  /\ UNCHANGED <<docs, cache, movieId, ret1, before>>

RatingReply(u, answer) ==
  /\ pc[u] = "ratingSent"
  /\ Return(u, IF ret1[u] = "0" /\ answer = "0" THEN "0" ELSE "-1")
  /\ UNCHANGED <<docs, cache, movieId, ret1, before>>

-----------------------------------------------------------------------------
Evict(t) ==
  /\ MayEvict /\ cache[t] # NoId
  /\ cache' = [cache EXCEPT ![t] = NoId]
  /\ UNCHANGED <<docs, pc, movieId, ret1, ret, before>>

Register(r) == RegisterFind(r) \/ RegisterInsert(r)

Lookup(u) == CacheGet(u) \/ Find(u) \/ CacheSet(u)

\* The functions this service calls, when it is looked at alone.
Reply(u) == \E answer \in {"0", "-1"} :
  /\ answer = "-1" => "invoke" \in Faults
  /\ MovieIdReply(u, answer) \/ RatingReply(u, answer)

Next ==
  \/ \E r \in Registration : Register(r)
  \/ \E u \in Upload : Lookup(u) \/ SendMovieId(u) \/ SendRating(u) \/ Reply(u)
  \/ \E t \in Title : Evict(t)

Spec == Init /\ [][Next]_movieVars

-----------------------------------------------------------------------------
(* Properties.                                                             *)

IdsOf(t) == {d.id : d \in DocsOf(t)}

\* What is in the cache, and what an upload has in hand or sends on, is an id
\* that was registered for the title, whatever fails, expires or overtakes.
OnlyRegisteredIds ==
  /\ \A t \in Title : cache[t] # NoId => cache[t] \in IdsOf(t)
  /\ \A u \in Upload :
        /\ movieId[u] # NoId => movieId[u] \in IdsOf(u.title)
        /\ pc[u] \in {"set", "movieId", "movieIdSent", "rating", "ratingSent"}
             => movieId[u] # NoId

\* A title that was registered by a call answered with 0 is not registered again
\* by a call that starts later: only registrations that overlap can both insert
\* theirs.  (A query that fails is taken for one that found nothing.)
RegistrationExcludesLater ==
  "mongodb" \notin Faults =>
     \A r \in docs : \A q \in before[r] : q.title # r.title

\* MovieIdHandler.h:196: "Check if the username has existed in the database": a
\* title is in the collection at most once.
TitleRegisteredOnce == \A t \in Title : Cardinality(DocsOf(t)) <= 1
=============================================================================
