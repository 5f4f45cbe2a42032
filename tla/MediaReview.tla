----------------------------- MODULE MediaReview -----------------------------
(***************************************************************************)
(* The review application end to end: the front end, the text, unique-id   *)
(* and movie-id services it calls at the same time, the compose-review     *)
(* service these call, and the storage.  A client sends one request, and   *)
(* sends it again after an answer, with the same req_id.                   *)
(*                                                                         *)
(* FanOut shows how the front end runs its three jobs and waits for them;  *)
(* here a job starts when the attempt does and the answer is given when    *)
(* all three have returned.  MovieIdService and ComposeReview are used as  *)
(* they are, with all their failures, the calls of functions joined to     *)
(* what they call.  An invocation may come back with an error of its own:  *)
(* the function it called was never reached, or runs on or will run        *)
(* without anybody waiting for its answer.                                 *)
(***************************************************************************)
EXTENDS Integers, Sequences, FiniteSets

CONSTANTS
  TheRequest, TheTitle,   \* what the client sends
  NumAttempts,            \* bound: how often it sends it
  Id, Registration, NoId, NoCall,
  Faults,                 \* what may fail in the movie-id service
  ComposeFaults,          \* what may fail in the compose-review service
  PoolSize,               \* clients in the memcached pool of the compose-review service
  MaxLost                 \* bound: how often a key of the review expires or an
                          \* invocation fails by itself

Attempt == 1 .. NumAttempts

\* The movie-id job of attempt a, and its uploads to the compose-review service.
MovieJob(a) == [title |-> TheTitle, n |-> a]
UploadOf(a, o) == [req |-> TheRequest, op |-> o, n |-> a]

VARIABLES docs, cache, moviePc, movieId, ret1, movieRet, before
VARIABLES counter, component, held, pc, next, draft, ret, composers, reviews

VARIABLES
  front,  \* each attempt: "idle", "running", or the answer of the front end
  lost    \* history: how many keys of the review expired and invocations failed

\* An invocation that fails looks to the movie-id service like a function that does.
Movie == INSTANCE MovieIdService WITH
  Title <- {TheTitle}, Upload <- {MovieJob(a) : a \in Attempt},
  Faults <- Faults \cup {"invoke"}, MayEvict <- TRUE, pc <- moviePc, ret <- movieRet

Compose == INSTANCE ComposeReview WITH
  Request <- {TheRequest},
  Call <- {UploadOf(a, o) : a \in Attempt, o \in {"UniqueId", "MovieId", "Text", "Rating"}},
  MaxPoolSize <- PoolSize, Faults <- ComposeFaults

movieVars == <<docs, cache, moviePc, movieId, ret1, movieRet, before>>
composeVars == <<counter, component, held, pc, next, draft, ret, composers, reviews>>
vars == <<movieVars, composeVars, front, lost>>

ASSUME MediaAssumption ==
  /\ NumAttempts \in Nat \ {0}
  /\ \A r \in Registration : r.title = TheTitle /\ r.id \in Id
  /\ \A a \in Attempt : MovieJob(a) \notin Registration
  /\ \A a \in Attempt, o \in Compose!Component : NoCall # UploadOf(a, o)
  /\ NoId \notin Id
  /\ Faults \subseteq {"memcached", "mongodb", "alloc"}
  /\ ComposeFaults \subseteq {"memcached", "storage", "alloc"}
  /\ PoolSize \in Nat \ {0}
  /\ MaxLost \in Nat

Init ==
  /\ Movie!Init
  /\ Compose!Init
  /\ front = [a \in Attempt |-> "idle"]
  /\ lost = 0

\* n things are lost.
Lose(n) == lost + n <= MaxLost /\ lost' = lost + n

-----------------------------------------------------------------------------
(* The front end.                                                          *)

Answered == {a \in Attempt : front[a] \in {"0", "-1"}}

Submit(a) ==
  /\ front[a] = "idle"
  /\ \A b \in 1 .. a - 1 : b \in Answered
  /\ front' = [front EXCEPT ![a] = "running"]
  /\ UNCHANGED <<movieVars, composeVars, lost>>

\* What the three jobs of attempt a returned.
JobAnswers(a) ==
  <<movieRet[MovieJob(a)], ret[UploadOf(a, "Text")], ret[UploadOf(a, "UniqueId")]>>

\* Mutant of FrontReturn: a failed job is overlooked.
FrontReturnAny(a) ==
  /\ front[a] = "running"
  /\ \A k \in 1 .. 3 : JobAnswers(a)[k] # "none"
  /\ front' = [front EXCEPT ![a] =
                 IF \E k \in 1 .. 3 : JobAnswers(a)[k] # "-1" THEN "0" ELSE "-1"]
  /\ UNCHANGED <<movieVars, composeVars, lost>>

\* The front end waits for all its jobs.  It may have got an error of the invocation
\* itself for some, whose functions may run on.
FrontReturn(a) ==
  /\ front[a] = "running"
  /\ \E failed \in SUBSET (1 .. 3) :
        /\ Lose(Cardinality(failed))
        /\ \A k \in 1 .. 3 \ failed : JobAnswers(a)[k] # "none"
        /\ front' = [front EXCEPT ![a] =
              IF failed = {} /\ \A k \in 1 .. 3 : JobAnswers(a)[k] # "-1" THEN "0" ELSE "-1"]
  /\ UNCHANGED <<movieVars, composeVars>>

-----------------------------------------------------------------------------
(* The services of the first tier.                                         *)

\* TextHandler::UploadText calls UploadText3 and returns what it returns.
UploadText(a) ==
  /\ front[a] # "idle"
  /\ Compose!Start(UploadOf(a, "Text"))
  /\ UNCHANGED <<movieVars, front, lost>>

\* So does UniqueIdHandler::UploadUniqueId with UploadUniqueId3.
UploadUniqueId(a) ==
  /\ front[a] # "idle"
  /\ Compose!Start(UploadOf(a, "UniqueId"))
  /\ UNCHANGED <<movieVars, front, lost>>

LookupTitle(a) ==
  /\ front[a] # "idle"
  /\ Movie!Lookup(MovieJob(a))
  /\ UNCHANGED <<composeVars, front, lost>>

\* What an invocation of the movie-id service answers: the function's answer, or
\* an error of its own.
Reply(a, o, answer) ==
  \/ answer = ret[UploadOf(a, o)] /\ answer # "none" /\ UNCHANGED lost
  \/ answer = "-1" /\ Lose(1)

\* Mutant of CallMovieId: the reply is dropped.
CallMovieIdNoReply(a) ==
  /\ Movie!SendMovieId(MovieJob(a))
  /\ UNCHANGED <<composeVars, front, lost>>

CallMovieId(a) ==
  /\ \/ Movie!SendMovieId(MovieJob(a)) /\ UNCHANGED lost
     \/ \E answer \in {"0", "-1"} :
           Reply(a, "MovieId", answer) /\ Movie!MovieIdReply(MovieJob(a), answer)
  /\ UNCHANGED <<composeVars, front>>

\* UploadMovieId3 is reached.
UploadMovieId(a) ==
  /\ moviePc[MovieJob(a)] = "movieIdSent" \/ ret1[MovieJob(a)] # "none"
  /\ Compose!Start(UploadOf(a, "MovieId"))
  /\ UNCHANGED <<movieVars, front, lost>>

\* Mutant of CallRating: ret2 is looked at before it is set.
CallRatingUnset(a) ==
  /\ \/ Movie!SendRating(MovieJob(a))
     \/ ret[UploadOf(a, "Rating")] # "none" /\ Movie!RatingReply(MovieJob(a), "-1")
  /\ UNCHANGED <<composeVars, front, lost>>

CallRating(a) ==
  /\ \/ Movie!SendRating(MovieJob(a)) /\ UNCHANGED lost
     \/ \E answer \in {"0", "-1"} :
           Reply(a, "Rating", answer) /\ Movie!RatingReply(MovieJob(a), answer)
  /\ UNCHANGED <<composeVars, front>>

\* UploadRating3 is reached.
UploadRating(a) ==
  /\ \/ moviePc[MovieJob(a)] = "ratingSent"
     \/ moviePc[MovieJob(a)] = "done" /\ ret1[MovieJob(a)] # "none"
  /\ Compose!Start(UploadOf(a, "Rating"))
  /\ UNCHANGED <<movieVars, front, lost>>

-----------------------------------------------------------------------------
(* The rest of the system.                                                 *)

ComposeStep(a) ==
  /\ \E o \in Compose!Component : Compose!Step(UploadOf(a, o))
  /\ UNCHANGED <<movieVars, front, lost>>

RegisterTitle ==
  /\ \E r \in Registration : Movie!Register(r)
  /\ UNCHANGED <<composeVars, front, lost>>

DropTitle == Movie!Evict(TheTitle) /\ UNCHANGED <<composeVars, front, lost>>

\* The counter or a component of the review expires.
DropReviewKey == Compose!Evict /\ Lose(1) /\ UNCHANGED <<movieVars, front>>

AttemptStep(a) ==
  \/ UploadText(a) \/ UploadUniqueId(a) \/ LookupTitle(a)
  \/ CallMovieId(a) \/ UploadMovieId(a) \/ CallRating(a) \/ UploadRating(a)
  \/ ComposeStep(a) \/ FrontReturn(a)

Next == \/ \E a \in Attempt : Submit(a) \/ AttemptStep(a)
        \/ RegisterTitle \/ DropTitle \/ DropReviewKey

Spec == Init /\ [][Next]_vars

\* What an attempt waits for runs on.  The client need not send anything, nobody
\* need register the title, and what nobody waits for need not run.
FairSpec == Spec /\ \A a \in Attempt : WF_vars(front[a] = "running" /\ AttemptStep(a))

-----------------------------------------------------------------------------
(* Properties.                                                             *)

\* No upload of any attempt was answered with -1.
NoUploadFailed ==
  \A a \in Attempt, o \in Compose!Component : ret[UploadOf(a, o)] # "-1"

\* An attempt that is answered with 0 has its review in the storage, also if an
\* earlier attempt left some of the components behind because the title was not
\* registered yet or MongoDB failed.  This is no promise of the code once the
\* compose-review service has failed for the request: an upload of an earlier
\* attempt that failed at its incr left a component that is never counted, a
\* composing that failed is answered with 0 all the same, and after a key expired
\* the counter starts again.
SuccessMeansStored ==
  lost = 0 /\ Compose!Undisturbed(TheRequest) =>
     \A a \in Attempt : front[a] = "0" => reviews # {}

\* Attempts that all failed have stored nothing, as long as they failed for their
\* title.  (An upload that was counted and answered with -1 because the reply of
\* incr, or that of an invocation, was lost lets the review be stored by another.)
FailureMeansNothingStored ==
  lost = 0 /\ NoUploadFailed /\ (\A a \in Attempt : front[a] \in {"idle", "-1"}) =>
     reviews = {}

\* Until the client sends it again a request has at most one review, whatever fails
\* and although the counter may expire under the uploads and start again.
SentOnceStoredOnce ==
  (\A a \in Attempt : front[a] # "idle" => a = 1) => \A v, w \in reviews : v = w

\* Whatever fails, the movie id of a stored review is one that was registered for
\* the title the client sent.
StoredMovieIsRegistered ==
  \A v \in reviews : LET c == v.fields["MovieId"] IN
     c # NoCall => movieId[MovieJob(c.n)] \in Movie!IdsOf(TheTitle)

\* Whatever fails, the client gets an answer.
AttemptAnswered == \A a \in Attempt : front[a] = "running" ~> a \in Answered
=============================================================================
