------------------------ MODULE MovieIdServiceProofs ------------------------
(***************************************************************************)
(* Proofs about MovieIdService, for any titles, ids, calls and failures.   *)
(***************************************************************************)
EXTENDS MovieIdService, TLAPS

\* A registration answered with 0 has inserted its document, only a finished one
\* has, and one on its way to insert saw no earlier registration of its title.
InsertSafe ==
  /\ \A q \in Registration : ret[q] = "0" => q \in docs
  /\ \A r \in docs : pc[r] = "done"
  /\ "mongodb" \notin Faults =>
       \A r \in Registration : pc[r] = "insert" =>
          \A q \in before[r] : q.title # r.title

\* The inductive invariant.
IInv == TypeOK /\ OnlyRegisteredIds /\ InsertSafe /\ RegistrationExcludesLater

\* The initial states satisfy the invariant.
LEMMA InitIInv == Init => IInv
BY MovieIdAssumption
   DEF Init, IInv, TypeOK, OnlyRegisteredIds, InsertSafe, RegistrationExcludesLater,
       AnyCall, Answer

\* The query of RegisterMovieId.
LEMMA RegisterFindIInv ==
  ASSUME IInv, NEW r \in Registration, RegisterFind(r)
  PROVE  IInv'
<1> USE MovieIdAssumption DEF IInv, AnyCall, Answer
<1>1. TypeOK'
  BY DEF TypeOK, RegisterFind, Remember, Return, Continue, Goto
<1>2. OnlyRegisteredIds'
  <2>1. UNCHANGED <<docs, cache, movieId>> BY DEF RegisterFind
  <2>2. \A u \in Upload : pc'[u] = pc[u]
    BY DEF RegisterFind, Return, Continue, Goto, TypeOK
  <2> QED BY <2>1, <2>2 DEF OnlyRegisteredIds, IdsOf, DocsOf
<1>3. r \notin docs
  BY DEF RegisterFind, InsertSafe
<1>4. InsertSafe'
  <2>1. \A q \in Registration : ret'[q] = "0" => q \in docs'
    BY DEF InsertSafe, RegisterFind, Return, Continue, TypeOK
  <2>2. \A q \in docs' : pc'[q] = "done"
    BY <1>3 DEF InsertSafe, RegisterFind, Return, Continue, Goto, TypeOK
  <2>3. ASSUME "mongodb" \notin Faults, NEW s \in Registration, pc'[s] = "insert",
               NEW q \in before'[s]
        PROVE  q.title # s.title
    <3>1. CASE s = r
      <4>1. DocsOf(r.title) = {}
        BY <2>3, <3>1 DEF RegisterFind, Return, Continue, Goto, TypeOK
      <4>2. q \in docs
        BY <3>1, <2>3 DEF InsertSafe, RegisterFind, Remember, TypeOK
      <4> QED BY <4>1, <4>2, <3>1 DEF DocsOf
    <3>2. CASE s # r
      <4>1. pc[s] = "insert" /\ q \in before[s]
        BY <2>3, <3>2 DEF RegisterFind, Remember, Return, Continue, Goto, TypeOK
      <4> QED BY <4>1, <2>3 DEF InsertSafe
    <3> QED BY <3>1, <3>2
  <2> QED BY <2>1, <2>2, <2>3 DEF InsertSafe
<1>5. RegistrationExcludesLater'
  BY <1>3 DEF RegistrationExcludesLater, RegisterFind, Remember, TypeOK
<1> QED BY <1>1, <1>2, <1>4, <1>5

\* The insertion of RegisterMovieId.
LEMMA RegisterInsertIInv ==
  ASSUME IInv, NEW r \in Registration, RegisterInsert(r)
  PROVE  IInv'
<1> USE MovieIdAssumption DEF IInv, AnyCall, Answer
<1>1. TypeOK'
  BY DEF TypeOK, RegisterInsert, Return, Goto
<1>2. OnlyRegisteredIds'
  <2>1. UNCHANGED <<cache, movieId>> /\ docs \subseteq docs' BY DEF RegisterInsert
  <2>2. \A u \in Upload : pc'[u] = pc[u]
    BY DEF RegisterInsert, Return, Goto, TypeOK
  <2>3. \A t \in Title : IdsOf(t) \subseteq IdsOf(t)'
    BY <2>1 DEF IdsOf, DocsOf
  <2> QED BY <2>1, <2>2, <2>3 DEF OnlyRegisteredIds
<1>3. InsertSafe'
  BY DEF InsertSafe, RegisterInsert, Return, Goto, TypeOK
<1>4. RegistrationExcludesLater'
  BY DEF RegistrationExcludesLater, InsertSafe, RegisterInsert
<1> QED BY <1>1, <1>2, <1>3, <1>4

\* A step of an upload, or of memcached, leaves the registrations alone: it is
\* enough that the state is well-typed and the ids are registered ones.
LEMMA UploadIInv ==
  ASSUME IInv, TypeOK', OnlyRegisteredIds', UNCHANGED docs,
         \A r \in Registration : /\ pc'[r] = pc[r] /\ ret'[r] = ret[r]
                                 /\ before'[r] = before[r]
  PROVE  IInv'
BY DEF IInv, InsertSafe, RegistrationExcludesLater, TypeOK

\* The steps of an upload.
LEMMA UploadStepIInv ==
  ASSUME IInv, NEW u \in Upload,
         Lookup(u) \/ SendMovieId(u) \/ SendRating(u) \/ Reply(u)
  PROVE  IInv'
<1> USE MovieIdAssumption DEF IInv, AnyCall, Answer
<1>1. CASE CacheGet(u)
  <2>1. TypeOK'
    BY <1>1 DEF TypeOK, CacheGet, Remember, Return, Continue, Goto
  <2>2. OnlyRegisteredIds'
    BY <1>1 DEF TypeOK, OnlyRegisteredIds, IdsOf, DocsOf, CacheGet, Return, Continue, Goto
  <2>3. UNCHANGED docs BY <1>1 DEF CacheGet
  <2>4. \A r \in Registration : /\ pc'[r] = pc[r] /\ ret'[r] = ret[r]
                                /\ before'[r] = before[r]
    BY <1>1 DEF TypeOK, CacheGet, Remember, Return, Continue, Goto
  <2> QED BY <2>1, <2>2, <2>3, <2>4, UploadIInv
<1>2. CASE Find(u)
  <2>1. TypeOK'
    BY <1>2 DEF TypeOK, Find, DocsOf, Return, Continue, Goto
  <2>2. OnlyRegisteredIds'
    BY <1>2 DEF TypeOK, OnlyRegisteredIds, IdsOf, DocsOf, Find, Return, Continue, Goto
  <2>3. UNCHANGED docs BY <1>2 DEF Find
  <2>4. \A r \in Registration : /\ pc'[r] = pc[r] /\ ret'[r] = ret[r]
                                /\ before'[r] = before[r]
    BY <1>2 DEF TypeOK, Find, Return, Continue, Goto
  <2> QED BY <2>1, <2>2, <2>3, <2>4, UploadIInv
<1>3. CASE CacheSet(u)
  <2>1. TypeOK'
    BY <1>3 DEF TypeOK, CacheSet, Return, Continue, Goto
  <2>2. OnlyRegisteredIds'
    BY <1>3 DEF TypeOK, OnlyRegisteredIds, IdsOf, DocsOf, CacheSet, Return, Continue, Goto
  <2>3. UNCHANGED docs BY <1>3 DEF CacheSet
  <2>4. \A r \in Registration : /\ pc'[r] = pc[r] /\ ret'[r] = ret[r]
                                /\ before'[r] = before[r]
    BY <1>3 DEF TypeOK, CacheSet, Return, Continue, Goto
  <2> QED BY <2>1, <2>2, <2>3, <2>4, UploadIInv
<1>4. CASE SendMovieId(u) \/ SendRating(u) \/ Reply(u)
  <2>1. /\ TypeOK' /\ UNCHANGED <<docs, cache, movieId, before>>
        /\ \A r \in Registration : pc'[r] = pc[r] /\ ret'[r] = ret[r]
        /\ \A v \in Upload \ {u} : pc'[v] = pc[v]
        /\ pc[u] \in {"movieId", "movieIdSent", "rating", "ratingSent"}
    BY <1>4 DEF TypeOK, SendMovieId, SendRating, Reply, MovieIdReply, RatingReply,
                Return, Continue, Goto
  <2>2. OnlyRegisteredIds'
    BY <2>1 DEF OnlyRegisteredIds, IdsOf, DocsOf
  <2> QED BY <2>1, <2>2, UploadIInv
<1> QED BY <1>1, <1>2, <1>3, <1>4 DEF Lookup

\* Every step preserves the invariant.
LEMMA NextIInv == IInv /\ [Next]_movieVars => IInv'
<1> SUFFICES ASSUME IInv, [Next]_movieVars PROVE IInv'
  OBVIOUS
<1>1. ASSUME NEW r \in Registration, Register(r) PROVE IInv'
  BY <1>1, RegisterFindIInv, RegisterInsertIInv DEF Register
<1>2. ASSUME NEW u \in Upload,
             Lookup(u) \/ SendMovieId(u) \/ SendRating(u) \/ Reply(u)
      PROVE  IInv'
  BY <1>2, UploadStepIInv
<1>3. ASSUME NEW t \in Title, Evict(t) PROVE IInv'
  <2>1. TypeOK' /\ UNCHANGED <<docs, pc, movieId, ret, before>>
    BY <1>3 DEF IInv, TypeOK, Evict
  <2>2. OnlyRegisteredIds'
    BY <1>3, <2>1 DEF IInv, TypeOK, OnlyRegisteredIds, IdsOf, DocsOf, Evict
  <2> QED BY <2>1, <2>2, UploadIInv
<1>4. CASE UNCHANGED movieVars
  BY <1>4 DEF movieVars, IInv, TypeOK, OnlyRegisteredIds, InsertSafe,
              RegistrationExcludesLater, IdsOf, DocsOf
<1> QED BY <1>1, <1>2, <1>3, <1>4 DEF Next

\* The invariant holds in every reachable state.
LEMMA Invariance == Spec => []IInv
<1>1. Init => IInv BY InitIInv
<1>2. IInv /\ [Next]_movieVars => IInv' BY NextIInv
<1> QED BY <1>1, <1>2, PTL DEF Spec

\* Every variable has its type: what an upload has in hand and what it caches is
\* a movie id, never the document it came from, whatever fails.
THEOREM TypeCorrect == Spec => []TypeOK
<1>1. IInv => TypeOK BY DEF IInv
<1> QED BY <1>1, Invariance, PTL

\* UploadMovieId never caches or sends on an id that was not registered for the
\* title, for any number of calls and whatever fails.
THEOREM IdsRegistered == Spec => []OnlyRegisteredIds
<1>1. IInv => OnlyRegisteredIds BY DEF IInv
<1> QED BY <1>1, Invariance, PTL

\* RegisterMovieId refuses a title that a finished registration has registered,
\* for any number of calls, unless the query itself fails.
THEOREM LaterRefused == Spec => []RegistrationExcludesLater
<1>1. IInv => RegistrationExcludesLater BY DEF IInv
<1> QED BY <1>1, Invariance, PTL
=============================================================================
