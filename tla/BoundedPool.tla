----------------------------- MODULE BoundedPool -----------------------------
(***************************************************************************)
(* What a client pool promises its callers, with the mutex, the condition  *)
(* variable, the free list and the timers left out: a caller is given a    *)
(* client nobody else has, there are never more than MaxPoolSize of them   *)
(* out, and what a caller has stays with it until it gives it back.  The   *)
(* promise ends when the pool breaks: the catch block of Pop changes the   *)
(* deque without the lock, and two such changes at once may do anything to *)
(* it.  ClientPool implements this specification, and ComposeReview is     *)
(* written against it.                                                     *)
(***************************************************************************)
EXTENDS Naturals, FiniteSets

CONSTANTS
  Thread,       \* the callers
  Addr,         \* the clients they may be given
  MaxPoolSize,  \* how many may be out at the same time
  NoClient      \* a caller that has none

VARIABLES
  owned,        \* owned[t]: the client t was given, or NoClient
  broken        \* have two push_backs run into each other?

Busy == {t \in Thread : owned[t] # NoClient}

Init == owned = [t \in Thread |-> NoClient] /\ broken = FALSE

Acquire(t) ==
  /\ owned[t] = NoClient
  /\ Cardinality(Busy) < MaxPoolSize
  /\ \E a \in Addr :
        /\ \A u \in Thread : owned[u] # a
        /\ owned' = [owned EXCEPT ![t] = a]

Release(t) ==
  /\ owned[t] # NoClient
  /\ owned' = [owned EXCEPT ![t] = NoClient]

\* The step that breaks the pool is itself a push_back: it takes a client from
\* nobody but its caller.
Break ==
  /\ ~broken /\ broken' = TRUE
  /\ UNCHANGED owned \/ \E t \in Thread : Release(t)

\* What a broken pool gives its callers may be given to others too.
Anything ==
  /\ broken /\ UNCHANGED broken
  /\ owned' \in [Thread -> Addr \cup {NoClient}]

Next ==
  \/ /\ ~broken /\ UNCHANGED broken
     /\ \E t \in Thread : Acquire(t) \/ Release(t)
  \/ Break
  \/ Anything

Spec == Init /\ [][Next]_<<owned, broken>>
=============================================================================
