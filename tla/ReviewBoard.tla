----------------------------- MODULE ReviewBoard -----------------------------
(***************************************************************************)
(* What the compose-review service promises for each request: components   *)
(* of the review arrive, in any order, and stay; once all are there the    *)
(* review is posted, never before.                                         *)
(***************************************************************************)
CONSTANTS Request, Component

VARIABLES
  arrived,   \* arrived[r]: the components of request r uploaded so far
  posted     \* the requests whose review is in the review storage

vars == <<arrived, posted>>

Init ==
  /\ arrived = [r \in Request |-> {}]
  /\ posted = {}

Arrive(r, o) ==
  /\ o \notin arrived[r]
  /\ arrived' = [arrived EXCEPT ![r] = @ \cup {o}]
  /\ UNCHANGED posted

Post(r) ==
  /\ arrived[r] = Component
  /\ r \notin posted
  /\ posted' = posted \cup {r}
  /\ UNCHANGED arrived

Next == \E r \in Request : Post(r) \/ \E o \in Component : Arrive(r, o)

Spec == Init /\ [][Next]_vars
=============================================================================
