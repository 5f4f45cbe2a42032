---------------------------- MODULE MCMediaReview ----------------------------
(* Model-checking instances of MediaReview. *)
EXTENDS MediaReview

CONSTANT i1

\* The title is registered once.
OneRegistration == {[title |-> TheTitle, id |-> i1]}
=============================================================================
