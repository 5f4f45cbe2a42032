-------------------------- MODULE MCMovieIdService --------------------------
(* Model-checking instances of MovieIdService: two titles, the first of which
   is registered twice under different ids. *)
EXTENDS MovieIdService

CONSTANTS t1, t2, i1, i2

Registrations == {[title |-> t1, id |-> i1], [title |-> t1, id |-> i2],
                  [title |-> t2, id |-> i2]}

\* Two uploads of the title that is registered twice.
Uploads == {[title |-> t1, n |-> 1], [title |-> t1, n |-> 2]}

\* One title registered twice.
Race == {[title |-> t1, id |-> i1], [title |-> t1, id |-> i2]}
=============================================================================
