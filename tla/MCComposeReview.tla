--------------------------- MODULE MCComposeReview ---------------------------
(* Model-checking instances of ComposeReview: one request, and the calls that
   upload its components. *)
EXTENDS ComposeReview

CONSTANT r1

Upload(o, n) == [req |-> r1, op |-> o, n |-> n]

\* Every component once.
Once == {Upload(o, 1) : o \in Component}

\* Text is uploaded twice.
TextTwice == Once \cup {Upload("Text", 2)}
=============================================================================
