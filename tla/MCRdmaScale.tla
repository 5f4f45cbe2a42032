---------------------------- MODULE MCRdmaScale ----------------------------
(* Model-checking instances of RdmaScale. *)
EXTENDS RdmaScale

\* Two client processes, one with two threads.
TwoProcesses == {[proc |-> "p1", id |-> 1], [proc |-> "p1", id |-> 2],
                 [proc |-> "p2", id |-> 1]}

\* One client process with three threads.
OneProcess == {[proc |-> "p1", id |-> i] : i \in 1 .. 3}
=============================================================================
