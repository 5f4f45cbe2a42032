--------------------------- MODULE FunctionChain ---------------------------
(***************************************************************************)
(* The function chains of experiment 6.  A worker of exp06Frontend         *)
(* (front_end.cpp) invokes exp06Backend with a chain length in the first   *)
(* int of the payload; a worker of exp06Backend (back_end.cpp) lowers it   *)
(* and invokes exp06Backend again until it is 1.  invoke_func_fn blocks,   *)
(* so every function of a chain keeps its worker until the rest of the     *)
(* chain has answered, and the workers of a function are a fixed set       *)
(* (minWorkers = maxWorkers in bench/intra-node/function_chain).           *)
(***************************************************************************)
EXTENDS Integers, Sequences, FiniteSets

CONSTANTS
  Front,            \* workers of exp06Frontend
  Back,             \* workers of exp06Backend
  Length,           \* the chain lengths the clients ask for
  MaxChainLength,   \* 128 in back_end.cpp
  Longest           \* the longest of the lengths that the back end accepts

ASSUME ChainAssumption ==
  /\ IsFiniteSet(Front) /\ IsFiniteSet(Back)
  /\ Length \subseteq Int
  /\ MaxChainLength \in Nat /\ Longest \in Nat \ {0}
  /\ \A n \in Length : n \in 1 .. MaxChainLength => n <= Longest

VARIABLES
  phase,     \* what the innermost function of the chain of each front worker does
  asked,     \* the chain length of the request
  payload,   \* the int at the start of the payload
  stack,     \* the back-end workers the chain holds, the innermost last
  ret,       \* what invoke_func_fn returned last
  answer     \* what the front worker answered to its last request

vars == <<phase, asked, payload, stack, ret, answer>>

Busy == UNION {{stack[f][i] : i \in DOMAIN stack[f]} : f \in Front}

Init ==
  /\ phase = [f \in Front |-> "idle"]
  /\ asked = [f \in Front |-> 0]
  /\ payload = [f \in Front |-> 0]
  /\ stack = [f \in Front |-> <<>>]
  /\ ret = [f \in Front |-> 0]
  /\ answer = [f \in Front |-> "none"]

-----------------------------------------------------------------------------
(* front_end.cpp, before the call.                                         *)

\* The request cannot be parsed, or there is no memory for the payload.
RequestRefused(f) ==
  /\ phase[f] = "idle"
  /\ answer' = [answer EXCEPT ![f] = "-1"]
  /\ UNCHANGED <<phase, asked, payload, stack, ret>>

\* Whatever number std::stoi finds is written into the payload and sent on.
Request(f) ==
  /\ phase[f] = "idle"
  /\ \E n \in Length : /\ asked' = [asked EXCEPT ![f] = n]
                       /\ payload' = [payload EXCEPT ![f] = n]
  /\ phase' = [phase EXCEPT ![f] = "invoking"]
  /\ answer' = [answer EXCEPT ![f] = "none"]
  /\ UNCHANGED <<stack, ret>>

-----------------------------------------------------------------------------
(* The engine behind invoke_func_fn.                                       *)

Dispatch(f, w) ==
  /\ phase[f] = "invoking" /\ w \notin Busy
  /\ stack' = [stack EXCEPT ![f] = Append(@, w)]
  /\ phase' = [phase EXCEPT ![f] = "called"]
  /\ UNCHANGED <<asked, payload, ret, answer>>

\* The invocation fails before a worker has seen it.
InvokeFails(f) ==
  /\ phase[f] = "invoking"
  /\ ret' = [ret EXCEPT ![f] = -1]
  /\ phase' = [phase EXCEPT ![f] = "replied"]
  /\ UNCHANGED <<asked, payload, stack, answer>>

-----------------------------------------------------------------------------
(* back_end.cpp.                                                           *)

\* The innermost function returns r: its worker is free and its caller goes on.
Return(f, r) ==
  /\ stack' = [stack EXCEPT ![f] = SubSeq(@, 1, Len(@) - 1)]
  /\ ret' = [ret EXCEPT ![f] = r]
  /\ phase' = [phase EXCEPT ![f] = "replied"]

\* Mutant of BackCall: the length is not lowered.
BackCallSameLength(f) ==
  /\ phase[f] = "called"
  /\ \/ payload[f] \notin 1 .. MaxChainLength /\ Return(f, -1)
     \/ payload[f] = 1 /\ Return(f, 0)
     \/ /\ payload[f] \in 2 .. MaxChainLength
        /\ phase' = [phase EXCEPT ![f] = "invoking"]
        /\ UNCHANGED <<stack, ret>>
  /\ UNCHANGED <<asked, payload, answer>>

\* Mutant of BackCall: no upper limit on the length.
BackCallUnlimited(f) ==
  /\ phase[f] = "called"
  /\ \/ payload[f] < 1 /\ Return(f, -1) /\ UNCHANGED payload
     \/ payload[f] = 1 /\ Return(f, 0) /\ UNCHANGED payload
     \/ /\ payload[f] > 1
        /\ payload' = [payload EXCEPT ![f] = @ - 1]
        /\ phase' = [phase EXCEPT ![f] = "invoking"]
        /\ UNCHANGED <<stack, ret>>
  /\ UNCHANGED <<asked, answer>>

BackCall(f) ==
  /\ phase[f] = "called"
  /\ \/ /\ payload[f] \notin 1 .. MaxChainLength      \* bad chain length!
        /\ Return(f, -1)
        /\ UNCHANGED payload
     \/ /\ payload[f] = 1
        /\ Return(f, 0)
        /\ UNCHANGED payload
     \/ /\ payload[f] \in 2 .. MaxChainLength
        /\ payload' = [payload EXCEPT ![f] = @ - 1]   \* (*chain_length_ptr)--
        /\ phase' = [phase EXCEPT ![f] = "invoking"]
        /\ UNCHANGED <<stack, ret>>
  /\ UNCHANGED <<asked, answer>>

\* invoke_func_fn has returned inside the chain: the answer goes one up.
BackReply(f) ==
  /\ phase[f] = "replied" /\ stack[f] # <<>>
  /\ Return(f, ret[f])
  /\ UNCHANGED <<asked, payload, answer>>

-----------------------------------------------------------------------------
(* front_end.cpp, after the call.                                          *)

\* ret is looked at after the output was parsed, and a failed invocation leaves
\* the output pointer unset: std::stol throws, or gets some number, which the
\* test of ret then discards, or reading it ends the process.
FrontReply(f) ==
  /\ phase[f] = "replied" /\ stack[f] = <<>>
  /\ \/ /\ ret[f] = 0
        /\ answer' = [answer EXCEPT ![f] = "0"]
        /\ phase' = [phase EXCEPT ![f] = "idle"]
     \/ /\ ret[f] # 0
        /\ answer' = [answer EXCEPT ![f] = "-1"]
        /\ phase' = [phase EXCEPT ![f] = "idle"]
     \/ /\ ret[f] # 0
        /\ phase' = [phase EXCEPT ![f] = "crashed"]
        /\ UNCHANGED answer
  /\ UNCHANGED <<asked, payload, stack, ret>>

-----------------------------------------------------------------------------
Step(f) == BackCall(f) \/ BackReply(f) \/ FrontReply(f)

Next == \E f \in Front :
  \/ RequestRefused(f) \/ Request(f)
  \/ (\E w \in Back : Dispatch(f, w)) \/ InvokeFails(f)
  \/ Step(f)

(***************************************************************************)
(* A function that has its worker runs, and the engine does not pass over  *)
(* a waiting invocation for ever while workers keep becoming free.  It is  *)
(* not assumed to give up on one.                                          *)
(***************************************************************************)
Fairness == \A f \in Front :
  WF_vars(Step(f)) /\ SF_vars(\E w \in Back : Dispatch(f, w))

Spec == Init /\ [][Next]_vars

FairSpec == Spec /\ Fairness

-----------------------------------------------------------------------------
(* Properties.                                                             *)

TypeOK ==
  /\ phase \in [Front -> {"idle", "invoking", "called", "replied", "crashed"}]
  /\ asked \in [Front -> Length \cup {0}]
  /\ payload \in [Front -> Int]
  /\ stack \in [Front -> Seq(Back)]
  /\ ret \in [Front -> {0, -1}]
  /\ answer \in [Front -> {"none", "0", "-1"}]

\* A chain has as many functions as the client asked for: what the payload still
\* demands is what is missing, whichever function the chain has reached, and
\* only a length the back end accepts gets past the first of them.  When the
\* client is answered the chain has given all its workers back.
DepthMatchesLength ==
  \A f \in Front :
    /\ phase[f] \in {"idle", "crashed"} => stack[f] = <<>>
    /\ phase[f] = "invoking" =>
          /\ payload[f] = asked[f] - Len(stack[f])
          /\ stack[f] # <<>> => asked[f] \in 1 .. MaxChainLength /\ payload[f] >= 1
    /\ phase[f] = "called" =>
          /\ stack[f] # <<>>
          /\ payload[f] = asked[f] - Len(stack[f]) + 1
          /\ Len(stack[f]) > 1 => asked[f] \in 1 .. MaxChainLength /\ payload[f] >= 1

\* Workers enough that all front workers can have a chain one function short of
\* the longest and still leave one worker free.  The throughput test of the
\* README (4 front and 128 back workers, chains of 32) satisfies it.
EnoughWorkers == Cardinality(Front) * (Longest - 1) < Cardinality(Back)

\* The chains never wait for each other in a circle: if one waits for a worker,
\* a worker is free or another chain is about to run.
NoStuckChains ==
  EnoughWorkers /\ (\E f \in Front : phase[f] = "invoking") =>
     \/ Back \ Busy # {}
     \/ \E f \in Front : phase[f] \in {"called", "replied"}

\* ... so every request is answered, unless answering it ends the process.
RequestAnswered ==
  \A f \in Front : phase[f] = "invoking" ~> phase[f] \in {"idle", "crashed"}
=============================================================================
