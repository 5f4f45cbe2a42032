------------------------ MODULE FunctionChainProofs ------------------------
(***************************************************************************)
(* The function chains for any number of workers and any lengths: types,   *)
(* the depth of a chain, and from it that chains do not get stuck when     *)
(* there are enough workers.                                               *)
(***************************************************************************)
EXTENDS FunctionChain, FiniteSetTheorems, SequenceTheorems, TLAPS

\* A worker list without its last entry: what Return leaves of the stack.
LEMMA Pop ==
  ASSUME NEW S, NEW s \in Seq(S), s # <<>>
  PROVE  /\ Len(s) \in Nat /\ Len(s) >= 1
         /\ SubSeq(s, 1, Len(s) - 1) \in Seq(S)
         /\ Len(SubSeq(s, 1, Len(s) - 1)) = Len(s) - 1
         /\ \A i \in 1 .. Len(s) - 1 : SubSeq(s, 1, Len(s) - 1)[i] = s[i]
  <1>1. Len(s) \in Nat \ {0} /\ \A i \in 1 .. Len(s) : s[i] \in S
    BY EmptySeq, LenProperties
  <1>2. \A i \in 1 .. Len(s) - 1 : s[i] \in S
    BY <1>1
  <1> DEFINE n == Len(s) - 1
  <1>3. n \in Nat /\ 1 \in Int /\ n - 1 + 1 = n
    BY <1>1
  <1>4. /\ SubSeq(s, 1, n) \in Seq(S)
        /\ Len(SubSeq(s, 1, n)) = IF 1 <= n THEN n - 1 + 1 ELSE 0
        /\ \A i \in 1 .. n - 1 + 1 : SubSeq(s, 1, n)[i] = s[1 + i - 1]
    <2> HIDE DEF n
    <2>1. \A i \in 1 .. n : s[i] \in S
      BY <1>2 DEF n
    <2>2. n \in Int
      BY <1>3
    <2> QED
      BY ONLY <2>1, <2>2, <1>3, SubSeqProperties
  <1> QED
    BY <1>1, <1>3, <1>4

\* What the clients ask for is a number.
LEMMA AskedNumber == TypeOK => \A f \in Front : asked[f] \in Int
  <1> SUFFICES ASSUME TypeOK, NEW f \in Front PROVE asked[f] \in Int
    OBVIOUS
  <1>1. asked[f] \in Length \/ asked[f] = 0
    BY DEF TypeOK
  <1>2. Length \subseteq Int
    BY ChainAssumption
  <1>3. CASE asked[f] \in Length
    BY ONLY <1>2, <1>3, Zenon
  <1>4. CASE asked[f] = 0
    BY <1>4
  <1> QED
    BY <1>1, <1>3, <1>4

\* The engine gives a worker one request at a time (Dispatch), and so a worker is
\* in one place of one stack.
WorkerServesOne ==
  \A f, g \in Front : \A i \in DOMAIN stack[f], j \in DOMAIN stack[g] :
     stack[f][i] = stack[g][j] => f = g /\ i = j

\* The invariant that is preserved by every step.
IInv == TypeOK /\ WorkerServesOne /\ DepthMatchesLength

LEMMA InitIInv == Init => IInv
  <1> SUFFICES ASSUME Init PROVE IInv
    OBVIOUS
  <1>1. TypeOK
    BY DEF Init, TypeOK
  <1>2. WorkerServesOne
    BY DEF Init, WorkerServesOne
  <1>3. DepthMatchesLength
    BY DEF Init, DepthMatchesLength
  <1> QED
    BY <1>1, <1>2, <1>3 DEF IInv

\* Return preserves types and one call per worker: the lists only get shorter.
LEMMA ReturnShortens ==
  ASSUME IInv, NEW f \in Front, NEW r \in {0, -1}, stack[f] # <<>>, Return(f, r)
  PROVE  /\ stack' \in [Front -> Seq(Back)]
         /\ ret' \in [Front -> {0, -1}]
         /\ phase' \in [Front -> {"idle", "invoking", "called", "replied", "crashed"}]
         /\ phase'[f] = "replied"
         /\ \A g \in Front \ {f} : phase'[g] = phase[g] /\ stack'[g] = stack[g]
         /\ WorkerServesOne'
  <1> USE DEF IInv, TypeOK
  <1> DEFINE s == stack[f]
  <1>1. s \in Seq(Back)
    OBVIOUS
  <1>2. /\ Len(s) \in Nat /\ Len(s) >= 1
        /\ SubSeq(s, 1, Len(s) - 1) \in Seq(Back)
        /\ Len(SubSeq(s, 1, Len(s) - 1)) = Len(s) - 1
        /\ \A i \in 1 .. Len(s) - 1 : SubSeq(s, 1, Len(s) - 1)[i] = s[i]
    BY <1>1, Pop
  <1>3. stack' = [stack EXCEPT ![f] = SubSeq(s, 1, Len(s) - 1)]
    BY DEF Return
  <1>4. stack' \in [Front -> Seq(Back)]
    BY <1>2, <1>3
  <1>5. /\ ret' \in [Front -> {0, -1}]
        /\ phase' \in [Front -> {"idle", "invoking", "called", "replied", "crashed"}]
        /\ phase'[f] = "replied"
        /\ \A g \in Front \ {f} : phase'[g] = phase[g] /\ stack'[g] = stack[g]
    BY <1>3 DEF Return
  <1>6. \A g \in Front : \A i \in DOMAIN stack'[g] :
           i \in DOMAIN stack[g] /\ stack'[g][i] = stack[g][i]
    <2> TAKE g \in Front
    <2>1. CASE g = f
      <3>1. stack'[f] = SubSeq(s, 1, Len(s) - 1) /\ stack'[f] \in Seq(Back)
        BY <1>2, <1>3
      <3>2. DOMAIN stack'[f] = 1 .. Len(s) - 1 /\ DOMAIN s = 1 .. Len(s)
        BY <3>1, <1>1, <1>2
      <3> QED
        BY <2>1, <3>1, <3>2, <1>2
    <2>2. CASE g # f
      BY <2>2, <1>3
    <2> QED
      BY <2>1, <2>2
  <1>7. WorkerServesOne'
    BY <1>6 DEF WorkerServesOne
  <1> QED
    BY <1>4, <1>5, <1>7

LEMMA NextIInv == IInv /\ [Next]_vars => IInv'
  <1> SUFFICES ASSUME IInv, [Next]_vars PROVE IInv'
    OBVIOUS
  <1>t. TypeOK /\ WorkerServesOne /\ DepthMatchesLength
    BY DEF IInv
  <1>1. ASSUME NEW f \in Front, RequestRefused(f) PROVE IInv'
    BY <1>1, <1>t DEF IInv, TypeOK, WorkerServesOne, DepthMatchesLength, RequestRefused
  <1>2. ASSUME NEW f \in Front, Request(f) PROVE IInv'
    <2>0. stack[f] = <<>> /\ Len(stack[f]) = 0
      BY <1>2, <1>t, EmptySeq DEF Request, DepthMatchesLength
    <2>1. TypeOK'
      BY <1>2, <1>t, ChainAssumption DEF TypeOK, Request
    <2>2. WorkerServesOne'
      BY <1>2, <1>t DEF WorkerServesOne, Request
    <2>3. DepthMatchesLength'
      <3> SUFFICES ASSUME NEW g \in Front
                   PROVE  DepthMatchesLength!(g)'
        BY DEF DepthMatchesLength
      <3>1. CASE g = f
        BY <3>1, <2>0, <1>2, <1>t, ChainAssumption DEF TypeOK, Request
      <3>2. CASE g # f
        BY <3>2, <1>2, <1>t DEF TypeOK, Request, DepthMatchesLength
      <3> QED
        BY <3>1, <3>2
    <2> QED
      BY <2>1, <2>2, <2>3 DEF IInv
  <1>3. ASSUME NEW f \in Front, NEW w \in Back, Dispatch(f, w) PROVE IInv'
    <2>1. stack[f] \in Seq(Back)
      BY <1>t DEF TypeOK
    <2>2. /\ Append(stack[f], w) \in Seq(Back)
          /\ Append(stack[f], w) # <<>>
          /\ Len(stack[f]) \in Nat
          /\ Len(Append(stack[f], w)) = Len(stack[f]) + 1
          /\ \A i \in 1 .. Len(stack[f]) : Append(stack[f], w)[i] = stack[f][i]
          /\ Append(stack[f], w)[Len(stack[f]) + 1] = w
      BY <2>1, AppendProperties, LenProperties
    <2>3. TypeOK'
      BY <1>3, <1>t, <2>2 DEF TypeOK, Dispatch
    <2>4. WorkerServesOne'
      <3>1. \A g \in Front : \A i \in DOMAIN stack'[g] :
               \/ i \in DOMAIN stack[g] /\ stack'[g][i] = stack[g][i]
               \/ g = f /\ i = Len(stack[f]) + 1 /\ stack'[g][i] = w
        <4> TAKE g \in Front
        <4> TAKE i \in DOMAIN stack'[g]
        <4>1. CASE g = f
          <5>1. stack'[f] = Append(stack[f], w)
            BY <1>3, <1>t DEF TypeOK, Dispatch
          <5>2. DOMAIN stack'[f] = 1 .. Len(stack[f]) + 1 /\ DOMAIN stack[f] = 1 .. Len(stack[f])
            BY <5>1, <2>1, <2>2, LenProperties
          <5> QED
            BY <4>1, <5>1, <5>2, <2>2
        <4>2. CASE g # f
          BY <4>2, <1>3, <1>t DEF TypeOK, Dispatch
        <4> QED
          BY <4>1, <4>2
      <3>2. \A g \in Front : \A i \in DOMAIN stack[g] : stack[g][i] # w
        BY <1>3 DEF Dispatch, Busy
      <3> QED
        BY <3>1, <3>2, <1>t DEF WorkerServesOne
    <2>5. DepthMatchesLength'
      <3> SUFFICES ASSUME NEW g \in Front
                   PROVE  DepthMatchesLength!(g)'
        BY DEF DepthMatchesLength
      <3>1. CASE g = f
        <4>1. /\ phase'[f] = "called" /\ stack'[f] = Append(stack[f], w)
              /\ payload'[f] = payload[f] /\ asked'[f] = asked[f]
              /\ payload[f] \in Int
          BY <1>3, <1>t DEF TypeOK, Dispatch
        <4>2. /\ payload[f] = asked[f] - Len(stack[f])
              /\ stack[f] # <<>> => asked[f] \in 1 .. MaxChainLength /\ payload[f] >= 1
          BY <1>3, <1>t DEF Dispatch, DepthMatchesLength
        <4>3. Len(stack[f]) + 1 > 1 => stack[f] # <<>>
          BY EmptySeq
        <4> QED
          BY <3>1, <4>1, <4>2, <4>3, <2>2, <1>t, AskedNumber
      <3>2. CASE g # f
        BY <3>2, <1>3, <1>t DEF TypeOK, Dispatch, DepthMatchesLength
      <3> QED
        BY <3>1, <3>2
    <2> QED
      BY <2>3, <2>4, <2>5 DEF IInv
  <1>4. ASSUME NEW f \in Front, InvokeFails(f) PROVE IInv'
    BY <1>4, <1>t DEF IInv, TypeOK, WorkerServesOne, DepthMatchesLength, InvokeFails
  \* A function that returns leaves the other chains alone and its own in "replied".
  <1>5. ASSUME NEW f \in Front, NEW r \in {0, -1}, stack[f] # <<>>, Return(f, r),
               UNCHANGED <<asked, payload, answer>>
        PROVE  IInv'
    <2>1. /\ stack' \in [Front -> Seq(Back)]
          /\ ret' \in [Front -> {0, -1}]
          /\ phase' \in [Front -> {"idle", "invoking", "called", "replied", "crashed"}]
          /\ phase'[f] = "replied"
          /\ \A g \in Front \ {f} : phase'[g] = phase[g] /\ stack'[g] = stack[g]
          /\ WorkerServesOne'
      BY <1>5, ReturnShortens
    <2>2. TypeOK'
      BY <2>1, <1>5, <1>t DEF TypeOK
    <2>3. DepthMatchesLength'
      BY <2>1, <1>5, <1>t DEF DepthMatchesLength
    <2> QED
      BY <2>1, <2>2, <2>3 DEF IInv
  <1>6. ASSUME NEW f \in Front, BackCall(f) PROVE IInv'
    <2>1. phase[f] = "called" /\ stack[f] # <<>>
      BY <1>6, <1>t DEF BackCall, DepthMatchesLength
    <2>2. CASE UNCHANGED payload /\ (Return(f, -1) \/ Return(f, 0))
      BY <2>1, <2>2, <1>5, <1>6 DEF BackCall
    <2>3. CASE /\ payload[f] \in 2 .. MaxChainLength
               /\ payload' = [payload EXCEPT ![f] = @ - 1]
               /\ phase' = [phase EXCEPT ![f] = "invoking"]
               /\ UNCHANGED <<stack, ret>>
      <3>1. TypeOK'
        BY <2>3, <1>6, <1>t, ChainAssumption DEF BackCall, TypeOK
      <3>2. WorkerServesOne'
        BY <2>3, <1>t DEF WorkerServesOne
      <3>3. DepthMatchesLength'
        <4> SUFFICES ASSUME NEW g \in Front
                     PROVE  DepthMatchesLength!(g)'
          BY DEF DepthMatchesLength
        <4>1. CASE g = f
          <5>1. /\ phase'[f] = "invoking" /\ payload'[f] = payload[f] - 1
                /\ stack'[f] = stack[f] /\ asked'[f] = asked[f]
                /\ payload[f] \in 2 .. MaxChainLength /\ MaxChainLength \in Nat
            BY <2>3, <1>6, <1>t, ChainAssumption DEF BackCall, TypeOK
          <5>2. /\ payload[f] = asked[f] - Len(stack[f]) + 1
                /\ Len(stack[f]) > 1 => asked[f] \in 1 .. MaxChainLength /\ payload[f] >= 1
            BY <2>1, <1>t DEF DepthMatchesLength
          <5>3. Len(stack[f]) \in Nat /\ Len(stack[f]) >= 1
            BY <2>1, <1>t, EmptySeq DEF TypeOK
          <5> QED
            BY <4>1, <5>1, <5>2, <5>3, <1>t, AskedNumber
        <4>2. CASE g # f
          BY <4>2, <2>3, <1>6, <1>t DEF TypeOK, BackCall, DepthMatchesLength
        <4> QED
          BY <4>1, <4>2
      <3> QED
        BY <3>1, <3>2, <3>3 DEF IInv
    <2> QED
      BY <2>2, <2>3, <1>6 DEF BackCall
  <1>7. ASSUME NEW f \in Front, BackReply(f) PROVE IInv'
    <2>1. ret[f] \in {0, -1}
      BY <1>t DEF TypeOK
    <2> QED
      BY <2>1, <1>5, <1>7 DEF BackReply
  <1>8. ASSUME NEW f \in Front, FrontReply(f) PROVE IInv'
    <2>1. TypeOK'
      BY <1>8, <1>t DEF TypeOK, FrontReply
    <2>2. WorkerServesOne'
      BY <1>8, <1>t DEF WorkerServesOne, FrontReply
    <2>3. DepthMatchesLength'
      BY <1>8, <1>t DEF TypeOK, DepthMatchesLength, FrontReply
    <2> QED
      BY <2>1, <2>2, <2>3 DEF IInv
  <1>9. CASE UNCHANGED vars
    BY <1>9, <1>t DEF IInv, TypeOK, WorkerServesOne, DepthMatchesLength, vars
  <1> QED
    BY <1>1, <1>2, <1>3, <1>4, <1>6, <1>7, <1>8, <1>9 DEF Next, Step

\* If every chain waits, none holds as many workers as the longest chain has
\* functions; with enough workers one of them is then free.
LEMMA StuckFree == IInv => NoStuckChains
  <1> SUFFICES ASSUME IInv, EnoughWorkers, Back \subseteq Busy,
                      \A f \in Front : phase[f] \notin {"called", "replied"}
               PROVE  FALSE
    BY DEF NoStuckChains
  <1> DEFINE Place == Front \X (1 .. Longest - 1)
  <1>1. \A f \in Front : Len(stack[f]) \in Nat /\ Len(stack[f]) <= Longest - 1
    <2> TAKE f \in Front
    <2>1. /\ Len(stack[f]) \in Nat /\ payload[f] \in Int
          /\ asked[f] \in Length \cup {0} /\ asked[f] \in Int
      BY LenProperties, AskedNumber DEF IInv, TypeOK
    <2>2. CASE stack[f] = <<>>
      BY <2>2, EmptySeq, ChainAssumption
    <2>3. CASE stack[f] # <<>>
      <3>1. phase[f] = "invoking"
        BY <2>3 DEF IInv, TypeOK, DepthMatchesLength
      <3>2. /\ payload[f] = asked[f] - Len(stack[f]) /\ payload[f] >= 1
            /\ asked[f] \in 1 .. MaxChainLength
        BY <2>3, <3>1 DEF IInv, DepthMatchesLength
      <3>3. asked[f] <= Longest
        BY <2>1, <3>2, ChainAssumption
      <3> QED
        BY <2>1, <3>2, <3>3, ChainAssumption
    <2> QED
      BY <2>2, <2>3
  <1>2. \A w \in Back : \E p \in Place : stack[p[1]][p[2]] = w
    <2> TAKE w \in Back
    <2>1. PICK f \in Front : \E i \in DOMAIN stack[f] : stack[f][i] = w
      BY DEF Busy
    <2>2. PICK i \in DOMAIN stack[f] : stack[f][i] = w
      BY <2>1
    <2>3. i \in 1 .. Longest - 1
      <3>1. i \in 1 .. Len(stack[f])
        BY LenProperties DEF IInv, TypeOK
      <3> QED
        BY <3>1, <1>1, ChainAssumption
    <2>4. <<f, i>> \in Place
      BY <2>3
    <2> QED
      BY <2>2, <2>4
  <1> DEFINE place == [w \in Back |-> CHOOSE p \in Place : stack[p[1]][p[2]] = w]
  <1>3. \A w \in Back : place[w] \in Place /\ stack[place[w][1]][place[w][2]] = w
    BY <1>2
  <1>4. /\ IsFiniteSet(Place)
        /\ Cardinality(Place) = Cardinality(Front) * (Longest - 1)
    <2>1. /\ IsFiniteSet(1 .. Longest - 1)
          /\ Cardinality(1 .. Longest - 1) = Longest - 1
      <3>1. Longest - 1 \in Nat
        BY ChainAssumption
      <3> QED
        BY <3>1, FS_Interval
    <2>2. IsFiniteSet(Front)
      BY ChainAssumption
    <2> QED
      BY <2>1, <2>2, FS_Product
  <1>5. place \in [Back -> Place]
    BY <1>3
  <1> HIDE DEF place, Place
  <1>6. \E v, w \in Back : v # w /\ place[v] = place[w]
    <2>1. Cardinality(Place) < Cardinality(Back)
      BY <1>4 DEF EnoughWorkers
    <2> QED
      BY <1>4, <1>5, <2>1, ChainAssumption, FS_PigeonHole
  <1> QED
    BY <1>3, <1>6

LEMMA Inductive == Spec => []IInv
  BY InitIInv, NextIInv, PTL DEF Spec

\* The variables of the model of front_end.cpp and back_end.cpp keep their types.
THEOREM ChainTypes == Spec => []TypeOK
  BY Inductive, PTL DEF IInv

\* The decrement in the payload and the test for 1 make a chain as long as the
\* client asked, for every length.
THEOREM ChainDepth == Spec => []DepthMatchesLength
  BY Inductive, PTL DEF IInv

\* For any number of workers: if the front workers times the longest chain less
\* one are fewer than the back workers, chains never wait for each other in a
\* circle.
THEOREM NeverStuck == Spec => []NoStuckChains
  BY Inductive, StuckFree, PTL
=============================================================================
