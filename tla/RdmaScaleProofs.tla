--------------------------- MODULE RdmaScaleProofs ---------------------------
(***************************************************************************)
(* The queue pairs of the RDMA scaling test, for any client processes and  *)
(* threads.                                                                *)
(***************************************************************************)
EXTENDS RdmaScale, SequenceTheorems, TLAPS

Serving == spc # "accept"

\* A connection is in one place: in the backlog once, or being served, or behind
\* its answer.
ServedOnce ==
  /\ \A i, j \in 1 .. Len(backlog) : backlog[i] = backlog[j] => i = j
  /\ \A i \in 1 .. Len(backlog) : /\ reply[backlog[i]] = 0
                                  /\ pc[backlog[i]] # "start"
                                  /\ Serving => backlog[i] # fd
  /\ \A t \in Thread : pc[t] = "start" => reply[t] = 0 /\ (Serving => t # fd)

\* What the globals of the server hold, step by step.
ServerKnows ==
  /\ Serving => fd \in Thread
  /\ spc \in {"read", "send"} => reply[fd] = 0
  /\ spc \in {"send", "build"} => known = fd
  /\ spc = "build" => /\ Len(queues) # 0
                      /\ queues[Len(queues)] = Nobody
                      /\ reply[fd] = Len(queues)

\* The queue pair that was announced to a thread is connected to it, or is about
\* to be.
Announced ==
  \A t \in Thread : reply[t] # 0 =>
    /\ reply[t] \in 1 .. Len(queues)
    /\ \/ queues[reply[t]] = t
       \/ spc = "build" /\ fd = t /\ reply[t] = Len(queues)

\* A thread past the exchange has the info that was sent to it; past the barrier,
\* so have the other threads of its process.
Exchanged ==
  \A t \in Thread :
    /\ peer[t] \in {0, reply[t]}
    /\ pc[t] \notin {"start", "send", "read"} => peer[t] # 0
    /\ t \in Testing => \A u \in Thread : u.proc = t.proc => u \in Testing

IInv == TypeOK /\ ServedOnce /\ ServerKnows /\ Announced /\ Exchanged

-----------------------------------------------------------------------------
LEMMA InitIInv == Init => IInv
  <1> SUFFICES ASSUME Init PROVE IInv
    OBVIOUS
  <1>1. TypeOK
    BY ScaleAssumption DEF Init, TypeOK
  <1>2. ServedOnce /\ ServerKnows /\ Announced /\ Exchanged
    BY DEF Init, ServedOnce, ServerKnows, Announced, Exchanged, Serving, Testing
  <1> QED
    BY <1>1, <1>2 DEF IInv

LEMMA NextTypeOK == TypeOK /\ ServerKnows /\ [Next]_vars => TypeOK'
  <1> SUFFICES ASSUME TypeOK, ServerKnows, [Next]_vars PROVE TypeOK'
    OBVIOUS
  <1> USE DEF TypeOK
  <1>0. \A t \in Thread : t.proc \in Proc
    BY DEF Proc
  <1>1. ASSUME NEW t \in Thread, Connect(t) PROVE TypeOK'
    <2>1. backlog' \in Seq(Thread)
      <3>1. backlog' = Append(backlog, t) \/ backlog' = backlog
        BY <1>1 DEF Connect
      <3>2. backlog \in Seq(Thread)
        OBVIOUS
      <3> QED
        BY ONLY <3>1, <3>2, t \in Thread, AppendProperties
    <2>2. exited' \subseteq Proc \cup {"server"}
      BY <1>0, <1>1 DEF Connect, Exit
    <2> QED
      BY <1>1, <2>1, <2>2 DEF Connect, Goto, serverVars
  <1>2. ASSUME NEW t \in Thread, SendInfo(t) PROVE TypeOK'
    BY <1>2 DEF SendInfo, Goto, serverVars
  <1>3. ASSUME NEW t \in Thread, ReadReply(t) PROVE TypeOK'
    BY <1>0, <1>3 DEF ReadReply, Goto, Exit, serverVars
  <1>4. ASSUME NEW t \in Thread, Arrive(t) PROVE TypeOK'
    BY <1>4 DEF Arrive, serverVars
  <1>5. ASSUME NEW t \in Thread, OneSided(t) PROVE TypeOK'
    <2>1. CASE UNCHANGED pc /\ writes[t] < NumWrites /\ writes' = [writes EXCEPT ![t] = @ + 1]
      <3>1. writes[t] + 1 \in 0 .. NumWrites
        BY <2>1, ScaleAssumption
      <3>2. writes' \in [Thread -> 0 .. NumWrites]
        BY <2>1, <3>1
      <3> QED
        BY <1>5, <2>1, <3>2 DEF OneSided, serverVars
    <2>2. CASE Goto(t, "open") /\ UNCHANGED writes
      BY <1>5, <2>2 DEF OneSided, Goto, serverVars
    <2> QED
      BY <1>5, <2>1, <2>2 DEF OneSided
  <1>6. ASSUME NEW t \in Thread, OpenLog(t) PROVE TypeOK'
    BY <1>0, <1>6 DEF OpenLog, Goto, serverVars
  <1>7. ASSUME NEW t \in Thread, WriteLog(t) PROVE TypeOK'
    BY <1>7 DEF WriteLog, Goto, serverVars
  <1>8. ASSUME NEW t \in Thread, CloseLog(t) PROVE TypeOK'
    BY <1>0, <1>8 DEF CloseLog, Goto, serverVars
  <1>9. ASSUME NEW t \in Thread, EndWorker(t) PROVE TypeOK'
    BY <1>0, <1>9 DEF EndWorker, Goto, Exit, serverVars
  <1>10. CASE WaitingRequest
    <2>1. Head(backlog) \in Thread /\ Tail(backlog) \in Seq(Thread)
      BY <1>10, HeadTailProperties DEF WaitingRequest
    <2> QED
      BY <1>10, <2>1 DEF WaitingRequest, clientVars
  <1>11. CASE ReadRequest
    BY <1>11 DEF ReadRequest, Exit, clientVars
  <1>12. CASE SendReply
    <2>1. queues' \in Seq(Thread \cup {Nobody})
      <3>1. queues' = Append(queues, Nobody) /\ queues \in Seq(Thread \cup {Nobody})
        BY <1>12 DEF SendReply
      <3>2. Nobody \in Thread \cup {Nobody}
        OBVIOUS
      <3> QED
        BY ONLY <3>1, <3>2, AppendProperties
    <2>2. reply' \in [Thread -> Nat]
      <3>1. Len(queues) + 1 \in Nat
        BY LenProperties
      <3>2. reply' = [reply EXCEPT ![fd] = Len(queues) + 1]
        BY <1>12 DEF SendReply
      <3> QED
        BY <3>1, <3>2
    <2> QED
      BY <1>12, <2>1, <2>2 DEF SendReply, clientVars
  <1>13. CASE BuildChannel
    <2>1. Len(queues) \in 1 .. Len(queues) /\ known \in Thread \cup {Nobody}
      BY <1>13, LenProperties DEF BuildChannel, ServerAt, ServerKnows
    <2>2. queues' \in Seq(Thread \cup {Nobody})
      BY <1>13, <2>1, ExceptSeq DEF BuildChannel
    <2> QED
      BY <1>13, <2>2 DEF BuildChannel, clientVars
  <1>14. CASE UNCHANGED vars
    BY <1>14 DEF vars, clientVars, serverVars
  <1> QED
    BY <1>1, <1>2, <1>3, <1>4, <1>5, <1>6, <1>7, <1>8, <1>9, <1>10, <1>11, <1>12,
       <1>13, <1>14 DEF Next, ThreadStep, ServerStep

\* A step of a thread that is neither a connection, nor an exchange, nor a barrier.
TestLoc == {"test", "open", "write", "close", "end", "done"}

LEMMA QuietStep ==
  ASSUME IInv, UNCHANGED <<reply, peer, backlog, serverVars>>,
         NEW t \in Thread, NEW loc,
         pc' = pc \/ pc' = [pc EXCEPT ![t] = loc],
         (pc[t] = "send" /\ loc = "read") \/ (pc[t] \in TestLoc /\ loc \in TestLoc)
  PROVE  ServedOnce' /\ ServerKnows' /\ Announced' /\ Exchanged'
  <1>1. /\ \A u \in Thread : pc'[u] = "start" <=> pc[u] = "start"
        /\ \A u \in Thread : pc'[u] \in TestLoc <=> pc[u] \in TestLoc
        /\ \A u \in Thread : pc'[u] \in {"start", "send", "read"}
                              <=> pc[u] \in {"start", "send", "read"}
    BY DEF IInv, TypeOK, TestLoc
  <1>2. \A i \in 1 .. Len(backlog) : backlog[i] \in Thread
    BY DEF IInv, TypeOK
  <1>3. ServedOnce'
    BY <1>1, <1>2 DEF IInv, ServedOnce, Serving, serverVars
  <1>4. ServerKnows'
    BY DEF IInv, ServerKnows, Serving, serverVars
  <1>5. Announced'
    BY DEF IInv, Announced, serverVars
  <1>6. Exchanged'
    BY <1>1 DEF IInv, Exchanged, Testing, TestLoc
  <1> QED
    BY <1>3, <1>4, <1>5, <1>6

LEMMA NextIInv == IInv /\ [Next]_vars => IInv'
  <1> SUFFICES ASSUME IInv, [Next]_vars PROVE IInv'
    OBVIOUS
  <1> USE DEF IInv
  <1>t. TypeOK'
    BY NextTypeOK
  <1>b. \A i \in 1 .. Len(backlog) : backlog[i] \in Thread
    BY DEF TypeOK
  <1>1. ASSUME NEW t \in Thread, Connect(t)
        PROVE  ServedOnce' /\ ServerKnows' /\ Announced' /\ Exchanged'
    <2>1. CASE backlog' = Append(backlog, t) /\ Goto(t, "send")
      <3>1. pc[t] = "start" /\ UNCHANGED <<reply, peer, serverVars>>
        BY <1>1 DEF Connect, At
      <3>2. /\ Len(backlog') = Len(backlog) + 1 /\ Len(backlog) \in Nat
            /\ \A i \in 1 .. Len(backlog) : backlog'[i] = backlog[i]
            /\ backlog'[Len(backlog) + 1] = t
        BY <2>1, AppendProperties DEF TypeOK
      <3>3. \A u \in Thread : pc'[u] = IF u = t THEN "send" ELSE pc[u]
        BY <2>1 DEF Goto, TypeOK
      <3>4. ServedOnce'
        <4>1. \A i \in 1 .. Len(backlog) : backlog[i] # t
          BY <3>1 DEF ServedOnce
        <4>2. \A i, j \in 1 .. Len(backlog') : backlog'[i] = backlog'[j] => i = j
          BY <3>2, <4>1 DEF ServedOnce
        <4>3. \A i \in 1 .. Len(backlog') :
                reply'[backlog'[i]] = 0 /\ pc'[backlog'[i]] # "start"
                /\ (Serving' => backlog'[i] # fd')
          BY <1>b, <3>1, <3>2, <3>3 DEF ServedOnce, Serving, serverVars
        <4>4. \A u \in Thread : pc'[u] = "start" =>
                reply'[u] = 0 /\ (Serving' => u # fd')
          BY <3>1, <3>3 DEF ServedOnce, Serving, serverVars
        <4> QED
          BY <4>2, <4>3, <4>4 DEF ServedOnce
      <3>5. ServerKnows' /\ Announced'
        BY <3>1 DEF ServerKnows, Announced, Serving, serverVars
      <3>6. Exchanged'
        BY <3>1, <3>3 DEF Exchanged, Testing
      <3> QED
        BY <3>4, <3>5, <3>6
    <2>2. CASE UNCHANGED <<backlog, pc>>
      BY <1>1, <2>2 DEF Connect, ServedOnce, ServerKnows, Announced, Exchanged,
         Serving, Testing, serverVars
    <2> QED
      BY <1>1, <2>1, <2>2 DEF Connect
  <1>2. ASSUME NEW t \in Thread,
               \/ SendInfo(t) \/ OneSided(t) \/ OpenLog(t) \/ WriteLog(t)
               \/ CloseLog(t) \/ EndWorker(t)
        PROVE  ServedOnce' /\ ServerKnows' /\ Announced' /\ Exchanged'
    <2>1. PICK loc : /\ pc' = pc \/ pc' = [pc EXCEPT ![t] = loc]
                     /\ \/ pc[t] = "send" /\ loc = "read"
                        \/ pc[t] \in TestLoc /\ loc \in TestLoc
      BY <1>2 DEF SendInfo, OneSided, OpenLog, WriteLog, CloseLog, EndWorker,
         At, Goto, TestLoc
    <2>2. UNCHANGED <<reply, peer, backlog, serverVars>>
      BY <1>2 DEF SendInfo, OneSided, OpenLog, WriteLog, CloseLog, EndWorker
    <2> QED
      BY <2>1, <2>2, QuietStep
  <1>3. ASSUME NEW t \in Thread, ReadReply(t)
        PROVE  ServedOnce' /\ ServerKnows' /\ Announced' /\ Exchanged'
    <2>1. UNCHANGED <<reply, backlog, serverVars>> /\ pc[t] = "read"
      BY <1>3 DEF ReadReply, At
    <2>2. CASE UNCHANGED <<peer, pc>>
      BY <2>1, <2>2 DEF ServedOnce, ServerKnows, Announced, Exchanged, Serving,
         Testing, serverVars
    <2>3. CASE reply[t] # 0 /\ peer' = [peer EXCEPT ![t] = reply[t]] /\ Goto(t, "build")
      <3>1. \A u \in Thread : /\ pc'[u] = IF u = t THEN "build" ELSE pc[u]
                              /\ peer'[u] = IF u = t THEN reply[t] ELSE peer[u]
        BY <2>3 DEF Goto, TypeOK
      <3>2. ServedOnce'
        BY <1>b, <2>1, <3>1 DEF ServedOnce, Serving, serverVars
      <3>3. ServerKnows' /\ Announced'
        BY <2>1 DEF ServerKnows, Announced, Serving, serverVars
      <3>4. Exchanged'
        BY <2>1, <2>3, <3>1 DEF Exchanged, Testing
      <3> QED
        BY <3>2, <3>3, <3>4
    <2> QED
      BY <1>3, <2>2, <2>3 DEF ReadReply
  <1>4. ASSUME NEW t \in Thread, Arrive(t)
        PROVE  ServedOnce' /\ ServerKnows' /\ Announced' /\ Exchanged'
    <2>1. UNCHANGED <<reply, peer, backlog, serverVars>> /\ pc[t] = "build"
      BY <1>4 DEF Arrive, At
    <2> DEFINE waiting == {u \in ThreadsOf(t.proc) : pc[u] = "barrier"} \cup {t}
    <2>2. \/ /\ waiting = ThreadsOf(t.proc)
             /\ \A u \in Thread : pc'[u] = IF u \in waiting THEN "test" ELSE pc[u]
          \/ \A u \in Thread : pc'[u] = IF u = t THEN "barrier" ELSE pc[u]
      BY <1>4 DEF Arrive, TypeOK
    <2>3. \A u \in waiting : u \in Thread /\ u.proc = t.proc
                             /\ pc[u] \in {"build", "barrier"}
      BY <2>1 DEF ThreadsOf
    <2>4. /\ \A u \in Thread : pc'[u] = "start" => pc[u] = "start"
          /\ \A u \in Thread : pc[u] # "start" => pc'[u] # "start"
          /\ \A u \in Thread : pc'[u] \notin {"start", "send", "read"}
                                => pc[u] \notin {"start", "send", "read"}
      BY <2>1, <2>2, <2>3
    <2>5. ServedOnce'
      BY <1>b, <2>1, <2>4 DEF ServedOnce, Serving, serverVars
    <2>6. ServerKnows' /\ Announced'
      BY <2>1 DEF ServerKnows, Announced, Serving, serverVars
    <2>7. ASSUME NEW u \in Thread, u \in Testing',
                 NEW v \in Thread, v.proc = u.proc
          PROVE  v \in Testing'
      <3>1. CASE u.proc = t.proc
        <4>1. t \notin Testing
          BY <2>1 DEF Testing
        <4>2. u \notin Testing /\ v \in ThreadsOf(t.proc)
          BY <3>1, <4>1, <2>7 DEF Exchanged, ThreadsOf
        <4>3. waiting = ThreadsOf(t.proc) /\ pc'[v] = "test"
          BY <2>2, <2>7, <4>2, <2>1 DEF Testing
        <4> QED
          BY <4>3 DEF Testing
      <3>2. CASE u.proc # t.proc
        <4>1. pc'[u] = pc[u] /\ pc'[v] = pc[v]
          BY <2>2, <2>3, <2>7, <3>2
        <4> QED
          BY <4>1, <2>7 DEF Exchanged, Testing
      <3> QED
        BY <3>1, <3>2
    <2>8. Exchanged'
      BY <2>1, <2>4, <2>7 DEF Exchanged
    <2> QED
      BY <2>5, <2>6, <2>8
  <1>5. CASE WaitingRequest
    <2>1. /\ spc = "accept" /\ spc' = "read" /\ backlog # <<>>
          /\ fd' = Head(backlog) /\ backlog' = Tail(backlog)
          /\ UNCHANGED <<reply, known, queues, pc, peer>>
      BY <1>5 DEF WaitingRequest, ServerAt, clientVars
    <2>2. /\ Len(backlog) \in Nat \ {0} /\ fd' = backlog[1]
          /\ Len(backlog') = Len(backlog) - 1
          /\ \A i \in 1 .. Len(backlog') : backlog'[i] = backlog[i + 1]
      BY <2>1, HeadTailProperties, EmptySeq DEF TypeOK
    <2>3. fd' \in Thread /\ reply[fd'] = 0 /\ pc[fd'] # "start"
      BY <2>2, <1>b DEF ServedOnce
    <2>4. ServedOnce'
      BY <2>1, <2>2, <2>3 DEF ServedOnce
    <2>5. ServerKnows'
      BY <2>1, <2>3 DEF ServerKnows
    <2>6. Announced'
      BY <2>1 DEF Announced
    <2>7. Exchanged'
      BY <2>1 DEF Exchanged, Testing
    <2> QED
      BY <1>t, <2>4, <2>5, <2>6, <2>7
  <1>6. CASE ReadRequest
    <2>1. /\ spc = "read" /\ UNCHANGED <<reply, backlog, fd, queues, pc, peer>>
          /\ \/ spc' = "send" /\ known' = fd
             \/ UNCHANGED <<spc, known>>
      BY <1>6 DEF ReadRequest, ServerAt, clientVars
    <2>2. ServedOnce'
      BY <2>1 DEF ServedOnce, Serving
    <2>3. ServerKnows'
      BY <2>1 DEF ServerKnows, Serving
    <2>4. Announced' /\ Exchanged'
      BY <2>1 DEF Announced, Exchanged, Testing
    <2> QED
      BY <1>t, <2>2, <2>3, <2>4
  <1>7. CASE SendReply
    <2>1. /\ spc = "send" /\ spc' = "build" /\ queues' = Append(queues, Nobody)
          /\ reply' = [reply EXCEPT ![fd] = Len(queues) + 1]
          /\ UNCHANGED <<backlog, fd, known, pc, peer>>
      BY <1>7 DEF SendReply, ServerAt, clientVars
    <2>2. fd \in Thread /\ reply[fd] = 0 /\ known = fd
      BY <2>1 DEF ServerKnows, Serving
    <2>3. /\ Len(queues) \in Nat /\ Len(queues') = Len(queues) + 1
          /\ \A k \in 1 .. Len(queues) : queues'[k] = queues[k]
          /\ queues'[Len(queues) + 1] = Nobody
      BY <2>1, AppendProperties DEF TypeOK
    <2>4. \A u \in Thread : reply'[u] = IF u = fd THEN Len(queues) + 1 ELSE reply[u]
      BY <2>1, <2>2 DEF TypeOK
    <2>5. ServedOnce'
      BY <1>b, <2>1, <2>2, <2>4 DEF ServedOnce, Serving
    <2>6. ServerKnows'
      BY <2>1, <2>2, <2>3, <2>4 DEF ServerKnows, Serving
    <2>7. Announced'
      BY <2>1, <2>2, <2>3, <2>4 DEF Announced
    <2>8. Exchanged'
      BY <2>1, <2>2, <2>4 DEF Exchanged, Testing
    <2> QED
      BY <1>t, <2>5, <2>6, <2>7, <2>8
  <1>8. CASE BuildChannel
    <2>1. /\ spc = "build" /\ spc' = "accept"
          /\ queues' = [queues EXCEPT ![Len(queues)] = known]
          /\ UNCHANGED <<reply, backlog, fd, known, pc, peer>>
      BY <1>8 DEF BuildChannel, ServerAt, clientVars
    <2>2. /\ fd \in Thread /\ known = fd /\ Len(queues) # 0 /\ Len(queues) \in Nat
          /\ reply[fd] = Len(queues) /\ queues[Len(queues)] = Nobody
      BY <2>1 DEF ServerKnows, Serving, TypeOK
    <2>3. /\ Len(queues') = Len(queues)
          /\ \A k \in 1 .. Len(queues) :
               queues'[k] = IF k = Len(queues) THEN fd ELSE queues[k]
      BY <2>1, <2>2 DEF TypeOK
    <2>4. ServedOnce'
      BY <2>1 DEF ServedOnce, Serving
    <2>5. ServerKnows'
      BY <2>1 DEF ServerKnows, Serving
    <2>6. Announced'
      BY <2>1, <2>2, <2>3, ScaleAssumption DEF Announced
    <2>7. Exchanged'
      BY <2>1 DEF Exchanged, Testing
    <2> QED
      BY <1>t, <2>4, <2>5, <2>6, <2>7
  <1>9. CASE UNCHANGED vars
    BY <1>9, <1>t DEF ServedOnce, ServerKnows, Announced, Exchanged, Serving, Testing,
       vars, clientVars, serverVars
  <1> QED
    BY <1>t, <1>1, <1>2, <1>3, <1>4, <1>5, <1>6, <1>7, <1>8, <1>9
       DEF Next, ThreadStep, ServerStep

LEMMA Inductive == Spec => []IInv
  BY InitIInv, NextIInv, PTL DEF Spec

\* The variables of the model of rdma_rc_client.cpp and rdma_rc_server.cpp keep
\* their types.
THEOREM ScaleTypes == Spec => []TypeOK
  <1>1. IInv => TypeOK
    BY DEF IInv
  <1> QED
    BY <1>1, Inductive, PTL

\* For any client processes and threads, with the server's globals overwritten
\* by every connection (rdma_rc_server.cpp:118), no two threads are given the same
\* queue pair and the server connects each to the thread it was announced to.
THEOREM Paired == Spec => []QueuesPaired
  <1>1. IInv => QueuesPaired
    <2> SUFFICES ASSUME IInv, NEW t \in Thread, peer[t] # 0
                 PROVE  /\ peer[t] \in 1 .. Len(queues)
                        /\ queues[peer[t]] \in {t, Nobody}
                        /\ \A u \in Thread \ {t} : peer[u] # peer[t]
      BY DEF QueuesPaired
    <2>1. \A u \in Thread : peer[u] # 0 =>
            /\ peer[u] \in 1 .. Len(queues) /\ peer[u] = reply[u]
            /\ queues[peer[u]] = u \/ (queues[peer[u]] = Nobody /\ fd = u)
      BY DEF IInv, Announced, Exchanged, ServerKnows
    <2> QED
      BY <2>1, ScaleAssumption
  <1> QED
    BY <1>1, Inductive, PTL

\* For any client processes and threads, a thread past the barrier writes to queue
\* pairs that are connected, but for the last one the server has announced
\* (rdma_rc_server.cpp:121-123).
THEOREM AtMostOneBehind == Spec => []OneQueueBehind
  <1>1. IInv => OneQueueBehind
    <2> SUFFICES ASSUME IInv, NEW t \in Testing, NEW u \in ThreadsOf(t.proc)
                 PROVE  /\ peer[u] \in 1 .. Len(queues)
                        /\ queues[peer[u]] = u \/ (peer[u] = Len(queues) /\ spc = "build")
      BY DEF OneQueueBehind
    <2>1. u \in Thread /\ peer[u] # 0 /\ peer[u] = reply[u]
      BY DEF IInv, Exchanged, Testing, ThreadsOf
    <2> QED
      BY <2>1 DEF IInv, Announced
  <1> QED
    BY <1>1, Inductive, PTL
=============================================================================
