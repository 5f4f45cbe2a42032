------------------------------ MODULE RdmaScale ------------------------------
(***************************************************************************)
(* The scaling test of experiment 10, rdma_scale_src: client processes     *)
(* (rdma_rc_client.cpp) whose threads each connect to one server           *)
(* (rdma_rc_server.cpp) over TCP, exchange queue-pair and memory-region    *)
(* infos, wait for each other at a barrier and then write with RDMA.  The  *)
(* server takes one connection at a time and keeps what it knows of it in  *)
(* globals.  A failed exchange ends the whole process, on either side.     *)
(*                                                                         *)
(* The client's Socket (utils.h) keeps what connect() returned, 0, for the *)
(* descriptor it closes: the destructor closes descriptor 0, which by then *)
(* may be the record.log of another thread.  It is the only descriptor     *)
(* that is closed by anybody but its owner, so the others are left out.    *)
(***************************************************************************)
EXTENDS Naturals, Sequences, FiniteSets

CONSTANTS
  Thread,      \* the threads of the clients: records with a field proc
  NumWrites,   \* writes a thread does (50000 in the code)
  Nobody       \* no thread

ASSUME ScaleAssumption ==
  IsFiniteSet(Thread) /\ NumWrites \in Nat /\ Nobody \notin Thread

Proc == {t.proc : t \in Thread}
ThreadsOf(p) == {t \in Thread : t.proc = p}

VARIABLES
  exited,    \* processes that called exit(-1) or crashed; "server" is one
  pc,        \* where each client thread is in worker_fn
  sent,      \* threads whose RDMAInfo is in their connection, still unread
  reply,     \* the server queue pair named in the answer on its way, or 0
  peer,      \* peer_rdma_info_ of each thread: a server queue pair, or 0
  writes,    \* writes done
  log,       \* the descriptor of record.log: "none", "zero" or "other"
  zero,      \* descriptor 0 of a process: "stdin", "closed" or "log"
  recorded   \* threads whose latencies got into record.log

VARIABLES
  spc,       \* where the server is
  backlog,   \* connections not accepted yet
  fd,        \* the connection being served
  known,     \* peer_rdma_info_ of the server: the thread it is about
  queues     \* the server's queue pairs: the thread each is connected to

clientVars == <<pc, peer, writes, log, zero, recorded>>
serverVars == <<spc, fd, known, queues>>
vars == <<exited, sent, reply, backlog, clientVars, serverVars>>

Init ==
  /\ exited = {}
  /\ pc = [t \in Thread |-> "start"]
  /\ sent = {} /\ reply = [t \in Thread |-> 0]
  /\ peer = [t \in Thread |-> 0]
  /\ writes = [t \in Thread |-> 0]
  /\ log = [t \in Thread |-> "none"]
  /\ zero = [p \in Proc |-> "stdin"]
  /\ recorded = {}
  /\ spc = "accept" /\ backlog = <<>> /\ fd = Nobody /\ known = Nobody
  /\ queues = <<>>

At(t, loc) == pc[t] = loc /\ t.proc \notin exited
Goto(t, loc) == pc' = [pc EXCEPT ![t] = loc]

\* exit(-1), or a crash: every thread of the process is gone.
Exit(p) == exited' = exited \cup {p}

-----------------------------------------------------------------------------
(* worker_fn of a client thread: the exchange.                             *)

\* The queue pair is created (under the mutex) and conn() connects the socket.
\* With no server there, the send and the read on descriptor -1 fail and the
\* process exits.
Connect(t) ==
  /\ At(t, "start")
  /\ \/ /\ "server" \notin exited
        /\ backlog' = Append(backlog, t)
        /\ Goto(t, "send")
        /\ UNCHANGED exited
     \/ /\ "server" \in exited
        /\ Exit(t.proc)
        /\ UNCHANGED <<backlog, pc>>
  /\ UNCHANGED <<sent, reply, peer, writes, log, zero, recorded, serverVars>>

SendInfo(t) ==
  /\ At(t, "send")
  /\ sent' = sent \cup {t}
  /\ Goto(t, "read")
  /\ UNCHANGED <<exited, reply, backlog, peer, writes, log, zero, recorded, serverVars>>

\* Mutant of ReadReply: a failed exchange ends the thread and not the process.
ReadReplyReturns(t) ==
  /\ At(t, "read")
  /\ \/ /\ reply[t] # 0
        /\ peer' = [peer EXCEPT ![t] = reply[t]]
        /\ Goto(t, "build")
     \/ /\ reply[t] # 0 \/ "server" \in exited
        /\ Goto(t, "done")
        /\ UNCHANGED peer
  /\ UNCHANGED <<exited, sent, reply, backlog, writes, log, zero, recorded, serverVars>>

\* The read returns the server's info; or fewer bytes, or none because the
\* server is gone, which ends the process.
ReadReply(t) ==
  /\ At(t, "read")
  /\ \/ /\ reply[t] # 0
        /\ peer' = [peer EXCEPT ![t] = reply[t]]
        /\ Goto(t, "build")
        /\ UNCHANGED exited
     \/ /\ reply[t] # 0 \/ "server" \in exited
        /\ Exit(t.proc)
        /\ UNCHANGED <<peer, pc>>
  /\ UNCHANGED <<sent, reply, backlog, writes, log, zero, recorded, serverVars>>

\* Mutant of Arrive: the barrier was initialised for one thread less.
ArriveShort(t) ==
  /\ At(t, "build")
  /\ LET waiting == {u \in ThreadsOf(t.proc) : pc[u] = "barrier"} \cup {t}
     IN  pc' = IF Cardinality(waiting) + 1 >= Cardinality(ThreadsOf(t.proc))
               THEN [u \in Thread |-> IF u \in waiting THEN "test" ELSE pc[u]]
               ELSE [pc EXCEPT ![t] = "barrier"]
  /\ UNCHANGED <<exited, sent, reply, backlog, peer, writes, log, zero, recorded, serverVars>>

\* build_rdma_channel brings the queue pair to RTS, then the barrier: the last
\* thread of the process to arrive lets all of them go.
Arrive(t) ==
  /\ At(t, "build")
  /\ LET waiting == {u \in ThreadsOf(t.proc) : pc[u] = "barrier"} \cup {t}
     IN  pc' = IF waiting = ThreadsOf(t.proc)
               THEN [u \in Thread |-> IF u \in waiting THEN "test" ELSE pc[u]]
               ELSE [pc EXCEPT ![t] = "barrier"]
  /\ UNCHANGED <<exited, sent, reply, backlog, peer, writes, log, zero, recorded, serverVars>>

-----------------------------------------------------------------------------
(* worker_fn of a client thread: the test.                                 *)

\* one_sided: the write completes, or cannot be posted, which ends the loop.
OneSided(t) ==
  /\ At(t, "test")
  /\ \/ /\ writes[t] < NumWrites
        /\ writes' = [writes EXCEPT ![t] = @ + 1]
        /\ UNCHANGED pc
     \/ Goto(t, "open") /\ UNCHANGED writes
  /\ UNCHANGED <<exited, sent, reply, backlog, peer, log, zero, recorded, serverVars>>

\* output_result.  open() gives the lowest free descriptor (it does not create
\* record.log, which is taken to be there).
OpenLog(t) ==
  /\ At(t, "open")
  /\ \/ /\ zero[t.proc] = "closed"
        /\ zero' = [zero EXCEPT ![t.proc] = "log"]
        /\ log' = [log EXCEPT ![t] = "zero"]
     \/ /\ zero[t.proc] # "closed"
        /\ log' = [log EXCEPT ![t] = "other"]
        /\ UNCHANGED zero
  /\ Goto(t, "write")
  /\ UNCHANGED <<exited, sent, reply, backlog, peer, writes, recorded, serverVars>>

\* The write fails, unnoticed, if somebody has closed descriptor 0 meanwhile.
WriteLog(t) ==
  /\ At(t, "write")
  /\ recorded' = IF log[t] = "zero" /\ zero[t.proc] = "closed"
                 THEN recorded ELSE recorded \cup {t}
  /\ Goto(t, "close")
  /\ UNCHANGED <<exited, sent, reply, backlog, peer, writes, log, zero, serverVars>>

CloseLog(t) ==
  /\ At(t, "close")
  /\ zero' = IF log[t] = "zero" THEN [zero EXCEPT ![t.proc] = "closed"] ELSE zero
  /\ log' = [log EXCEPT ![t] = "none"]
  /\ Goto(t, "end")
  /\ UNCHANGED <<exited, sent, reply, backlog, peer, writes, recorded, serverVars>>

\* `delete shared_memory_` takes a pointer nobody has set, which may crash the
\* process; then ~Socket closes descriptor 0.
EndWorker(t) ==
  /\ At(t, "end")
  /\ \/ /\ zero' = [zero EXCEPT ![t.proc] = "closed"]
        /\ Goto(t, "done")
        /\ UNCHANGED exited
     \/ Exit(t.proc) /\ UNCHANGED <<pc, zero>>
  /\ UNCHANGED <<sent, reply, backlog, peer, writes, log, recorded, serverVars>>

-----------------------------------------------------------------------------
(* The loop of exchange_rdma_info_and_build_conn.                          *)

ServerAt(loc) == spc = loc /\ "server" \notin exited

WaitingRequest ==
  /\ ServerAt("accept") /\ backlog # <<>>
  /\ fd' = Head(backlog)
  /\ backlog' = Tail(backlog)
  /\ spc' = "read"
  /\ UNCHANGED <<exited, sent, reply, known, queues, clientVars>>

\* Mutant of ReadRequest: peer_rdma_info_ keeps what the first client sent.
ReadRequestStale ==
  /\ ServerAt("read") /\ fd \in sent
  /\ sent' = sent \ {fd}
  /\ known' = IF known = Nobody THEN fd ELSE known
  /\ spc' = "send"
  /\ UNCHANGED <<exited, reply, backlog, fd, queues, clientVars>>

\* The client's info is read; or fewer bytes, or none because the client is gone,
\* which ends the server.
ReadRequest ==
  /\ ServerAt("read")
  /\ \/ /\ fd \in sent
        /\ sent' = sent \ {fd}
        /\ known' = fd
        /\ spc' = "send"
        /\ UNCHANGED exited
     \/ /\ fd \in sent \/ fd.proc \in exited
        /\ Exit("server")
        /\ UNCHANGED <<sent, known, spc>>
  /\ UNCHANGED <<reply, backlog, fd, queues, clientVars>>

\* A new queue pair, its info sent to the client, and the connection closed.
SendReply ==
  /\ ServerAt("send")
  /\ queues' = Append(queues, Nobody)
  /\ reply' = [reply EXCEPT ![fd] = Len(queues) + 1]
  /\ spc' = "build"
  /\ UNCHANGED <<exited, sent, backlog, fd, known, clientVars>>

\* build_rdma_channel: the newest queue pair is connected to the known peer.
BuildChannel ==
  /\ ServerAt("build")
  /\ queues' = [queues EXCEPT ![Len(queues)] = known]
  /\ spc' = "accept"
  /\ UNCHANGED <<exited, sent, reply, backlog, fd, known, clientVars>>

-----------------------------------------------------------------------------
ThreadStep(t) ==
  \/ Connect(t) \/ SendInfo(t) \/ ReadReply(t) \/ Arrive(t) \/ OneSided(t)
  \/ OpenLog(t) \/ WriteLog(t) \/ CloseLog(t) \/ EndWorker(t)

ServerStep == WaitingRequest \/ ReadRequest \/ SendReply \/ BuildChannel

Next == ServerStep \/ \E t \in Thread : ThreadStep(t)

Spec == Init /\ [][Next]_vars

\* The server and the threads run.
FairSpec == Spec /\ WF_vars(ServerStep) /\ \A t \in Thread : WF_vars(ThreadStep(t))

-----------------------------------------------------------------------------
(* Properties.                                                             *)

TypeOK ==
  /\ exited \subseteq Proc \cup {"server"}
  /\ pc \in [Thread -> {"start", "send", "read", "build", "barrier", "test",
                        "open", "write", "close", "end", "done"}]
  /\ sent \subseteq Thread
  /\ reply \in [Thread -> Nat] /\ peer \in [Thread -> Nat]
  /\ writes \in [Thread -> 0 .. NumWrites]
  /\ log \in [Thread -> {"none", "zero", "other"}]
  /\ zero \in [Proc -> {"stdin", "closed", "log"}]
  /\ recorded \subseteq Thread
  /\ spc \in {"accept", "read", "send", "build"}
  /\ backlog \in Seq(Thread)
  /\ fd \in Thread \cup {Nobody} /\ known \in Thread \cup {Nobody}
  /\ queues \in Seq(Thread \cup {Nobody})

\* Queue pairs are connected in pairs: no two threads got the same one from the
\* server, and the server connects a queue pair to no other thread than the one
\* it was announced to, with all threads connecting at once and the infos of
\* one connection overwriting those of the one before.
QueuesPaired ==
  \A t \in Thread : peer[t] # 0 =>
    /\ peer[t] \in 1 .. Len(queues)
    /\ queues[peer[t]] \in {t, Nobody}
    /\ \A u \in Thread \ {t} : peer[u] # peer[t]

Testing == {t \in Thread : pc[t] \in {"test", "open", "write", "close", "end", "done"}}

\* The barrier lets nobody write before every thread of its process has the info
\* of its queue pair; but the server answers before it connects, so one of these
\* queue pairs may not be ready for the writes yet: only the last one.
OneQueueBehind ==
  \A t \in Testing : \A u \in ThreadsOf(t.proc) :
    /\ peer[u] \in 1 .. Len(queues)
    /\ queues[peer[u]] = u \/ (peer[u] = Len(queues) /\ spc = "build")

\* Every client process ends, with all its threads done or by exit(-1): nobody
\* waits for ever at the barrier for a thread that failed, or for an answer of a
\* server that is gone or waits for somebody else.
ProcessEnds ==
  \A p \in Proc : <>(p \in exited \/ \A t \in ThreadsOf(p) : pc[t] = "done")

\* utils.h:185, in ~Socket: "closing the connected socket".  A destructor that
\* closes the socket of its thread takes no other descriptor away, and a thread
\* that got through output_result has its latencies in record.log.
RecordsKept == \A t \in Thread : pc[t] \in {"close", "end", "done"} => t \in recorded
==============================================================================
