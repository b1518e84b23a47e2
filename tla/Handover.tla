------------------------------ MODULE Handover ------------------------------
(***************************************************************************)
(* The two ways in which the servers hand a client to one of several       *)
(* threads: the block_queue of chapter26/thread_pool_server.c (BlockQueue) *)
(* and the event loops of lib/tcp_server.c (TcpServer).  They are programs *)
(* of their own that share nothing: a behaviour is one of one of them,     *)
(* chosen at the start, and the other stays as it is.                      *)
(***************************************************************************)
EXTENDS BlockQueue, TcpServer

VARIABLE server  \* the one that runs

handoverVars == <<server, vars, tcpVars>>

HandoverInit == server \in {"thread_pool", "tcp"} /\ Init /\ TcpInit

HandoverNext ==
  \/ server = "thread_pool" /\ Next /\ UNCHANGED <<server, tcpVars>>
  \/ server = "tcp" /\ TcpNext /\ UNCHANGED <<server, vars>>

HandoverSpec == HandoverInit /\ [][HandoverNext]_handoverVars

\* The fairness of each module, for the server that runs.
ThreadPoolFair ==
  LET Runs(A) == server = "thread_pool" /\ A IN
  /\ SF_vars(Runs(PushLock)) /\ WF_vars(Runs(Push)) /\ WF_vars(Runs(PushUnlock))
  /\ \A w \in Workers :
       /\ SF_vars(Runs(PopLock(w))) /\ WF_vars(Runs(Pop(w) \/ Wait(w)))
       /\ WF_vars(Runs(PopUnlock(w))) /\ WF_vars(Runs(Finish(w)))

TcpFair ==
  /\ WF_tcpVars(server = "tcp" /\ MainSteps)
  /\ \A t \in IoThreads :
       /\ WF_tcpVars(server = "tcp" /\ IoThread(t))
       /\ SF_tcpVars(server = "tcp" /\ ThreadLock(t))

HandoverFairSpec == HandoverSpec /\ ThreadPoolFair /\ TcpFair
=============================================================================
