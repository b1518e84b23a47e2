----------------------------- MODULE TcpServer -----------------------------
(***************************************************************************)
(* The tcp_server of linux-c-np-geektime/lib with its thread_pool: the     *)
(* main thread starts the event_loop_threads one after the other, waiting  *)
(* for the loop of each, then accepts connections and hands them to the    *)
(* loops in turn.                                                          *)
(*                                                                         *)
(* What a loop does with the channels posted to it is module EventLoop's   *)
(* business; here it is the queue ChannelOpQueue of which only the ADDs    *)
(* matter.                                                                 *)
(***************************************************************************)
EXTENDS Integers, Sequences

CONSTANTS
  N,                 \* io_thread_number
  MainLoop, NoLoop,  \* the main thread and its loop; NULL
  MaxConnections,    \* bound: clients that connect
  DescriptorLimit,   \* connections that can be open before accept() fails
  MaxFailures        \* bound: accepts that fail

IoThreads   == 0 .. N - 1
Loops       == IoThreads \union {MainLoop}
Connections == 1 .. MaxConnections

ASSUME LoopsAssumption ==
  N \in Nat /\ MainLoop \notin IoThreads /\ NoLoop \notin Loops
ASSUME LimitsAssumption ==
  MaxConnections \in Nat /\ DescriptorLimit \in Nat /\ MaxFailures \in Nat

VARIABLES
  mainPc,        \* the main thread
  i,             \* thread_pool_start's loop variable
  threadPc,      \* the I/O threads
  startMutex,    \* threads[t].mutex: its holder, or NoLoop
  loop,          \* threads[t].loop
  position,      \* thread_pool->position
  client_fd, service_loop,  \* of handle_connection_established
  arrived,       \* clients that have connected
  established,   \* those accept() has returned
  failures,      \* accepts that returned -1
  pending,       \* channels posted to each loop and not yet added
  registered,    \* connections each loop serves
  assigned       \* history: how often each thread's loop was chosen

startVars  == <<i, threadPc, startMutex, loop>>
acceptVars == <<client_fd, service_loop, established, failures>>
poolVars   == <<position, assigned>>
serveVars  == <<pending, registered>>
tcpVars == <<mainPc, startVars, acceptVars, poolVars, serveVars, arrived>>

StartPcs  == {"create", "lock", "check", "wait", "asleep", "woken", "unlock"}
ServePcs  == {"run", "peek", "connect", "post"}
ThreadPcs == {"none", "lock", "init", "unlock", "run"}

TcpTypeOK ==
  /\ mainPc \in StartPcs \union ServePcs
  /\ i \in 0 .. N
  /\ threadPc \in [IoThreads -> ThreadPcs]
  /\ startMutex \in [IoThreads -> Loops \union {NoLoop}]
  /\ loop \in [IoThreads -> Loops \union {NoLoop}]
  /\ position \in 0 .. N /\ (N > 0 => position < N)
  /\ client_fd \in Connections \union {-1}
  /\ service_loop \in Loops \union {NoLoop}
  /\ arrived \in 0 .. MaxConnections /\ established \in 0 .. MaxConnections /\ failures \in Nat
  /\ pending \in [Loops -> Seq(Connections \union {-1})]
  /\ registered \in [Loops -> SUBSET Connections]
  /\ assigned \in [IoThreads -> Nat]

\* tcp_server_new, thread_pool_new; thread_pool_start is called
TcpInit ==
  /\ mainPc = "create" /\ i = 0
  /\ threadPc = [t \in IoThreads |-> "none"]
  /\ startMutex = [t \in IoThreads |-> NoLoop]
  /\ loop = [t \in IoThreads |-> NoLoop]
  /\ position = 0 /\ assigned = [t \in IoThreads |-> 0]
  /\ client_fd = -1 /\ service_loop = NoLoop
  /\ arrived = 0 /\ established = 0 /\ failures = 0
  /\ pending = [l \in Loops |-> <<>>]
  /\ registered = [l \in Loops |-> {}]

-----------------------------------------------------------------------------
(* thread_pool_start and event_loop_thread_start, in the main thread       *)

MainGoes(from, to) == mainPc = from /\ mainPc' = to

\* event_loop_thread_init and pthread_create
Create ==
  /\ i < N /\ MainGoes("create", "lock")
  /\ threadPc' = [threadPc EXCEPT ![i] = "lock"]
  /\ UNCHANGED <<i, startMutex, loop, acceptVars, poolVars, serveVars, arrived>>

StartLock ==
  /\ MainGoes("lock", "check")
  /\ startMutex[i] = NoLoop
  /\ startMutex' = [startMutex EXCEPT ![i] = MainLoop]
  /\ UNCHANGED <<i, threadPc, loop, acceptVars, poolVars, serveVars, arrived>>

StartCheck ==
  /\ MainGoes("check", IF loop[i] = NoLoop THEN "wait" ELSE "unlock")
  /\ UNCHANGED <<startVars, acceptVars, poolVars, serveVars, arrived>>

\* pthread_cond_wait gives up the mutex and sleeps in one step.
StartWait ==
  /\ MainGoes("wait", "asleep")
  /\ startMutex' = [startMutex EXCEPT ![i] = NoLoop]
  /\ UNCHANGED <<i, threadPc, loop, acceptVars, poolVars, serveVars, arrived>>

StartSpurious ==
  /\ MainGoes("asleep", "woken")
  /\ UNCHANGED <<startVars, acceptVars, poolVars, serveVars, arrived>>

\* Mutant of Relock: the loop pointer is not looked at again.
RelockOnce ==
  /\ MainGoes("woken", "unlock")
  /\ startMutex[i] = NoLoop
  /\ startMutex' = [startMutex EXCEPT ![i] = MainLoop]
  /\ UNCHANGED <<i, threadPc, loop, acceptVars, poolVars, serveVars, arrived>>

\* pthread_cond_wait takes the mutex again and returns to the while.
Relock ==
  /\ MainGoes("woken", "check")
  /\ startMutex[i] = NoLoop
  /\ startMutex' = [startMutex EXCEPT ![i] = MainLoop]
  /\ UNCHANGED <<i, threadPc, loop, acceptVars, poolVars, serveVars, arrived>>

StartUnlock ==
  /\ MainGoes("unlock", "create")
  /\ startMutex' = [startMutex EXCEPT ![i] = NoLoop]
  /\ i' = i + 1
  /\ UNCHANGED <<threadPc, loop, acceptVars, poolVars, serveVars, arrived>>

\* The acceptor's channel is added to the main loop, which starts to run.
Listen ==
  /\ i >= N /\ MainGoes("create", "run")
  /\ UNCHANGED <<startVars, acceptVars, poolVars, serveVars, arrived>>

-----------------------------------------------------------------------------
(* event_loop_thread_run, in the I/O threads                               *)

ThreadGoes(t, from, to) ==
  threadPc[t] = from /\ threadPc' = [threadPc EXCEPT ![t] = to]

ThreadLock(t) ==
  /\ ThreadGoes(t, "lock", "init")
  /\ startMutex[t] = NoLoop
  /\ startMutex' = [startMutex EXCEPT ![t] = t]
  /\ UNCHANGED <<mainPc, i, loop, acceptVars, poolVars, serveVars, arrived>>

\* Mutant of ThreadInit: nobody is signalled.
ThreadInitSilent(t) ==
  /\ ThreadGoes(t, "init", "unlock")
  /\ loop' = [loop EXCEPT ![t] = t]
  /\ UNCHANGED <<mainPc, i, startMutex, acceptVars, poolVars, serveVars, arrived>>

\* event_loop_init_with_name and pthread_cond_signal
ThreadInit(t) ==
  /\ ThreadGoes(t, "init", "unlock")
  /\ loop' = [loop EXCEPT ![t] = t]
  /\ mainPc' = IF mainPc = "asleep" /\ i = t THEN "woken" ELSE mainPc
  /\ UNCHANGED <<i, startMutex, acceptVars, poolVars, serveVars, arrived>>

ThreadUnlock(t) ==
  /\ ThreadGoes(t, "unlock", "run")
  /\ startMutex' = [startMutex EXCEPT ![t] = NoLoop]
  /\ UNCHANGED <<mainPc, i, loop, acceptVars, poolVars, serveVars, arrived>>

\* A descriptor below 0 is not added.
Added(l, fd) ==
  registered' = IF fd < 0 THEN registered ELSE [registered EXCEPT ![l] = @ \union {fd}]

\* The loop handles a pending ADD.
ThreadServe(t) ==
  /\ threadPc[t] = "run" /\ pending[t] # <<>>
  /\ Added(t, Head(pending[t]))
  /\ pending' = [pending EXCEPT ![t] = Tail(@)]
  /\ UNCHANGED <<mainPc, startVars, acceptVars, poolVars, arrived>>

-----------------------------------------------------------------------------
(* handle_connection_established, in the main thread                       *)

ClientConnects ==
  /\ arrived < MaxConnections
  /\ arrived' = arrived + 1
  /\ UNCHANGED <<mainPc, startVars, acceptVars, poolVars, serveVars>>

\* accept() takes the oldest client, or fails when no descriptor is left.
Establish ==
  /\ arrived > established /\ MainGoes("run", "peek")
  /\ IF established < DescriptorLimit
     THEN /\ established' = established + 1 /\ client_fd' = established'
          /\ UNCHANGED failures
     ELSE /\ failures < MaxFailures
          /\ failures' = failures + 1 /\ client_fd' = -1
          /\ UNCHANGED established
  /\ UNCHANGED <<service_loop, startVars, poolVars, serveVars, arrived>>

Advanced(p) == IF p + 1 >= N THEN 0 ELSE p + 1

\* thread_pool_peek_work_loop: the main loop when there are no threads.
Peek ==
  /\ MainGoes("peek", "connect")
  /\ IF N > 0
     THEN /\ service_loop' = loop[position]
          /\ position' = Advanced(position)
          /\ assigned' = [assigned EXCEPT ![position] = @ + 1]
     ELSE service_loop' = MainLoop /\ UNCHANGED poolVars
  /\ UNCHANGED <<startVars, client_fd, established, failures, serveVars, arrived>>

\* tcp_connection_new up to the return of on_new_connection
NewConnection ==
  /\ MainGoes("connect", "post")
  /\ UNCHANGED <<startVars, acceptVars, poolVars, serveVars, arrived>>

\* event_loop_add_channel_event: its own loop's queue the thread handles itself.
PostAdd ==
  /\ MainGoes("post", "run")
  /\ IF service_loop = MainLoop
     THEN Added(MainLoop, client_fd) /\ UNCHANGED pending
     ELSE /\ pending' = [pending EXCEPT ![service_loop] = Append(@, client_fd)]
          /\ UNCHANGED registered
  /\ UNCHANGED <<startVars, acceptVars, poolVars, arrived>>

-----------------------------------------------------------------------------
MainSteps ==
  \/ Create \/ StartLock \/ StartCheck \/ StartWait \/ Relock \/ StartUnlock \/ Listen
  \/ Establish \/ Peek \/ NewConnection \/ PostAdd

IoThread(t) ==
  \/ ThreadLock(t) \/ ThreadInit(t) \/ ThreadUnlock(t) \/ ThreadServe(t)

TcpNext ==
  \/ MainSteps \/ StartSpurious \/ ClientConnects
  \/ \E t \in IoThreads : IoThread(t)

TcpSpec == TcpInit /\ [][TcpNext]_tcpVars

\* Threads that can run do, and a mutex that is free again and again is taken:
\* spurious wake-ups of the main thread do not keep it from the new thread.
TcpFairSpec ==
  /\ TcpSpec
  /\ WF_tcpVars(MainSteps)
  /\ \A t \in IoThreads : WF_tcpVars(IoThread(t)) /\ SF_tcpVars(ThreadLock(t))

-----------------------------------------------------------------------------
\* The main thread does not sleep through the signal of the thread it started.
NoMissedSignal == mainPc = "asleep" => loop[i] = NoLoop

\* No connection is handed to a loop that does not exist yet: a thread counts
\* as started only when its loop is there, spurious wake-ups or not.
LoopsReady ==
  /\ \A t \in IoThreads : t < i => loop[t] = t
  /\ mainPc \in ServePcs => i = N
  /\ mainPc \in {"connect", "post"} => service_loop \in Loops

\* The loops take turns: none has been chosen twice as long as another has
\* not been chosen once more.
TakeTurns == \A s, t \in IoThreads : assigned[s] <= assigned[t] + 1

\* Every client that connects gets a loop to serve it, while the descriptors
\* last, also when accepts fail behind it.
EveryConnectionServed ==
  \A c \in Connections \intersect 1 .. DescriptorLimit :
    arrived >= c ~> \E l \in Loops : c \in registered[l]

\* on_new_connection is told of connections only.
OnlyConnections == mainPc = "connect" => client_fd # -1
=============================================================================
