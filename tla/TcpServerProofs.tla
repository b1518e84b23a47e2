-------------------------- MODULE TcpServerProofs --------------------------
(***************************************************************************)
(* Proofs about TcpServer, for any number of I/O threads and of clients.   *)
(***************************************************************************)
EXTENDS TcpServer, TLAPS

\* The start of the threads has got as far as mainPc and i say.
StartInv ==
  /\ mainPc \in ServePcs => i = N
  /\ mainPc \in StartPcs \ {"create"} => i < N
  /\ \A t \in IoThreads : t > i \/ (t = i /\ mainPc = "create") => threadPc[t] = "none"
  /\ \A t \in IoThreads : loop[t] = IF threadPc[t] \in {"unlock", "run"} THEN t ELSE NoLoop
  /\ \A t \in IoThreads : t < i \/ (t = i /\ mainPc = "unlock") => loop[t] = t
  /\ mainPc \in {"connect", "post"} => service_loop \in Loops

\* The startMutex of a thread is held by whoever is between lock and unlock, so the
\* loop appears neither between the check and the wait nor before the wait.
MutexInv ==
  /\ \A t \in IoThreads : startMutex[t] = t <=> threadPc[t] \in {"init", "unlock"}
  /\ \A t \in IoThreads :
       startMutex[t] = MainLoop <=> i = t /\ mainPc \in {"check", "wait", "unlock"}
  /\ mainPc \in {"wait", "asleep"} => loop[i] = NoLoop

LEMMA TypeInit == TcpInit => TcpTypeOK
BY LoopsAssumption, LimitsAssumption
   DEF TcpInit, TcpTypeOK, StartPcs, ServePcs, ThreadPcs, Loops, Connections

LEMMA TypeStep == TcpTypeOK /\ StartInv /\ [TcpNext]_tcpVars => TcpTypeOK'
<1>. SUFFICES ASSUME TcpTypeOK, StartInv, [TcpNext]_tcpVars PROVE TcpTypeOK'
  OBVIOUS
<1>. USE LoopsAssumption, LimitsAssumption
<1>. USE DEF TcpTypeOK, StartPcs, ServePcs, ThreadPcs, startVars, acceptVars, poolVars, serveVars
<1>1. CASE Create \/ StartCheck \/ Listen \/ StartSpurious \/ NewConnection
  BY <1>1 DEF Create, StartCheck, Listen, StartSpurious, NewConnection, MainGoes
<1>2. CASE StartLock \/ StartWait \/ Relock
  BY <1>2 DEF StartLock, StartWait, Relock, MainGoes, Loops
<1>3. CASE StartUnlock
  <2>1. i + 1 \in 0 .. N
    BY <1>3 DEF StartUnlock, MainGoes, StartInv
  <2>. QED
    BY <1>3, <2>1 DEF StartUnlock, MainGoes
<1>4. CASE ClientConnects
  BY <1>4 DEF ClientConnects
<1>5. CASE Establish
  <2>1. established + 1 \in 0 .. MaxConnections /\ established + 1 \in Connections
    BY <1>5 DEF Establish, Connections
  <2>2. established' \in 0 .. MaxConnections /\ client_fd' \in Connections \union {-1} /\ failures' \in Nat
    BY <1>5, <2>1 DEF Establish
  <2>. QED
    BY <1>5, <2>2 DEF Establish, MainGoes
<1>6. CASE Peek
  <2>1. CASE N > 0
    <3>1. position \in IoThreads /\ Advanced(position) \in 0 .. N /\ Advanced(position) < N
      BY <2>1 DEF IoThreads, Advanced
    <3>2. /\ service_loop' = loop[position] /\ position' = Advanced(position)
          /\ assigned' = [assigned EXCEPT ![position] = @ + 1]
      BY <1>6, <2>1 DEF Peek
    <3>3. assigned' \in [IoThreads -> Nat] /\ service_loop' \in Loops \union {NoLoop}
      BY <3>1, <3>2
    <3>. QED
      BY <1>6, <2>1, <3>1, <3>2, <3>3 DEF Peek, MainGoes
  <2>2. CASE ~(N > 0)
    BY <1>6, <2>2 DEF Peek, MainGoes, Loops
  <2>. QED
    BY <2>1, <2>2
<1>7. CASE PostAdd
  <2>0. service_loop \in Loops /\ client_fd \in Connections \union {-1}
    BY <1>7 DEF PostAdd, MainGoes, StartInv
  <2>1. registered' \in [Loops -> SUBSET Connections]
    BY <1>7, <2>0 DEF PostAdd, Added, Connections
  <2>2. pending' \in [Loops -> Seq(Connections \union {-1})]
    <3>1. Append(pending[service_loop], client_fd) \in Seq(Connections \union {-1})
      BY <2>0
    <3>2. \/ UNCHANGED pending
          \/ pending' = [pending EXCEPT ![service_loop] = Append(pending[service_loop], client_fd)]
      BY <1>7 DEF PostAdd
    <3>3. CASE UNCHANGED pending
      BY <2>0, <3>3
    <3>4. CASE pending' = [pending EXCEPT ![service_loop] = Append(pending[service_loop], client_fd)]
      <4>. DEFINE q == Append(pending[service_loop], client_fd)
      <4>1. q \in Seq(Connections \union {-1})
        BY <3>1
      <4>. HIDE DEF q
      <4>2. [pending EXCEPT ![service_loop] = q] \in [Loops -> Seq(Connections \union {-1})]
        BY <2>0, <4>1
      <4>. QED
        BY <3>4, <4>2 DEF q
    <3>. QED
      BY <3>2, <3>3, <3>4
  <2>. QED
    BY <1>7, <2>1, <2>2 DEF PostAdd, MainGoes
<1>8. ASSUME NEW t \in IoThreads, IoThread(t) PROVE TcpTypeOK'
  <2>. t \in Loops
    BY DEF Loops
  <2>1. CASE ThreadLock(t)
    BY <2>1 DEF ThreadLock, ThreadGoes
  <2>4. CASE ThreadUnlock(t)
    BY <2>4 DEF ThreadUnlock, ThreadGoes
  <2>3. CASE ThreadInit(t)
    BY <2>3 DEF ThreadInit, ThreadGoes
  <2>2. CASE ThreadServe(t)
    <3>1. Head(pending[t]) \in Connections \union {-1} /\ Tail(pending[t]) \in Seq(Connections \union {-1})
      BY <2>2 DEF ThreadServe
    <3>. QED
      BY <2>2, <3>1 DEF ThreadServe, Added, Connections
  <2>. QED
    BY <1>8, <2>1, <2>4, <2>2, <2>3 DEF IoThread
<1>9. CASE UNCHANGED tcpVars
  BY <1>9 DEF tcpVars
<1>. QED
  BY <1>1, <1>2, <1>3, <1>4, <1>5, <1>6, <1>7, <1>8, <1>9 DEF TcpNext, MainSteps

-----------------------------------------------------------------------------
LEMMA StartInit == TcpInit => StartInv
BY LoopsAssumption DEF TcpInit, StartInv, StartPcs, ServePcs, IoThreads

LEMMA StartStep == TcpTypeOK /\ StartInv /\ [TcpNext]_tcpVars => StartInv'
<1>. SUFFICES ASSUME TcpTypeOK, StartInv, [TcpNext]_tcpVars PROVE StartInv'
  OBVIOUS
<1>. USE LoopsAssumption
<1>. USE DEF TcpTypeOK, StartInv, StartPcs, ServePcs, ThreadPcs, startVars, acceptVars, poolVars, serveVars
<1>1. CASE Create
  <2>1. i \in IoThreads
    BY <1>1 DEF Create, MainGoes, IoThreads
  <2>2. threadPc[i] = "none" /\ loop[i] = NoLoop
    BY <1>1, <2>1 DEF Create, MainGoes
  <2>. QED
    BY <1>1, <2>1, <2>2 DEF Create, MainGoes
<1>2. CASE StartLock \/ StartCheck \/ StartWait \/ Relock \/ StartSpurious
  <2>1. i \in IoThreads
    BY <1>2 DEF StartLock, StartCheck, StartWait, Relock, StartSpurious, MainGoes, IoThreads
  <2>. QED
    BY <1>2, <2>1 DEF StartLock, StartCheck, StartWait, Relock, StartSpurious, MainGoes
<1>3. CASE StartUnlock
  BY <1>3 DEF StartUnlock, MainGoes, IoThreads
<1>4. CASE Listen
  <2>1. i = N /\ \A t \in IoThreads : t < i
    BY <1>4 DEF Listen, IoThreads
  <2>. QED
    BY <1>4, <2>1 DEF Listen, MainGoes
<1>9. CASE ClientConnects
  BY <1>9 DEF ClientConnects
<1>5. CASE Establish \/ NewConnection \/ PostAdd
  BY <1>5 DEF Establish, NewConnection, PostAdd, MainGoes
<1>6. CASE Peek
  <2>1. CASE N > 0
    <3>1. position \in IoThreads /\ i = N
      BY <1>6, <2>1 DEF Peek, MainGoes, IoThreads
    <3>2. loop[position] \in Loops
      BY <3>1 DEF IoThreads, Loops
    <3>. QED
      BY <1>6, <2>1, <3>2 DEF Peek, MainGoes
  <2>2. CASE ~(N > 0)
    BY <1>6, <2>2 DEF Peek, MainGoes, Loops
  <2>. QED
    BY <2>1, <2>2
<1>7. ASSUME NEW t \in IoThreads, IoThread(t) PROVE StartInv'
  <2>1. CASE ThreadLock(t)
    BY <2>1 DEF ThreadLock, ThreadGoes, IoThreads
  <2>2. CASE ThreadInit(t)
    BY <2>2 DEF ThreadInit, ThreadGoes, IoThreads
  <2>3. CASE ThreadUnlock(t)
    BY <2>3 DEF ThreadUnlock, ThreadGoes, IoThreads
  <2>4. CASE ThreadServe(t)
    BY <2>4 DEF ThreadServe
  <2>. QED
    BY <1>7, <2>1, <2>2, <2>3, <2>4 DEF IoThread
<1>8. CASE UNCHANGED tcpVars
  BY <1>8 DEF tcpVars
<1>. QED
  BY <1>1, <1>2, <1>3, <1>4, <1>5, <1>6, <1>7, <1>8, <1>9 DEF TcpNext, MainSteps

-----------------------------------------------------------------------------
LEMMA MutexInit == TcpInit => MutexInv
BY LoopsAssumption DEF TcpInit, MutexInv, Loops, IoThreads

LEMMA MutexStep == TcpTypeOK /\ StartInv /\ MutexInv /\ [TcpNext]_tcpVars => MutexInv'
<1>. SUFFICES ASSUME TcpTypeOK, StartInv, MutexInv, [TcpNext]_tcpVars PROVE MutexInv'
  OBVIOUS
<1>0. NoLoop # MainLoop /\ \A t \in IoThreads : t # NoLoop /\ t # MainLoop
  BY LoopsAssumption DEF Loops
<1>. USE <1>0
<1>. USE DEF TcpTypeOK, StartPcs, ServePcs, ThreadPcs, startVars, acceptVars, poolVars, serveVars
<1>1. CASE Create
  <2>1. i \in IoThreads
    BY <1>1, LoopsAssumption DEF Create, IoThreads
  <2>. QED
    BY <1>1, <2>1 DEF Create, MainGoes, MutexInv, StartInv
<1>2. CASE StartLock \/ StartCheck \/ StartWait \/ Relock \/ StartSpurious
  <2>1. i \in IoThreads
    BY <1>2, LoopsAssumption DEF StartLock, StartCheck, StartWait, Relock, StartSpurious,
                                    MainGoes, IoThreads, StartInv
  <2>2. CASE StartLock \/ Relock
    BY <2>1, <2>2 DEF StartLock, Relock, MainGoes, MutexInv
  <2>3. CASE StartCheck
    BY <2>1, <2>3 DEF StartCheck, MainGoes, MutexInv
  <2>4. CASE StartWait \/ StartSpurious
    BY <2>1, <2>4 DEF StartWait, StartSpurious, MainGoes, MutexInv
  <2>. QED
    BY <1>2, <2>2, <2>3, <2>4
<1>3. CASE StartUnlock
  <2>1. i \in IoThreads
    BY <1>3, LoopsAssumption DEF StartUnlock, MainGoes, IoThreads, StartInv
  <2>. QED
    BY <1>3, <2>1 DEF StartUnlock, MainGoes, MutexInv
<1>4. CASE Listen \/ ClientConnects \/ Establish \/ Peek \/ NewConnection \/ PostAdd
  BY <1>4 DEF Listen, ClientConnects, Establish, Peek, NewConnection, PostAdd, MainGoes, MutexInv
<1>5. ASSUME NEW t \in IoThreads, IoThread(t) PROVE MutexInv'
  <2>1. CASE ThreadLock(t)
    BY <2>1 DEF ThreadLock, ThreadGoes, MutexInv
  <2>2. CASE ThreadInit(t)
    BY <2>2 DEF ThreadInit, ThreadGoes, MutexInv
  <2>3. CASE ThreadUnlock(t)
    BY <2>3 DEF ThreadUnlock, ThreadGoes, MutexInv
  <2>4. CASE ThreadServe(t)
    BY <2>4 DEF ThreadServe, MutexInv
  <2>. QED
    BY <1>5, <2>1, <2>2, <2>3, <2>4 DEF IoThread
<1>6. CASE UNCHANGED tcpVars
  BY <1>6 DEF tcpVars, MutexInv
<1>. QED
  BY <1>1, <1>2, <1>3, <1>4, <1>5, <1>6 DEF TcpNext, MainSteps

-----------------------------------------------------------------------------
\* The threads before position have been chosen once more than the others.
TurnInv ==
  \E q \in Nat : \A t \in IoThreads : assigned[t] = IF t < position THEN q + 1 ELSE q

LEMMA TurnInit == TcpInit => TurnInv
<1>. SUFFICES ASSUME TcpInit PROVE \A t \in IoThreads : assigned[t] = IF t < position THEN 0 + 1 ELSE 0
  BY DEF TurnInv
<1>. QED
  BY LoopsAssumption DEF TcpInit, IoThreads

LEMMA TurnStep == TcpTypeOK /\ TurnInv /\ [TcpNext]_tcpVars => TurnInv'
<1>. SUFFICES ASSUME TcpTypeOK, TurnInv, [TcpNext]_tcpVars PROVE TurnInv'
  OBVIOUS
<1>1. CASE Peek /\ N > 0
  <2>1. PICK q \in Nat : \A t \in IoThreads : assigned[t] = IF t < position THEN q + 1 ELSE q
    BY DEF TurnInv
  <2>2. /\ assigned \in [IoThreads -> Nat] /\ position \in IoThreads
        /\ assigned' = [assigned EXCEPT ![position] = @ + 1]
        /\ position' = Advanced(position)
    BY <1>1, LoopsAssumption DEF Peek, TcpTypeOK, IoThreads
  <2>3. \A t \in IoThreads : assigned'[t] = IF t < position + 1 THEN q + 1 ELSE q
    BY <2>1, <2>2 DEF IoThreads
  <2>4. CASE position + 1 >= N
    <3>1. position' = 0 /\ \A t \in IoThreads : t < position + 1 /\ ~(t < 0)
      BY <2>2, <2>4, LoopsAssumption DEF Advanced, IoThreads
    <3>2. \A t \in IoThreads : assigned'[t] = IF t < position' THEN q + 1 + 1 ELSE q + 1
      BY <2>3, <3>1
    <3>. QED
      BY <3>2 DEF TurnInv
  <2>5. CASE ~(position + 1 >= N)
    BY <2>2, <2>3, <2>5 DEF Advanced, TurnInv
  <2>. QED
    BY <2>4, <2>5
<1>2. CASE UNCHANGED poolVars
  BY <1>2 DEF poolVars, TurnInv
<1>3. (Peek /\ N > 0) \/ UNCHANGED poolVars
  BY DEF TcpNext, MainSteps, IoThread, Create, StartLock, StartCheck, StartWait, Relock,
         StartUnlock, Listen, Establish, Peek, NewConnection, PostAdd, StartSpurious,
         ClientConnects, ThreadLock, ThreadInit, ThreadUnlock, ThreadServe, poolVars, tcpVars
<1>. QED
  BY <1>1, <1>2, <1>3

-----------------------------------------------------------------------------
IInv == TcpTypeOK /\ StartInv /\ MutexInv /\ TurnInv

LEMMA Invariant == TcpSpec => []IInv
<1>1. TcpInit => IInv
  BY TypeInit, StartInit, MutexInit, TurnInit DEF IInv
<1>2. IInv /\ [TcpNext]_tcpVars => IInv'
  BY TypeStep, StartStep, MutexStep, TurnStep DEF IInv
<1>. QED
  BY <1>1, <1>2, PTL DEF TcpSpec

\* Every variable keeps its type; position stays an index of threads[].
THEOREM TypeCorrect == TcpSpec => []TcpTypeOK
<1>1. IInv => TcpTypeOK
  BY DEF IInv
<1>. QED
  BY <1>1, Invariant, PTL

\* event_loop_thread_start never sleeps through the signal of its thread.
THEOREM NoSignalIsMissed == TcpSpec => []NoMissedSignal
<1>1. IInv => NoMissedSignal
  BY DEF IInv, MutexInv, NoMissedSignal
<1>. QED
  BY <1>1, Invariant, PTL

\* thread_pool_peek_work_loop hands out loops that exist.
THEOREM LoopsAreReady == TcpSpec => []LoopsReady
<1>1. IInv => LoopsReady
  BY DEF IInv, StartInv, LoopsReady
<1>. QED
  BY <1>1, Invariant, PTL

\* However many threads there are, the connections are spread evenly.
THEOREM LoopsTakeTurns == TcpSpec => []TakeTurns
<1>1. IInv => TakeTurns
  <2>. SUFFICES ASSUME TurnInv, NEW s \in IoThreads, NEW t \in IoThreads
                PROVE  assigned[s] <= assigned[t] + 1
    BY DEF IInv, TakeTurns
  <2>. QED
    BY DEF TurnInv
<1>. QED
  BY <1>1, Invariant, PTL
=============================================================================
