----------------------------- MODULE BlockQueue -----------------------------
(***************************************************************************)
(* chapter26/thread_pool_server.c: the main thread accepts clients and     *)
(* pushes their descriptors on a ring (block_queue); a fixed set of worker *)
(* threads pops them and serves each client (loop_echo) until it leaves.   *)
(* The ring is guarded by a mutex and a condition variable; it is not      *)
(* checked for being full.                                                 *)
(***************************************************************************)
EXTENDS Integers, Sequences, FiniteSets

CONSTANTS
  Workers,   \* the THREAD_NUMBER threads that run server_task
  Main,      \* the thread that accepts and pushes
  Clients,   \* descriptors accept returns (never closed, so never reused)
  Length,    \* queue->length, BLOCK_QUEUE_SIZE in the program
  NoThread, NoClient

Threads == Workers \union {Main}
Slots   == 0 .. Length - 1

ASSUME ThreadsAssumption == Main \notin Workers /\ NoThread \notin Threads
ASSUME ClientsAssumption == NoClient \notin Clients
ASSUME LengthAssumption  == Length \in Nat \ {0}

VARIABLES
  fd,         \* queue->fd
  front,      \* queue->front
  rear,       \* queue->rear
  mutex,      \* the holder of queue->mutex, or NoThread
  waiting,    \* workers blocked in pthread_cond_wait
  accepted,   \* clients accepted so far
  client,     \* per worker: the client it serves
  done,       \* clients whose loop_echo has returned
  pc,
  incoming,   \* client_fd of the main thread
  proc,       \* "running" or "exited": error(1, ...) in accept or recv
  lost        \* history: clients forgotten when the ring filled up

ringVars == <<fd, front, rear>>
vars == <<ringVars, mutex, waiting, accepted, client, done, pc, incoming, proc, lost>>

RingType ==
  /\ fd \in [Slots -> Clients \union {NoClient}]
  /\ front \in Slots
  /\ rear \in Slots

TypeOK ==
  /\ RingType
  /\ mutex \in Threads \union {NoThread}
  /\ waiting \subseteq Workers
  /\ accepted \subseteq Clients
  /\ done \union lost \subseteq Clients \union {NoClient}
  /\ client \in [Workers -> Clients \union {NoClient}]
  /\ pc \in [Threads -> {"accept", "push", "pushing", "pushed",
                         "pop", "popping", "waiting", "popped", "serve"}]
  /\ incoming \in Clients \union {NoClient}
  /\ proc \in {"running", "exited"}

Init ==
  /\ fd = [s \in Slots |-> NoClient]
  /\ front = 0 /\ rear = 0
  /\ mutex = NoThread /\ waiting = {}
  /\ accepted = {} /\ done = {}
  /\ client = [w \in Workers |-> NoClient]
  /\ pc = [t \in Threads |-> IF t = Main THEN "accept" ELSE "pop"]
  /\ incoming = NoClient /\ proc = "running" /\ lost = {}

At(t, label) == proc = "running" /\ pc[t] = label
Goto(t, label) == pc' = [pc EXCEPT ![t] = label]

\* ++i == length ? 0 : i, the step of front and of rear
Succ(i) == IF i + 1 = Length THEN 0 ELSE i + 1

\* Slots from front up to rear hold the clients that wait.
Waiting == IF rear >= front THEN rear - front ELSE rear - front + Length
Slot(i) == IF front + i - 1 < Length THEN front + i - 1 ELSE front + i - 1 - Length
Queue   == [i \in 1 .. Waiting |-> fd[Slot(i)]]
Queued  == {Queue[i] : i \in 1 .. Waiting}

Lock(t, from, to) ==
  /\ At(t, from) /\ mutex = NoThread
  /\ mutex' = t
  /\ Goto(t, to)

Unlock(t, from, to) ==
  /\ At(t, from)
  /\ mutex' = NoThread
  /\ Goto(t, to)

-----------------------------------------------------------------------------
(* The main thread: accept, block_queue_push                               *)

Accept ==
  /\ At(Main, "accept")
  /\ \E c \in Clients \ accepted :
       /\ accepted' = accepted \union {c}
       /\ incoming' = c
  /\ Goto(Main, "push")
  /\ UNCHANGED <<ringVars, mutex, waiting, client, done, proc, lost>>

PushLock ==
  /\ Lock(Main, "push", "pushing")
  /\ UNCHANGED <<ringVars, waiting, accepted, client, done, incoming, proc, lost>>

\* Mutant of Signalled: the signal is forgotten.
SignalledNot(label) == Goto(Main, label) /\ UNCHANGED waiting

\* pthread_cond_signal wakes one waiting worker, if there is one; it has to
\* take the mutex again.
Signalled(label) ==
  \/ /\ waiting = {}
     /\ Goto(Main, label) /\ UNCHANGED waiting
  \/ \E w \in waiting :
       /\ waiting' = waiting \ {w}
       /\ pc' = [pc EXCEPT ![Main] = label, ![w] = "pop"]

\* Mutant of Push: the rear moves before the descriptor is stored.
PushLate ==
  /\ At(Main, "pushing")
  /\ rear' = Succ(rear)
  /\ fd' = [fd EXCEPT ![rear'] = incoming]
  /\ incoming' = NoClient
  /\ Signalled("pushed")
  /\ UNCHANGED <<front, mutex, accepted, client, done, proc, lost>>

Push ==
  /\ At(Main, "pushing")
  /\ fd' = [fd EXCEPT ![rear] = incoming]
  /\ rear' = Succ(rear)
  /\ incoming' = NoClient
  /\ lost' = IF Succ(rear) = front THEN lost \union Queued \union {incoming} ELSE lost
  /\ Signalled("pushed")
  /\ UNCHANGED <<front, mutex, accepted, client, done, proc>>

PushUnlock ==
  /\ Unlock(Main, "pushed", "accept")
  /\ UNCHANGED <<ringVars, waiting, accepted, client, done, incoming, proc, lost>>

-----------------------------------------------------------------------------
(* The workers: block_queue_pop, loop_echo                                 *)

PopLock(w) ==
  /\ Lock(w, "pop", "popping")
  /\ UNCHANGED <<ringVars, waiting, accepted, client, done, incoming, proc, lost>>

\* while (front == rear) pthread_cond_wait(...), which releases the mutex
Wait(w) ==
  /\ At(w, "popping") /\ front = rear
  /\ mutex' = NoThread
  /\ waiting' = waiting \union {w}
  /\ Goto(w, "waiting")
  /\ UNCHANGED <<ringVars, accepted, client, done, incoming, proc, lost>>

\* pthread_cond_wait may return without a signal.
SpuriousWakeup(w) ==
  /\ At(w, "waiting")
  /\ waiting' = waiting \ {w}
  /\ Goto(w, "pop")
  /\ UNCHANGED <<ringVars, mutex, accepted, client, done, incoming, proc, lost>>

Pop(w) ==
  /\ At(w, "popping") /\ front # rear
  /\ client' = [client EXCEPT ![w] = fd[front]]
  /\ front' = Succ(front)
  /\ Goto(w, "popped")
  /\ UNCHANGED <<fd, rear, mutex, waiting, accepted, done, incoming, proc, lost>>

PopUnlock(w) ==
  /\ Unlock(w, "popped", "serve")
  /\ UNCHANGED <<ringVars, waiting, accepted, client, done, incoming, proc, lost>>

\* loop_echo returns: the client has left.  Its descriptor stays open.
Finish(w) ==
  /\ At(w, "serve")
  /\ done' = done \union {client[w]}
  /\ client' = [client EXCEPT ![w] = NoClient]
  /\ Goto(w, "pop")
  /\ UNCHANGED <<ringVars, mutex, waiting, accepted, incoming, proc, lost>>

\* A failed accept or recv ends the whole process.
Exit ==
  /\ At(Main, "accept") \/ \E w \in Workers : At(w, "serve")
  /\ proc' = "exited"
  /\ UNCHANGED <<ringVars, mutex, waiting, accepted, client, done, pc, incoming, lost>>

-----------------------------------------------------------------------------
WorkerStep(w) ==
  \/ PopLock(w) \/ Wait(w) \/ SpuriousWakeup(w) \/ Pop(w) \/ PopUnlock(w)
  \/ Finish(w)

Next ==
  \/ Accept \/ PushLock \/ Push \/ PushUnlock \/ Exit
  \/ \E w \in Workers : WorkerStep(w)

Spec == Init /\ [][Next]_vars

\* Threads run, the mutex is granted in the end, clients leave some day.
\* Nothing makes a client arrive or a wait return without a signal.
Fairness ==
  /\ SF_vars(PushLock) /\ WF_vars(Push) /\ WF_vars(PushUnlock)
  /\ \A w \in Workers :
       /\ SF_vars(PopLock(w)) /\ WF_vars(Pop(w) \/ Wait(w))
       /\ WF_vars(PopUnlock(w)) /\ WF_vars(Finish(w))

FairSpec == Spec /\ Fairness

-----------------------------------------------------------------------------
\* Whoever touches the ring holds the mutex, every thread runs its own part of
\* the program, and a sleeping worker is on the list of the condition variable.
LockInv ==
  /\ \A t \in Threads :
       pc[t] \in {"pushing", "pushed", "popping", "popped"} => mutex = t
  /\ pc[Main] \in {"accept", "push", "pushing", "pushed"}
  /\ pc[Main] \in {"push", "pushing"} => incoming # NoClient
  /\ \A w \in Workers : w \in waiting <=> pc[w] = "waiting"

\* The ring implements the queue of FdQueue, the loss of all waiting clients
\* when Length of them wait included.
Fifo == INSTANCE FdQueue WITH queue <- Queue
Refinement == Fifo!Spec

\* An accepted client is served in the end, unless the process exits or the
\* ring filled up.
EveryClientServed ==
  \A c \in Clients :
    c \in accepted ~> proc = "exited" \/ c \in done \union lost
=============================================================================
