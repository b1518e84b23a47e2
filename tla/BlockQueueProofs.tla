-------------------------- MODULE BlockQueueProofs --------------------------
(***************************************************************************)
(* Proofs about BlockQueue for every number of workers and clients and     *)
(* every length of the ring.                                               *)
(***************************************************************************)
EXTENDS BlockQueue, SequenceTheorems, TLAPS

\* The step of front and rear stays in the array.
LEMMA SuccType == \A i \in Slots : Succ(i) \in Slots
BY LengthAssumption DEF Slots, Succ

LEMMA TypeInit == Init => TypeOK
<1>. SUFFICES ASSUME Init PROVE TypeOK
  OBVIOUS
<1>1. 0 \in Slots
  BY LengthAssumption DEF Slots
<1>. QED
  BY <1>1, ThreadsAssumption DEF Init, TypeOK, RingType, Threads

\* The queue holds at most Length - 1 clients, all of them from the ring.
LEMMA WaitingType ==
  ASSUME RingType
  PROVE  /\ Waiting \in 0 .. Length - 1
         /\ \A i \in 1 .. Waiting : Slot(i) \in Slots
         /\ Waiting = 0 <=> front = rear
BY LengthAssumption DEF RingType, Waiting, Slot, Slots

\* Queue is a sequence of the clients in the slots from front up to rear.
QueueOK ==
  /\ Queue \in Seq(Clients \union {NoClient})
  /\ Len(Queue) = Waiting
  /\ \A i \in 1 .. Waiting : Queue[i] = fd[Slot(i)]

LEMMA QueueType == RingType => QueueOK
<1>. SUFFICES ASSUME RingType PROVE QueueOK
  OBVIOUS
<1>1. Waiting \in Nat /\ \A i \in 1 .. Waiting : fd[Slot(i)] \in Clients \union {NoClient}
  BY WaitingType, LengthAssumption DEF RingType
<1>. QED
  BY <1>1 DEF Queue, QueueOK

LEMMA QueueTypePrime == RingType' => QueueOK'
  BY QueueType, PTL

LEMMA TypeStep == TypeOK /\ [Next]_vars => TypeOK'
<1>. SUFFICES ASSUME TypeOK, [Next]_vars PROVE TypeOK'
  OBVIOUS
<1>. USE SuccType DEF TypeOK, RingType, At, Goto, ringVars
<1>1. CASE Accept
  BY <1>1 DEF Accept
<1>2. CASE PushLock
  BY <1>2 DEF PushLock, Lock, Threads
<1>3. CASE Push
  <2>1. fd' \in [Slots -> Clients \union {NoClient}] /\ rear' \in Slots
    BY <1>3 DEF Push
  <2>2. waiting' \subseteq Workers
        /\ pc' \in [Threads -> {"accept", "push", "pushing", "pushed",
                         "pop", "popping", "waiting", "popped", "serve"}]
    BY <1>3 DEF Push, Signalled, Threads
  <2>3. lost' \subseteq Clients \union {NoClient}
    <3>1. Queued \subseteq Clients \union {NoClient}
      BY QueueType, WaitingType DEF Queued, QueueOK
    <3>. QED
      BY <1>3, <3>1 DEF Push
  <2>. QED
    BY <1>3, <2>1, <2>2, <2>3 DEF Push
<1>4. CASE PushUnlock
  BY <1>4 DEF PushUnlock, Unlock
<1>5. ASSUME NEW w \in Workers, PopLock(w) PROVE TypeOK'
  BY <1>5 DEF PopLock, Lock, Threads
<1>6. ASSUME NEW w \in Workers, Wait(w) PROVE TypeOK'
  BY <1>6 DEF Wait
<1>7. ASSUME NEW w \in Workers, SpuriousWakeup(w) PROVE TypeOK'
  BY <1>7 DEF SpuriousWakeup
<1>8. ASSUME NEW w \in Workers, Pop(w) PROVE TypeOK'
  BY <1>8 DEF Pop
<1>9. ASSUME NEW w \in Workers, PopUnlock(w) PROVE TypeOK'
  BY <1>9 DEF PopUnlock, Unlock
<1>10. ASSUME NEW w \in Workers, Finish(w) PROVE TypeOK'
  BY <1>10 DEF Finish
<1>11. CASE Exit
  BY <1>11 DEF Exit
<1>12. CASE UNCHANGED vars
  BY <1>12 DEF vars
<1>. QED
  BY <1>1, <1>2, <1>3, <1>4, <1>5, <1>6, <1>7, <1>8, <1>9, <1>10, <1>11, <1>12
     DEF Next, WorkerStep

\* Every variable keeps its type; front and rear stay inside the array.
THEOREM TypeCorrect == Spec => []TypeOK
  BY TypeInit, TypeStep, PTL DEF Spec

-----------------------------------------------------------------------------
(* The mutex guards the ring                                               *)

LEMMA LockStep == TypeOK /\ LockInv /\ [Next]_vars => LockInv'
<1>. SUFFICES ASSUME TypeOK, LockInv, [Next]_vars PROVE LockInv'
  OBVIOUS
<1>. USE ThreadsAssumption DEF TypeOK, LockInv, At, Goto, Threads
<1>1. CASE Accept
  BY <1>1, ClientsAssumption DEF Accept
<1>2. CASE PushLock
  BY <1>2 DEF PushLock, Lock
<1>3. CASE Push
  BY <1>3 DEF Push, Signalled
<1>4. CASE PushUnlock
  BY <1>4 DEF PushUnlock, Unlock
<1>5. ASSUME NEW w \in Workers, PopLock(w) PROVE LockInv'
  BY <1>5 DEF PopLock, Lock
<1>6. ASSUME NEW w \in Workers, Wait(w) PROVE LockInv'
  BY <1>6 DEF Wait
<1>7. ASSUME NEW w \in Workers, SpuriousWakeup(w) PROVE LockInv'
  BY <1>7 DEF SpuriousWakeup
<1>8. ASSUME NEW w \in Workers, Pop(w) PROVE LockInv'
  BY <1>8 DEF Pop
<1>9. ASSUME NEW w \in Workers, PopUnlock(w) PROVE LockInv'
  BY <1>9 DEF PopUnlock, Unlock
<1>10. ASSUME NEW w \in Workers, Finish(w) PROVE LockInv'
  BY <1>10 DEF Finish
<1>11. CASE Exit
  BY <1>11 DEF Exit
<1>12. CASE UNCHANGED vars
  BY <1>12 DEF vars
<1>. QED
  BY <1>1, <1>2, <1>3, <1>4, <1>5, <1>6, <1>7, <1>8, <1>9, <1>10, <1>11, <1>12
     DEF Next, WorkerStep

\* No two threads are inside block_queue_push or block_queue_pop together.
THEOREM MutualExclusion == Spec => []LockInv
<1>1. Init => LockInv
  BY ThreadsAssumption DEF Init, LockInv, Threads
<1>. QED
  BY <1>1, TypeInit, TypeStep, LockStep, PTL DEF Spec

-----------------------------------------------------------------------------
(* The ring is a queue                                                     *)

\* The ring after a push: one client more, or none at all.
LEMMA PushQueue ==
  ASSUME TypeOK, TypeOK', Push
  PROVE  Queue' = IF Len(Queue) + 1 < Length THEN Append(Queue, incoming) ELSE <<>>
<1>1. RingType /\ RingType' /\ front' = front /\ rear' = Succ(rear)
      /\ fd' = [fd EXCEPT ![rear] = incoming]
  BY DEF TypeOK, Push
<1>2. Queue \in Seq(Clients \union {NoClient}) /\ Len(Queue) = Waiting
      /\ Queue' \in Seq(Clients \union {NoClient}) /\ Len(Queue') = Waiting'
  BY <1>1, QueueType, QueueTypePrime DEF QueueOK
<1>3. CASE Waiting + 1 < Length
  <2>1. Waiting' = Waiting + 1 /\ Waiting \in Nat
    BY <1>1, <1>3, LengthAssumption DEF RingType, Slots, Succ, Waiting
  <2>2. Slot(Waiting + 1) = rear
    BY <1>1, <1>3, LengthAssumption DEF RingType, Slots, Slot, Waiting
  <2>3. \A i \in 1 .. Waiting : Slot(i) \in Slots \ {rear}
    BY <1>1, <1>3, LengthAssumption DEF RingType, Slots, Slot, Waiting
  <2>4. \A i \in 1 .. Waiting' : Slot(i)' = Slot(i)
    BY <1>1 DEF Slot
  <2>5. incoming \in Clients \union {NoClient} /\ rear \in Slots
    BY <1>1 DEF TypeOK, RingType
  <2>6. \A i \in 1 .. Waiting + 1 : Queue'[i] = fd'[Slot(i)]
    BY <2>1, <2>4 DEF Queue
  <2>7. \A i \in 1 .. Waiting + 1 :
          fd'[Slot(i)] = IF i = Waiting + 1 THEN incoming ELSE fd[Slot(i)]
    BY <1>1, <2>1, <2>2, <2>3, <2>5 DEF RingType
  <2>8. \A i \in 1 .. Waiting + 1 : Queue'[i] = Append(Queue, incoming)[i]
    BY <1>2, <2>1, <2>5, <2>6, <2>7 DEF Queue
  <2>. QED
    BY <1>2, <1>3, <2>1, <2>5, <2>8
<1>4. CASE ~(Waiting + 1 < Length)
  <2>1. Waiting' = 0
    BY <1>1, <1>4, LengthAssumption DEF RingType, Slots, Succ, Waiting
  <2>. QED
    BY <1>2, <1>4, <2>1
<1>. QED
  BY <1>3, <1>4

\* The ring after a pop: the oldest client is gone and is the one popped.
LEMMA PopQueue ==
  ASSUME TypeOK, TypeOK', NEW w \in Workers, Pop(w)
  PROVE  Queue # <<>> /\ fd[front] = Head(Queue) /\ Queue' = Tail(Queue)
<1>1. RingType /\ RingType' /\ front' = Succ(front) /\ rear' = rear /\ fd' = fd
      /\ front # rear
  BY DEF TypeOK, Pop
<1>2. Queue \in Seq(Clients \union {NoClient}) /\ Len(Queue) = Waiting
      /\ Queue' \in Seq(Clients \union {NoClient}) /\ Len(Queue') = Waiting'
  BY <1>1, QueueType, QueueTypePrime DEF QueueOK
<1>3. Waiting \in Nat /\ Waiting > 0 /\ Waiting' = Waiting - 1
  BY <1>1, LengthAssumption DEF RingType, Slots, Succ, Waiting
<1>4. Queue # <<>>
  BY <1>2, <1>3
<1>5. fd[front] = Head(Queue)
  <2>1. Slot(1) = front
    BY <1>1, LengthAssumption DEF RingType, Slots, Slot
  <2>2. Queue[1] = fd[front]
    BY <1>3, <2>1 DEF Queue
  <2>. QED
    BY <1>2, <1>3, <2>2
<1>6. \A i \in 1 .. Waiting' : Slot(i)' = Slot(i + 1)
  BY <1>1, <1>3, LengthAssumption DEF RingType, Slots, Slot, Succ, Waiting
<1>7. \A i \in 1 .. Waiting' : Queue'[i] = Queue[i + 1]
  BY <1>1, <1>3, <1>6 DEF Queue
<1>8. Tail(Queue) \in Seq(Clients \union {NoClient}) /\ Len(Tail(Queue)) = Waiting - 1
      /\ \A i \in 1 .. Waiting - 1 : Tail(Queue)[i] = Queue[i + 1]
  BY <1>2, <1>4, HeadTailProperties
<1>9. Queue' = Tail(Queue)
  BY <1>2, <1>3, <1>7, <1>8
<1>. QED
  BY <1>4, <1>5, <1>9

LEMMA RefinementStep ==
  TypeOK /\ TypeOK' /\ LockInv /\ [Next]_vars => [Fifo!Next]_<<Queue, client>>
<1>. SUFFICES ASSUME TypeOK, TypeOK', LockInv, [Next]_vars
              PROVE  [Fifo!Next]_<<Queue, client>>
  OBVIOUS
<1>1. UNCHANGED ringVars => Queue' = Queue
  BY DEF ringVars, Queue, Waiting, Slot
<1>2. CASE Push
  <2>1. incoming \in Clients /\ client' = client
    BY <1>2 DEF Push, At, TypeOK, LockInv
  <2>2. Fifo!Push(incoming)
    BY <1>2, <2>1, PushQueue DEF Fifo!Push
  <2>. QED
    BY <2>1, <2>2 DEF Fifo!Next
<1>3. ASSUME NEW w \in Workers, Pop(w) PROVE [Fifo!Next]_<<Queue, client>>
  <2>1. client' = [client EXCEPT ![w] = fd[front]]
    BY <1>3 DEF Pop
  <2>2. Fifo!Pop(w)
    BY <1>3, <2>1, PopQueue DEF Fifo!Pop
  <2>. QED
    BY <2>2 DEF Fifo!Next
<1>4. ASSUME NEW w \in Workers, Finish(w) PROVE [Fifo!Next]_<<Queue, client>>
  <2>1. Fifo!Finish(w)
    BY <1>1, <1>4 DEF Finish, Fifo!Finish
  <2>. QED
    BY <2>1 DEF Fifo!Next
<1>5. CASE UNCHANGED <<ringVars, client>>
  BY <1>1, <1>5
<1>. QED
  BY <1>2, <1>3, <1>4, <1>5
     DEF Next, WorkerStep, Accept, PushLock, PushUnlock, PopLock, Wait,
         SpuriousWakeup, PopUnlock, Exit, vars

\* block_queue implements FdQueue: first in, first out, until the ring is full
\* and everything in it is lost at once.
THEOREM ImplementsFdQueue == Spec => Refinement
<1>1. Init => Fifo!Init
  <2>. SUFFICES ASSUME Init PROVE Fifo!Init
    OBVIOUS
  <2>1. RingType /\ Waiting = 0
    BY TypeInit, WaitingType DEF Init, TypeOK
  <2>2. Queue = <<>>
    BY <2>1, QueueType DEF QueueOK
  <2>. QED
    BY <2>2 DEF Init, Fifo!Init
<1>2. Init => LockInv
  BY ThreadsAssumption DEF Init, LockInv, Threads
<1>. QED
  BY <1>1, <1>2, TypeInit, TypeStep, LockStep, RefinementStep, PTL
     DEF Spec, Refinement, Fifo!Spec

=============================================================================
