------------------------------ MODULE FdQueue ------------------------------
(***************************************************************************)
(* What the block_queue of chapter26/thread_pool_server.c really promises: *)
(* clients come out in the order they went in, each to one worker, as long *)
(* as fewer than Length of them wait.  The push that makes Length clients  *)
(* wait brings rear round to front, and an empty ring is what remains.     *)
(***************************************************************************)
EXTENDS Integers, Sequences

CONSTANTS
  Workers,   \* the threads that run server_task
  Clients,   \* file descriptors accept returns
  Length,    \* BLOCK_QUEUE_SIZE
  NoClient

VARIABLES
  queue,     \* clients waiting, first in first out
  client     \* the client each worker took last and still serves

Init ==
  /\ queue = <<>>
  /\ client = [w \in Workers |-> NoClient]

Push(c) ==
  /\ queue' = IF Len(queue) + 1 < Length THEN Append(queue, c) ELSE <<>>
  /\ UNCHANGED client

Pop(w) ==
  /\ queue # <<>>
  /\ client' = [client EXCEPT ![w] = Head(queue)]
  /\ queue' = Tail(queue)

Finish(w) ==
  /\ client' = [client EXCEPT ![w] = NoClient]
  /\ UNCHANGED queue

Next ==
  \/ \E c \in Clients : Push(c)
  \/ \E w \in Workers : Pop(w) \/ Finish(w)

Spec == Init /\ [][Next]_<<queue, client>>
=============================================================================
