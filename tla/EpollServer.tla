---------------------------- MODULE EpollServer ----------------------------
(***************************************************************************)
(* The epoll server of linux-c-np-geektime/chapter23 (epoll_server.c): one *)
(* thread, edge-triggered events.  epoll reports a descriptor once after   *)
(* something has arrived on it, so the server reads each until it is empty. *)
(* Bytes are counted; SIGPIPE is ignored.                                  *)
(***************************************************************************)
EXTENDS Integers, FiniteSets

CONSTANTS
  Callers,    \* the clients, one connection each
  ServerFd,   \* server_fd
  MaxEvents,  \* MAX_EVENTS
  ReadSize,   \* sizeof(receive_buf)
  MaxCalled   \* bound: bytes a client sends

VARIABLES
  epollAt,        \* "wait", "events", "read", "write" or "exit"
  ready,          \* the ready list: descriptors with an edge not yet reported
  events,         \* events[i ..], those not yet handled
  processing_fd,
  read_size,
  epollBacklog,   \* clients that wait for accept()
  link,           \* "none", "waiting", "open" or "closed": the connection of each client
  hangs,          \* "no", "fin", "rst" or "both": what the client has sent to close it
  called,         \* bytes each client has sent
  waiting,        \* of those, what has not been read
  returned        \* bytes each client has been sent

serverVars == <<epollAt, ready, events, processing_fd, read_size>>
callerVars == <<epollBacklog, link, hangs, called>>
epollVars  == <<serverVars, callerVars, waiting, returned>>

Fds    == Callers \union {ServerFd}
Events == [fd : Fds, failed : BOOLEAN]   \* failed: EPOLLERR or EPOLLHUP

EpollTypeOK ==
  /\ epollAt \in {"wait", "events", "read", "write", "exit"}
  /\ ready \subseteq Fds /\ events \subseteq Events /\ Cardinality(events) <= MaxEvents
  /\ processing_fd \in Fds /\ read_size \in 0 .. ReadSize
  /\ epollBacklog \subseteq Callers
  /\ link \in [Callers -> {"none", "waiting", "open", "closed"}]
  /\ hangs \in [Callers -> {"no", "fin", "rst", "both"}]
  /\ {called, waiting, returned} \subseteq [Callers -> 0 .. MaxCalled]

\* tcp_server_listen_non_blocking
Listening == epollBacklog = {} /\ link = [c \in Callers |-> "none"]

Init ==
  /\ Listening
  /\ epollAt = "wait" /\ ready = {} /\ events = {} /\ processing_fd = ServerFd /\ read_size = 0
  /\ hangs = [c \in Callers |-> "no"] /\ called = [c \in Callers |-> 0]
  /\ waiting = [c \in Callers |-> 0] /\ returned = [c \in Callers |-> 0]

Broken      == {"rst", "both"}
Arrived(c)  == waiting[c] > 0 \/ hangs[c] # "no"
Happened(f) == IF f = ServerFd THEN epollBacklog # {} ELSE Arrived(f)
EventOf(f)  == [fd |-> f, failed |-> f # ServerFd /\ hangs[f] \in Broken]

-----------------------------------------------------------------------------
(* The server                                                              *)

\* A descriptor whose edge was followed by a read that took all is not reported.
EpollWait ==
  /\ epollAt = "wait"
  /\ \E reported \in SUBSET {f \in ready : Happened(f)} :
       /\ reported # {} /\ Cardinality(reported) <= MaxEvents
       /\ Cardinality(reported) = MaxEvents \/ reported = {f \in ready : Happened(f)}
       /\ events' = {EventOf(f) : f \in reported}
       /\ ready' = {f \in ready : Happened(f)} \ reported
  /\ epollAt' = "events"
  /\ UNCHANGED <<processing_fd, read_size, callerVars, waiting, returned>>

AllHandled ==
  /\ epollAt = "events" /\ events = {} /\ epollAt' = "wait"
  /\ UNCHANGED <<ready, events, processing_fd, read_size, callerVars, waiting, returned>>

\* epoll forgets a descriptor that is closed.
Close(c) == link' = [link EXCEPT ![c] = "closed"] /\ ready' = ready \ {c}

Failed ==
  /\ epollAt = "events"
  /\ \E e \in events : e.failed /\ events' = events \ {e} /\ Close(e.fd)
  /\ UNCHANGED <<epollAt, processing_fd, read_size, epollBacklog, hangs, called, waiting, returned>>

\* One connection is accepted for an edge; more that have come wait for the next.
\* A socket that is added is ready if something has arrived on it.
Accept ==
  /\ epollAt = "events"
  /\ events' = {e \in events : e.fd # ServerFd} /\ events' # events
  /\ \E c \in epollBacklog :
       /\ epollBacklog' = epollBacklog \ {c} /\ link' = [link EXCEPT ![c] = "open"]
       /\ ready' = IF Arrived(c) THEN ready \union {c} ELSE ready
  /\ UNCHANGED <<epollAt, processing_fd, read_size, hangs, called, waiting, returned>>

Process ==
  /\ epollAt = "events"
  /\ \E e \in events :
       /\ e.fd # ServerFd /\ ~e.failed
       /\ events' = events \ {e} /\ processing_fd' = e.fd
  /\ epollAt' = "read"
  /\ UNCHANGED <<ready, read_size, callerVars, waiting, returned>>

Read ==
  /\ epollAt = "read" /\ waiting[processing_fd] > 0
  /\ read_size' = IF waiting[processing_fd] < ReadSize THEN waiting[processing_fd] ELSE ReadSize
  /\ waiting' = [waiting EXCEPT ![processing_fd] = @ - read_size']
  /\ epollAt' = "write"
  /\ UNCHANGED <<ready, events, processing_fd, callerVars, returned>>

\* EAGAIN; 0, also for a reset after a FIN; or ECONNRESET, which ends the server.
ReadNothing ==
  /\ epollAt = "read" /\ waiting[processing_fd] = 0
  /\ IF hangs[processing_fd] = "no" THEN UNCHANGED <<link, ready>> ELSE Close(processing_fd)
  /\ epollAt' = IF hangs[processing_fd] = "rst" THEN "exit" ELSE "events"
  /\ UNCHANGED <<events, processing_fd, read_size, epollBacklog, hangs, called, waiting, returned>>

\* Mutant of Again: the descriptor is read once for an event.
Once == "events"
Again == "read"

\* What a short write leaves is dropped.
Write ==
  /\ epollAt = "write" /\ hangs[processing_fd] \notin Broken
  /\ \E n \in 1 .. read_size : returned' = [returned EXCEPT ![processing_fd] = @ + n]
  /\ epollAt' = Again
  /\ UNCHANGED <<ready, events, processing_fd, read_size, callerVars, waiting>>

\* A client that takes nothing (EAGAIN) or has reset its connection ends the server.
WriteFails ==
  /\ epollAt = "write" /\ epollAt' = "exit"
  /\ UNCHANGED <<ready, events, processing_fd, read_size, callerVars, waiting, returned>>

-----------------------------------------------------------------------------
(* The clients; what reaches a registered descriptor makes an edge.        *)

Edge(c) == ready' = IF link[c] = "open" THEN ready \union {c} ELSE ready

Arrive(c) ==
  /\ epollAt # "exit" /\ link[c] = "none"
  /\ link' = [link EXCEPT ![c] = "waiting"] /\ epollBacklog' = epollBacklog \union {c}
  /\ ready' = ready \union {ServerFd}
  /\ UNCHANGED <<epollAt, events, processing_fd, read_size, hangs, called, waiting, returned>>

Call(c) ==
  /\ epollAt # "exit" /\ link[c] \in {"waiting", "open"} /\ hangs[c] = "no" /\ called[c] < MaxCalled
  /\ called' = [called EXCEPT ![c] = @ + 1] /\ waiting' = [waiting EXCEPT ![c] = @ + 1]
  /\ Edge(c)
  /\ UNCHANGED <<epollAt, events, processing_fd, read_size, epollBacklog, link, hangs, returned>>

HangUp(c) ==
  /\ epollAt # "exit" /\ link[c] \in {"waiting", "open"}
  /\ \/ hangs[c] = "no" /\ hangs' = [hangs EXCEPT ![c] = "fin"]
     \/ hangs[c] = "no" /\ hangs' = [hangs EXCEPT ![c] = "rst"]
     \/ hangs[c] = "fin" /\ hangs' = [hangs EXCEPT ![c] = "both"]
  /\ Edge(c)
  /\ UNCHANGED <<epollAt, events, processing_fd, read_size, epollBacklog, link, called, waiting, returned>>

-----------------------------------------------------------------------------
EpollLoop ==
  \/ EpollWait \/ AllHandled \/ Failed \/ Accept \/ Process
  \/ Read \/ ReadNothing \/ Write \/ WriteFails

Next == EpollLoop \/ \E c \in Callers : Arrive(c) \/ Call(c) \/ HangUp(c)

Spec == Init /\ [][Next]_epollVars

-----------------------------------------------------------------------------
\* No open connection is forgotten with bytes or an end of stream to read, which
\* nothing would report again: its edge is still to be reported, it is among the
\* events to handle, or it is being read.
NothingForgotten ==
  epollAt # "exit" =>
    \A c \in Callers : link[c] = "open" /\ Arrived(c) =>
      \/ c \in ready \/ \E e \in events : e.fd = c
      \/ epollAt \in {"read", "write"} /\ processing_fd = c
=============================================================================
