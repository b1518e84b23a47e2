--------------------------- MODULE TcpConnection ---------------------------
(***************************************************************************)
(* One tcp_connection of linux-c-np-geektime/lib (tcp_connection.c and the *)
(* two calls of channel.c it makes) with the echo application of chapters  *)
(* 27 to 29, the epoll loop that drives it and the client at the other     *)
(* end.                                                                    *)
(*                                                                         *)
(* A byte is its position in what the client sends; the answer to byte n   *)
(* (its rot13) is written n.  A buffer is the sequence of its readable     *)
(* bytes, which is what module Buffer shows it to be.  Callbacks run in    *)
(* the loop's thread, but the client and the network act between any two   *)
(* system calls.                                                           *)
(***************************************************************************)
EXTENDS Integers, Sequences

CONSTANTS
  MaxBytes,     \* bound: bytes the client sends
  SendCap,      \* bytes the socket takes before write() returns EWOULDBLOCK
  ChannelData,  \* what channel->data points to
  PeerActs      \* which of AllPeerActs the client does besides send and read

\* "finish": shutdown(SHUT_WR), the client goes on reading
\* "reset":  the connection is reset: the client crashed, or closed its socket
AllPeerActs == {"finish", "reset"}

ASSUME BoundsAssumption == MaxBytes \in Nat /\ SendCap \in Nat \ {0}

\* tcp_connection_new passes the connection; channel_event_enable_write and
\* channel_event_disable_write need the loop.
ASSUME DataAssumption == ChannelData \in {"connection", "loop"}
ASSUME PeerAssumption == PeerActs \subseteq AllPeerActs

VARIABLES
  sent,      \* bytes the client has sent
  received,  \* bytes the client has read
  toServer,  \* bytes in the receive queue of the socket
  toClient,  \* bytes in the send queue of the socket
  fin,       \* the client's FIN has arrived
  rst,       \* its RST: "no", "pending" while the socket error is unread, "seen"
  input,     \* connection->input_buffer
  output,    \* connection->output_buffer
  events,    \* channel->events
  interest,  \* what epoll reports for the descriptor, {} when not registered
  ready,     \* events of the entry being dispatched that are still to come
  open,      \* the descriptor is open
  closings,  \* how often on_connection_closed was called
  pc,        \* "new", "wait", "dispatch", or "send" between readv and write
  proc       \* "running", "crashed" or "killed" by SIGPIPE

peerVars == <<sent, received, fin>>
sockVars == <<toServer, toClient, rst>>
connVars == <<input, output, events>>
loopVars == <<interest, ready, open, closings, pc>>
vars == <<peerVars, sockVars, connVars, loopVars, proc>>

Events == {"READ", "WRITE"}

TypeOK ==
  /\ sent \in 0 .. MaxBytes
  /\ \A s \in {received, toServer, toClient, input, output} : s \in Seq(1 .. sent)
  /\ Len(toClient) <= SendCap
  /\ fin \in BOOLEAN /\ open \in BOOLEAN
  /\ rst \in {"no", "pending", "seen"}
  /\ events \in SUBSET Events /\ interest \in SUBSET Events /\ ready \in SUBSET Events
  /\ closings \in Nat
  /\ pc \in {"new", "wait", "dispatch", "send"}
  /\ proc \in {"running", "crashed", "killed"}

\* tcp_connection_new, up to the call that adds the channel to the loop
Init ==
  /\ sent = 0 /\ received = <<>> /\ toServer = <<>> /\ toClient = <<>>
  /\ fin = FALSE /\ rst = "no"
  /\ input = <<>> /\ output = <<>> /\ events = {"READ"}
  /\ interest = {} /\ ready = {} /\ open = TRUE /\ closings = 0
  /\ pc = "new" /\ proc = "running"

At(label) == proc = "running" /\ pc = label

Dropped(s, n) == SubSeq(s, n + 1, Len(s))
Free == SendCap - Len(toClient)

-----------------------------------------------------------------------------
(* The client                                                              *)

PeerSend ==
  /\ sent < MaxBytes /\ ~fin /\ rst = "no"
  /\ sent' = sent + 1
  /\ toServer' = Append(toServer, sent')
  /\ UNCHANGED <<received, fin, toClient, rst, connVars, loopVars, proc>>

PeerRead ==
  /\ toClient # <<>> /\ rst = "no"
  /\ received' = Append(received, Head(toClient))
  /\ toClient' = Tail(toClient)
  /\ UNCHANGED <<sent, fin, toServer, rst, connVars, loopVars, proc>>

PeerFinish ==
  /\ "finish" \in PeerActs /\ ~fin /\ rst = "no"
  /\ fin' = TRUE
  /\ UNCHANGED <<sent, received, sockVars, connVars, loopVars, proc>>

\* An RST discards what was still to be sent.
PeerReset ==
  /\ "reset" \in PeerActs /\ rst = "no" /\ open
  /\ rst' = "pending" /\ toClient' = <<>>
  /\ UNCHANGED <<peerVars, toServer, connVars, loopVars, proc>>

-----------------------------------------------------------------------------
(* The loop                                                                *)

\* The ADD posted by tcp_connection_new is handled.
Established ==
  /\ At("new")
  /\ interest' = events /\ pc' = "wait"
  /\ UNCHANGED <<peerVars, sockVars, connVars, ready, open, closings, proc>>

ReadyNow ==
  {e \in interest : \/ e = "READ"  /\ (toServer # <<>> \/ fin)
                    \/ e = "WRITE" /\ Free > 0}

\* epoll_wait.  After an RST the entry carries EPOLLERR or EPOLLHUP, and the
\* dispatcher closes the descriptor without calling anyone.
Wait ==
  /\ At("wait") /\ interest # {}
  /\ \/ /\ rst # "no"
        /\ open' = FALSE /\ interest' = {}
        /\ UNCHANGED <<ready, pc>>
     \/ /\ rst = "no" /\ ReadyNow # {}
        /\ ready' = ReadyNow /\ pc' = "dispatch"
        /\ UNCHANGED <<open, interest>>
  /\ UNCHANGED <<peerVars, sockVars, connVars, closings, proc>>

\* event_loop_active for each event; the next round when all are delivered.
\* The channel may have left the channel_map in the meantime.
Dispatched ==
  /\ At("dispatch")
  /\ ready = {} \/ interest = {}
  /\ ready' = {} /\ pc' = "wait"
  /\ UNCHANGED <<peerVars, sockVars, connVars, interest, open, closings, proc>>

-----------------------------------------------------------------------------
(* handle_read and the application                                         *)

\* Mutant of Closed: the channel stays registered.
ClosedKeeps == closings' = closings + 1 /\ UNCHANGED interest

\* handle_connection_closed: the channel leaves the loop, the application is
\* told.  Nobody closes the descriptor.
Closed ==
  /\ interest' = {}
  /\ closings' = closings + 1

\* readv: data first, then the error or the end of the stream.
HandleRead ==
  /\ At("dispatch") /\ "READ" \in ready /\ interest # {}
  /\ ready' = ready \ {"READ"}
  /\ \/ \E n \in 1 .. Len(toServer) :
          /\ input' = input \o SubSeq(toServer, 1, n)
          /\ toServer' = Dropped(toServer, n)
          /\ pc' = "send"
          /\ UNCHANGED <<rst, interest, closings>>
     \/ /\ toServer = <<>>
        /\ rst' = IF rst = "pending" /\ ~fin THEN "seen" ELSE rst
        /\ Closed
        /\ UNCHANGED <<input, toServer, pc>>
  /\ UNCHANGED <<peerVars, toClient, output, events, open, proc>>

\* channel_event_enable_write, channel_event_disable_write.  With the
\* connection taken for a loop its bytes are taken for a mutex, a flag and a
\* list: the mutex never opens, the assertion fails or the tail of the list is
\* written where the code of a callback is.  This thread gets no further.
SetEvents(evs) ==
  /\ events' = evs
  /\ IF ChannelData = "loop"
     THEN interest' = (IF interest = {} THEN {} ELSE evs) /\ UNCHANGED proc
     ELSE proc' = "crashed" /\ UNCHANGED interest

\* Mutants of Buffered: the bytes are buffered whether written or not; the
\* WRITE event is not asked for.
BufferedAll(data, n) ==
  /\ output' = output \o data
  /\ IF "WRITE" \in events THEN UNCHANGED <<events, interest, proc>>
     ELSE SetEvents(events \union {"WRITE"})
BufferedSilent(data, n) ==
  /\ output' = output \o Dropped(data, n)
  /\ UNCHANGED <<events, interest, proc>>

\* The n bytes of data were written, the rest goes to output_buffer.
Buffered(data, n) ==
  IF n = Len(data) THEN UNCHANGED <<output, events, interest, proc>>
  ELSE /\ output' = output \o Dropped(data, n)
       /\ IF "WRITE" \in events THEN UNCHANGED <<events, interest, proc>>
          ELSE SetEvents(events \union {"WRITE"})

\* write() on a socket that has received an RST: the first call learns
\* ECONNRESET unless the FIN came before, every other call raises SIGPIPE,
\* which the servers built on acceptor_init do not ignore.
WriteFails ==
  /\ rst # "no"
  /\ \/ /\ rst = "pending" /\ ~fin
        /\ rst' = "seen"
        /\ UNCHANGED proc
     \/ /\ rst = "seen" \/ fin
        /\ proc' = "killed"
        /\ UNCHANGED rst
  /\ UNCHANGED <<toClient, output, events, interest>>

\* Nothing waits to be written, so it is tried directly.
WriteNow == "WRITE" \notin events /\ output = <<>>

\* on_new_message answers all of input_buffer with tcp_connection_send_buffer.
Send ==
  /\ At("send")
  /\ \/ /\ WriteNow /\ rst = "no"
        /\ \E n \in (IF Free = 0 THEN {0} ELSE 1 .. Len(input)) :
             /\ n <= Free
             /\ toClient' = toClient \o SubSeq(input, 1, n)
             /\ Buffered(input, n)
        /\ UNCHANGED rst
     \/ WriteNow /\ WriteFails
     \/ /\ ~WriteNow
        /\ Buffered(input, 0)
        /\ UNCHANGED <<toClient, rst>>
  /\ input' = <<>>
  /\ pc' = "dispatch"
  /\ UNCHANGED <<peerVars, toServer, ready, open, closings>>

Written(n) ==
  /\ output' = Dropped(output, n)
  /\ IF output' = <<>> THEN SetEvents(events \ {"WRITE"})
     ELSE UNCHANGED <<events, interest, proc>>

HandleWrite ==
  /\ At("dispatch") /\ "WRITE" \in ready /\ "READ" \notin ready /\ interest # {}
  /\ ready' = ready \ {"WRITE"}
  /\ \/ /\ rst = "no" /\ Free = 0
        /\ UNCHANGED <<toClient, rst, output, events, interest, proc>>
     \/ /\ rst = "no"
        /\ \E n \in 1 .. Len(output) :
             /\ n <= Free
             /\ toClient' = toClient \o SubSeq(output, 1, n)
             /\ Written(n)
        /\ UNCHANGED rst
     \/ WriteFails
  /\ UNCHANGED <<peerVars, toServer, input, open, closings, pc>>

-----------------------------------------------------------------------------
Peer == PeerSend \/ PeerRead \/ PeerFinish \/ PeerReset

Loop ==
  \/ Established \/ Wait \/ Dispatched
  \/ HandleRead \/ Send \/ HandleWrite

Next == Peer \/ Loop

Spec == Init /\ [][Next]_vars

\* The loop's thread runs, and the client reads what arrives.
FairSpec == Spec /\ WF_vars(Loop) /\ WF_vars(PeerRead)

-----------------------------------------------------------------------------
Upto(n) == [i \in 1 .. n |-> i]

\* No byte is lost, doubled or overtaken on its way through both socket
\* queues and both buffers, as long as the connection is not reset.
BytesConserved ==
  rst = "no" =>
    received \o toClient \o output \o input \o toServer = Upto(sent)

\* The application is told once that the connection is closed, and not at all
\* when the dispatcher closed the descriptor itself.  A client that only
\* finishes is heard to the end first: by then all it has sent was read and
\* handed over, though answers may wait in output for ever.
ClosedOnce ==
  /\ closings <= (IF open THEN 1 ELSE 0)
  /\ closings = 1 /\ rst = "no" => toServer = <<>> /\ input = <<>>

\* Every byte is answered, unless the client stops sending or reading.
EveryByteAnswered ==
  \A n \in 1 .. MaxBytes :
    sent >= n ~> Len(received) >= n \/ fin \/ rst # "no" \/ proc # "running"

\* The process gets past channel_event_enable_write.
NeverCrashes == proc # "crashed"

\* A connection the client resets costs no more than that connection.
NeverKilled == proc # "killed"

\* Once the client has finished, its connection is closed.
FinishedIsClosed == fin ~> ~open \/ rst # "no" \/ proc # "running"
=============================================================================
