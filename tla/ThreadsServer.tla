--------------------------- MODULE ThreadsServer ---------------------------
(***************************************************************************)
(* The thread-per-client server of linux-c-np-geektime/chapter26           *)
(* (threads_server.c, loop_echo.c).  Every thread is given the address of  *)
(* main's variable client_fd and reads it when it gets to run, which may   *)
(* be after main has accepted the next client into it.                     *)
(*                                                                         *)
(* Descriptors are never closed, so each client has a number of its own.   *)
(* SIGPIPE is ignored (tcp_server_listen), and what send() returns is not  *)
(* looked at.                                                              *)
(***************************************************************************)
EXTENDS Integers, Sequences, FiniteSets, TextLines

CONSTANTS
  MaxClients,  \* bound: clients that connect, one at least
  MaxBytes,    \* bound: bytes they send, one or all of them together
  BufSize      \* sizeof(output_buf), MAX_LINE + 1

Clients == 1 .. MaxClients  \* by the descriptor accept() returns for them

VARIABLES
  pc,         \* main: "accept" or "create"; "exited": error() has ended the process
  client_fd,  \* main's variable, 0 before the first accept
  accepted,   \* clients accept() has returned
  threadPc,   \* thread t was created for client t: "none", "start", "recv", "end"
  fd,         \* the thread's own client_fd
  buf,        \* the thread's output_buf up to output_buf_used
  unread,     \* what each client has sent and no thread has received
  heard,      \* history: what of each client the threads have received
  answers,    \* the lines send() was called with for each client
  hungUp,     \* clients that have closed their side: recv returns 0 at the end
  broken      \* clients that have reset the connection: recv returns -1 at the end

mainVars   == <<pc, client_fd, accepted>>
threadVars == <<threadPc, fd, buf>>
clientVars == <<unread, heard, answers, hungUp, broken>>
threadsVars == <<mainVars, threadVars, clientVars>>

\* "n" ends a line; the answer to a byte, its rot13, is written like the byte.
Chars == {"x", "n"}

ThreadsTypeOK ==
  /\ pc \in {"accept", "create", "exited"}
  /\ client_fd \in Clients \union {0} /\ accepted \in 0 .. MaxClients
  /\ threadPc \in [Clients -> {"none", "start", "recv", "end"}]
  /\ fd \in [Clients -> Clients \union {0}]
  /\ \A t \in Clients : buf[t] \in Seq(Chars) /\ Len(buf[t]) <= BufSize
  /\ \A c \in Clients : {unread[c], heard[c]} \subseteq Seq(Chars)
  /\ \A c \in Clients : answers[c] \in Seq(Seq(Chars))
  /\ hungUp \subseteq Clients /\ broken \subseteq Clients

Init ==
  /\ pc = "accept" /\ client_fd = 0 /\ accepted = 0
  /\ threadPc = [t \in Clients |-> "none"]
  /\ fd = [t \in Clients |-> 0] /\ buf = [t \in Clients |-> <<>>]
  /\ unread = [c \in Clients |-> <<>>] /\ heard = [c \in Clients |-> <<>>]
  /\ answers = [c \in Clients |-> <<>>] /\ hungUp = {} /\ broken = {}

-----------------------------------------------------------------------------
Accept ==
  /\ pc = "accept" /\ accepted < MaxClients
  /\ accepted' = accepted + 1 /\ client_fd' = accepted'
  /\ pc' = "create"
  /\ UNCHANGED <<threadVars, clientVars>>

\* error(1, ...) ends the whole process.
AcceptFails ==
  /\ pc = "accept" /\ pc' = "exited"
  /\ UNCHANGED <<client_fd, accepted, threadVars, clientVars>>

CreateThread ==
  /\ pc = "create" /\ pc' = "accept"
  /\ threadPc' = [threadPc EXCEPT ![accepted] = "start"]
  /\ UNCHANGED <<client_fd, accepted, fd, buf, clientVars>>

At(t, label) == pc # "exited" /\ threadPc[t] = label

\* handle_client reads the variable it was given the address of.
Start(t) ==
  /\ At(t, "start")
  /\ threadPc' = [threadPc EXCEPT ![t] = "recv"]
  /\ fd' = [fd EXCEPT ![t] = client_fd]
  /\ UNCHANGED <<mainVars, buf, clientVars>>

\* Mutant of Stored: the size of the buffer is not checked.
StoredUnchecked(s, ch) == Append(s, ch)

\* What does not fit in output_buf is dropped.
Stored(s, ch) == IF Len(s) < BufSize THEN Append(s, ch) ELSE s

\* send() to a connection that was reset fails; the error is then told of, and
\* recv returns 0 from now on.
Sent(c, line) ==
  /\ answers' = [answers EXCEPT ![c] = Append(@, line)]
  /\ broken' = broken \ {c}
  /\ hungUp' = IF c \in broken THEN hungUp \union {c} ELSE hungUp

\* recv returns the next byte.
Byte(t) ==
  LET c == fd[t] IN
  /\ At(t, "recv") /\ unread[c] # <<>>
  /\ unread' = [unread EXCEPT ![c] = Tail(@)]
  /\ heard' = [heard EXCEPT ![c] = Append(@, Head(unread[c]))]

\* Mutant of Recv: output_buf_used is not set back to 0.
RecvKeeps(t) ==
  LET c == fd[t] IN
  /\ Byte(t)
  /\ buf' = [buf EXCEPT ![t] = Stored(@, Head(unread[c]))]
  /\ IF Head(unread[c]) = "n" THEN Sent(c, buf'[t]) ELSE UNCHANGED <<answers, hungUp, broken>>
  /\ UNCHANGED <<mainVars, threadPc, fd>>

\* One byte; at the end of a line the buffer is sent back.
Recv(t) ==
  LET c    == fd[t]
      line == Stored(buf[t], Head(unread[c])) IN
  /\ Byte(t)
  /\ IF Head(unread[c]) = "n"
     THEN Sent(c, line) /\ buf' = [buf EXCEPT ![t] = <<>>]
     ELSE buf' = [buf EXCEPT ![t] = line] /\ UNCHANGED <<answers, hungUp, broken>>
  /\ UNCHANGED <<mainVars, threadPc, fd>>

\* recv returns 0: every thread of that client ends, the descriptor stays.
Disconnected(t) ==
  /\ At(t, "recv") /\ unread[fd[t]] = <<>> /\ fd[t] \in hungUp
  /\ threadPc' = [threadPc EXCEPT ![t] = "end"]
  /\ UNCHANGED <<mainVars, fd, buf, clientVars>>

\* recv returns -1: error(1, ...) ends the process, and with it every thread.
RecvFails(t) ==
  /\ At(t, "recv") /\ unread[fd[t]] = <<>> /\ fd[t] \in broken
  /\ pc' = "exited"
  /\ UNCHANGED <<client_fd, accepted, threadVars, clientVars>>

-----------------------------------------------------------------------------
\* What clients do when the process has ended is of no account.
Connected(c) == pc # "exited" /\ c <= accepted /\ c \notin hungUp \union broken

\* All that has been sent.
Bytes == UNION {{c} \X (1 .. Len(heard[c]) + Len(unread[c])) : c \in Clients}

ClientSends(c) ==
  /\ Connected(c) /\ Cardinality(Bytes) < MaxBytes
  /\ \E ch \in Chars : unread' = [unread EXCEPT ![c] = Append(@, ch)]
  /\ UNCHANGED <<mainVars, threadVars, heard, answers, hungUp, broken>>

ClientHangsUp(c) ==
  /\ Connected(c) /\ hungUp' = hungUp \union {c}
  /\ UNCHANGED <<mainVars, threadVars, unread, heard, answers, broken>>

\* What has arrived before the reset can still be received.
ClientResets(c) ==
  /\ Connected(c) /\ broken' = broken \union {c}
  /\ UNCHANGED <<mainVars, threadVars, unread, heard, answers, hungUp>>

MainThread == Accept \/ AcceptFails \/ CreateThread
Thread(t)  == Start(t) \/ Recv(t) \/ Disconnected(t) \/ RecvFails(t)
Client(c)  == ClientSends(c) \/ ClientHangsUp(c) \/ ClientResets(c)

Next ==
  \/ MainThread
  \/ \E c \in Clients : Thread(c) \/ Client(c)

Spec == Init /\ [][Next]_threadsVars

-----------------------------------------------------------------------------
Servers(c) == {t \in Clients : fd[t] = c}

\* A client that one thread serves, its own or a late one, gets its lines back
\* one by one and in order: each whole, with its newline, if it fits in the buffer,
\* or else its start, and the line after a too long one is none the worse for it.
LinesComeBack ==
  \A c, t \in Clients :
    Servers(c) = {t} => WithBegun(answers[c], buf[t]) = Starts(heard[c], BufSize)

\* The thread started for a client serves that client.
OwnClient == \A t \in Clients : threadPc[t] = "recv" => fd[t] = t
=============================================================================
