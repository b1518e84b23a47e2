----------------------------- MODULE NioServer -----------------------------
(***************************************************************************)
(* The select server of linux-c-np-geektime/chapter22 (nio_server.c): one  *)
(* thread, non-blocking sockets, a buffer for every descriptor.            *)
(*                                                                         *)
(* The variable result of the loop over the clients is not initialised: it *)
(* is any number for a client that is neither in read_set nor in write_set. *)
(***************************************************************************)
EXTENDS Integers, Sequences, FiniteSets

CONSTANTS
  Peers, NoPeer,   \* the clients, one connection each
  FdInitSize,      \* FD_INIT_SIZE; server_fd is 0, others are above it
  MaxLine,         \* MAX_LINE: the bytes a buffer holds
  MaxSaid,         \* bound: bytes a client sends
  LineLength       \* bound: every line has this length

Fds == 1 .. FdInitSize

VARIABLES
  nioAt,       \* "select", "accept"; "read", "write", "result": the loop over the
               \* clients; "exit", "undefined": the end of the program
  max_fd, read_set, write_set,
  i,           \* of the loop over the clients
  result,      \* "continue" (0), "exit" (not 0), or "any" before it is assigned
  client,      \* who is connected as buffers[fd]->connect_fd, NoPeer if it is -1
  open,        \* open descriptors
  line,        \* buffer[0 .. write_index) of each fd
  read_index, readable,
  arrivals,    \* clients that wait for accept()
  said,        \* bytes each client has sent
  toRead,      \* of those, what has not been read
  hangup,      \* "no", "fin" or "rst": the state of each client's side
  abandoned,   \* history: clients of whom bytes were abandoned
  echoed       \* history: what each client has been sent

bufferVars == <<line, read_index, readable, abandoned, echoed>>
peerVars   == <<arrivals, said, hangup>>
loopVars   == <<nioAt, max_fd, read_set, write_set, i, result>>
nioVars    == <<loopVars, client, open, bufferVars, peerVars, toRead>>

\* A byte is known by its sender and its number.
Bytes == [from : Peers, no : 1 .. MaxSaid]
EndsLine(b) == b.no % LineLength = 0

NioTypeOK ==
  /\ nioAt \in {"select", "accept", "read", "write", "result", "exit", "undefined"}
  /\ max_fd \in 0 .. FdInitSize /\ i \in 0 .. FdInitSize
  /\ result \in {"any", "continue", "exit"}
  /\ read_set \subseteq 0 .. FdInitSize /\ write_set \subseteq Fds /\ open \subseteq Fds
  /\ client \in [Fds -> Peers \union {NoPeer}]
  /\ \A f \in Fds : line[f] \in Seq(Bytes) /\ read_index[f] \in 0 .. Len(line[f]) /\ Len(line[f]) <= MaxLine
  /\ readable \in [Fds -> BOOLEAN]
  /\ arrivals \subseteq Peers /\ abandoned \subseteq Peers
  /\ said \in [Peers -> 0 .. MaxSaid] /\ hangup \in [Peers -> {"no", "fin", "rst"}]
  /\ \A p \in Peers : {toRead[p], echoed[p]} \subseteq Seq(Bytes)

Init ==
  /\ nioAt = "select" /\ max_fd = 0 /\ read_set = {} /\ write_set = {} /\ i = 0
  /\ result = "any"
  /\ client = [f \in Fds |-> NoPeer] /\ open = {}
  /\ line = [f \in Fds |-> <<>>] /\ read_index = [f \in Fds |-> 0]
  /\ readable = [f \in Fds |-> FALSE]
  /\ arrivals = {} /\ said = [p \in Peers |-> 0] /\ toRead = [p \in Peers |-> <<>>]
  /\ hangup = [p \in Peers |-> "no"] /\ abandoned = {}
  /\ echoed = [p \in Peers |-> <<>>]

-----------------------------------------------------------------------------
Connected == {f \in Fds : client[f] # NoPeer}
Largest(S) == CHOOSE f \in S : \A g \in S : g <= f
Smallest(S) == CHOOSE f \in S : \A g \in S : f <= g

CanRead(f) == toRead[client[f]] # <<>> \/ hangup[client[f]] # "no"

\* The sockets that have room, of those with a whole line to send, are any.
Select ==
  /\ nioAt = "select"
  /\ read_set' = {f \in Connected : CanRead(f)} \union (IF arrivals # {} THEN {0} ELSE {})
  /\ write_set' \in SUBSET {f \in Connected : readable[f]}
  /\ read_set' # {} \/ write_set' # {}
  /\ max_fd' = Largest(Connected \union {0})
  /\ IF 0 \in read_set' THEN nioAt' = "accept" /\ i' = 0
     ELSE nioAt' = "read" /\ i' = Smallest(Connected)
  /\ UNCHANGED <<result, client, open, bufferVars, peerVars, toRead>>

\* The loop goes on after f, up to max_fd as it was before accept(); then what
\* it used is set anew.
GoOn(f) ==
  LET rest == {g \in Fds : g > f /\ g <= max_fd /\ client'[g] # NoPeer} IN
  /\ result' = "any"
  /\ IF rest # {}
     THEN nioAt' = "read" /\ i' = Smallest(rest) /\ UNCHANGED <<max_fd, read_set, write_set>>
     ELSE nioAt' = "select" /\ i' = 0 /\ max_fd' = 0 /\ read_set' = {} /\ write_set' = {}

\* accept() returns the smallest free descriptor.  The check lets FD_INIT_SIZE
\* through, and buffers[FD_INIT_SIZE] is read.
Accept ==
  /\ nioAt = "accept"
  /\ \E p \in arrivals : LET fd == Smallest((1 .. FdInitSize + 1) \ open) IN
       /\ arrivals' = arrivals \ {p}
       /\ IF fd < FdInitSize /\ client[fd] = NoPeer
          THEN client' = [client EXCEPT ![fd] = p] /\ open' = open \union {fd} /\ GoOn(0)
          ELSE /\ nioAt' = IF fd = FdInitSize THEN "undefined" ELSE "exit"
               /\ UNCHANGED <<client, open, max_fd, read_set, write_set, i, result>>
  /\ UNCHANGED <<bufferVars, said, hangup, toRead>>

-----------------------------------------------------------------------------
(* The loop over the clients                                               *)

NotReadable ==
  /\ nioAt = "read" /\ i \notin read_set /\ nioAt' = "write"
  /\ UNCHANGED <<max_fd, read_set, write_set, i, result, client, open, bufferVars, peerVars, toRead>>

NotWriteable ==
  /\ nioAt = "write" /\ i \notin write_set /\ nioAt' = "result"
  /\ UNCHANGED <<max_fd, read_set, write_set, i, result, client, open, bufferVars, peerVars, toRead>>

\* on_socket_readable: the socket is read until it is empty; what does not fit
\* in the buffer is abandoned.
OnSocketReadable ==
  LET p    == client[i]
      room == MaxLine - Len(line[i])
      fits == SubSeq(toRead[p], 1, IF Len(toRead[p]) < room THEN Len(toRead[p]) ELSE room) IN
  /\ nioAt = "read" /\ i \in read_set
  /\ line' = [line EXCEPT ![i] = @ \o fits]
  /\ abandoned' = IF fits = toRead[p] THEN abandoned ELSE abandoned \union {p}
  /\ readable' = [readable EXCEPT ![i] = @ \/ \E n \in 1 .. Len(toRead[p]) : EndsLine(toRead[p][n])]
  /\ toRead' = [toRead EXCEPT ![p] = <<>>]
  /\ result' = IF hangup[p] = "no" THEN "continue" ELSE "exit"
  /\ nioAt' = "write"
  /\ UNCHANGED <<max_fd, read_set, write_set, i, client, open, read_index, echoed, peerVars>>

\* Mutant of PartlySent: write_size is not added.
NotAdded(f, n) == UNCHANGED <<read_index, line, readable>>

PartlySent(f, n) ==
  read_index' = [read_index EXCEPT ![f] = @ + n] /\ UNCHANGED <<line, readable>>

\* Everything has been sent.
Drained(f) ==
  /\ line' = [line EXCEPT ![f] = <<>>] /\ readable' = [readable EXCEPT ![f] = FALSE]
  /\ read_index' = [read_index EXCEPT ![f] = 0]

\* on_socket_writeable: the socket takes the next n bytes and no more.  Its
\* result replaces that of the read.
OnSocketWriteable ==
  /\ nioAt = "write" /\ i \in write_set /\ hangup[client[i]] # "rst"
  /\ \E n \in 0 .. Len(line[i]) - read_index[i] :
       /\ echoed' = [echoed EXCEPT ![client[i]] = @ \o SubSeq(line[i], read_index[i] + 1, read_index[i] + n)]
       /\ IF read_index[i] + n = Len(line[i])
          THEN Drained(i)
          ELSE PartlySent(i, n)
  /\ result' = "continue" /\ nioAt' = "result"
  /\ UNCHANGED <<max_fd, read_set, write_set, i, client, open, abandoned, peerVars, toRead>>

\* SIGPIPE is ignored: a connection that has been reset is an error of send().
WriteFails ==
  /\ nioAt = "write" /\ i \in write_set /\ hangup[client[i]] = "rst"
  /\ result' = "exit" /\ nioAt' = "result"
  /\ UNCHANGED <<max_fd, read_set, write_set, i, client, open, bufferVars, peerVars, toRead>>

\* What is in the buffer stays there.
Closed ==
  /\ nioAt = "result" /\ result \in {"any", "exit"}
  /\ client' = [client EXCEPT ![i] = NoPeer] /\ open' = open \ {i}
  /\ GoOn(i)
  /\ UNCHANGED <<bufferVars, peerVars, toRead>>

Continued ==
  /\ nioAt = "result" /\ result \in {"any", "continue"}
  /\ UNCHANGED client /\ GoOn(i)
  /\ UNCHANGED <<open, bufferVars, peerVars, toRead>>

-----------------------------------------------------------------------------
(* The clients                                                             *)

ServerRuns == nioAt \notin {"exit", "undefined"}
Served(p)  == \E f \in Fds : client[f] = p

Arrive(p) ==
  /\ ServerRuns /\ p \notin arrivals /\ ~Served(p) /\ said[p] = 0 /\ echoed[p] = <<>>
  /\ hangup[p] = "no"
  /\ arrivals' = arrivals \union {p}
  /\ UNCHANGED <<loopVars, client, open, bufferVars, said, hangup, toRead>>

Say(p) ==
  /\ ServerRuns /\ Served(p) /\ said[p] < MaxSaid /\ hangup[p] = "no"
  /\ said' = [said EXCEPT ![p] = @ + 1]
  /\ toRead' = [toRead EXCEPT ![p] = Append(@, [from |-> p, no |-> said'[p]])]
  /\ UNCHANGED <<loopVars, client, open, bufferVars, arrivals, hangup>>

HangUp(p) ==
  /\ ServerRuns /\ Served(p)
  /\ \/ hangup[p] = "no" /\ hangup' = [hangup EXCEPT ![p] = "fin"]
     \/ hangup[p] # "rst" /\ hangup' = [hangup EXCEPT ![p] = "rst"]
  /\ UNCHANGED <<loopVars, client, open, bufferVars, arrivals, said, toRead>>

-----------------------------------------------------------------------------
NioLoop ==
  \/ Select \/ Accept
  \/ NotReadable \/ OnSocketReadable
  \/ NotWriteable \/ OnSocketWriteable \/ WriteFails
  \/ Closed \/ Continued

Next == NioLoop \/ \E p \in Peers : Arrive(p) \/ Say(p) \/ HangUp(p)

Spec == Init /\ [][Next]_nioVars

-----------------------------------------------------------------------------
\* The bytes of a client that come back come in the order it sent them and once,
\* and without a gap if none were abandoned, whatever else its buffer held.
EchoInOrder ==
  \A p \in Peers :
    LET own  == {n \in 1 .. Len(echoed[p]) : echoed[p][n].from = p}
        nth(n) == Cardinality({m \in own : m <= n}) IN
    \A n \in own :
      /\ \A m \in own : m < n => echoed[p][m].no < echoed[p][n].no
      /\ p \notin abandoned => echoed[p][n].no = nth(n)

=============================================================================
