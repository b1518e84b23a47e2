------------------------------ MODULE Streams ------------------------------
(***************************************************************************)
(* Those of the stand-alone programs whose data is a stream of bytes,      *)
(* lines or messages, side by side.  Programs chooses one of them, or one  *)
(* of the others, and lets it run; what is proved of each by itself        *)
(* (StreamProofs) needs no more than is declared here.                     *)
(***************************************************************************)
EXTENDS Integers, Sequences

CONSTANTS
  MaxClients, MaxBytes, BufSize,                  \* ThreadsServer
  Peers, NoPeer, FdInitSize, MaxLine, MaxSaid, LineLength,                  \* NioServer
  FieldSize, BufferSize, Lengths, MaxMessages, BulkSize, MessageSize, Capacity,  \* Framing
  MaxLines,                                       \* HiServer
  MaxText, Room,                                  \* LineIO
  Senders, MsgLength, TypedLengths, MaxPosts      \* MessageQueue

\* Nobody is not one of the clients.
ASSUME NoPeerAssumption == NoPeer \notin Peers

\* Sizes and bounds are counts, and a line that is typed has bytes.
ASSUME SizesAssumption ==
  /\ MaxClients \in Nat /\ BufSize \in Nat \ {0}
  /\ FdInitSize \in Nat /\ MaxLine \in Nat /\ MaxSaid \in Nat /\ LineLength \in Nat \ {0}
  /\ MaxLines \in Nat

\* A field of a message has bytes; fgets() returns some, and no more than fit in
\* the buffer.
ASSUME FramingAssumption ==
  /\ FieldSize \in Nat \ {0} /\ BufferSize \in Nat /\ Lengths \subseteq 1 .. BufferSize
  /\ BulkSize \in Nat \ {0} /\ MessageSize \in Nat
  /\ MaxMessages \in Nat \ {0} /\ Capacity \in Nat

\* The buffers of read_line and readLine hold a byte and the \0, at least, and a
\* message has bytes.
ASSUME LinesAssumption == Room \in Nat \ {0, 1} /\ MaxText \in Nat
ASSUME MessagesAssumption ==
  MsgLength \in Nat \ {0} /\ TypedLengths \subseteq Nat /\ MaxPosts \in Nat

VARIABLES
  pc, client_fd, accepted, threadPc, fd, buf, unread, heard, answers, hungUp, broken,
  nioAt, max_fd, read_set, write_set, i, result, client, open, line, read_index, readable,
  abandoned, echoed, arrivals, said, hangup, toRead,
  course, senderAt, typedIn, remaining, stream, readerAt, left, ended, got, message_length,
  delivered,
  lesson, hiClient, typedLines, questions, hiServer, handed, replies, command, reset,
  answered, printed,
  routine, text, ptr, writerAt, wire, readIn, callAt, chunk, lineBuf, lines, forgotten, interrupted,
  postAt, myId, typedLeft, lineNo, queueId, lastId, messages, posted, takenIn,
  watchAt, watchId, shownBuf, shownText

Threads == INSTANCE ThreadsServer
Nio     == INSTANCE NioServer
Frame   == INSTANCE Framing
Hi      == INSTANCE HiServer
Lines   == INSTANCE LineIO WITH line <- lineBuf
Posts   == INSTANCE MessageQueue WITH taken <- takenIn

threadsVars == <<pc, client_fd, accepted, threadPc, fd, buf, unread, heard, answers, hungUp,
                 broken>>
nioVars     == <<nioAt, max_fd, read_set, write_set, i, result, client, open, line, read_index,
                 readable, abandoned, echoed, arrivals, said, hangup, toRead>>
frameVars   == <<course, senderAt, typedIn, remaining, stream, readerAt, left, ended, got,
                 message_length, delivered>>
hiVars      == <<lesson, hiClient, typedLines, questions, hiServer, handed, replies, command,
                 reset, answered, printed>>
lineVars    == <<routine, text, ptr, writerAt, wire, readIn, callAt, chunk, lineBuf, lines,
                 forgotten, interrupted>>
messageVars == <<postAt, myId, typedLeft, lineNo, queueId, lastId, messages, posted, takenIn,
                 watchAt, watchId, shownBuf, shownText>>
=============================================================================
