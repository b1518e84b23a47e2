------------------------------ MODULE HiServer ------------------------------
(***************************************************************************)
(* A client and a server that answers it: those of linux-c-np-geektime/    *)
(* chapter11, where the client can close its sending side (shutdown) or    *)
(* the connection (close), the same server with the client of chapter13,   *)
(* which never reads, the stream sockets of chapter07, where the client    *)
(* waits for each answer, and read_closed_client and read_closed_server of *)
(* chapter17, where it does so too and either of them is killed.           *)
(*                                                                         *)
(* A line is known by its number and arrives whole; several may arrive at  *)
(* once.  Each ends with the \0 that replaces its newline (not that of     *)
(* chapter13), so that the answer to several is that to the first.         *)
(***************************************************************************)
EXTENDS Integers, Sequences, Pieces

CONSTANT MaxLines   \* bound: lines typed

VARIABLES
  lesson,     \* 7, 11, 13 or 17: the programs that run
  hiClient,   \* "type", "wait" (for an answer), "quiet" (stdin cleared,
              \* after shutdown), "asleep" (after close), "terminated" or "exited"
  typedLines, \* lines the client has sent
  questions,  \* those the server has not read
  hiServer,   \* "read", "write" or "exited"
  handed,     \* receive_buffer: the lines that one read() returned
  replies,    \* answers on their way to the client
  command,    \* "none", or what ended a side: "shutdown", "close", "quit", "kill"
  reset,      \* "no"; "untold": the connection has been reset without a FIN, and the
              \* server does not know yet; "told": read() returns 0 after a reset
  answered,   \* history: what the server has read and answered
  printed     \* history: the answers that the client has printed

hiVars == <<lesson, hiClient, typedLines, questions, hiServer, handed, replies,
            command, reset, answered, printed>>

Lines == 1 .. MaxLines

HiTypeOK ==
  /\ lesson \in {7, 11, 13, 17}
  /\ hiClient \in {"type", "wait", "quiet", "asleep", "terminated", "exited"}
  /\ hiServer \in {"read", "write", "exited"}
  /\ typedLines \in 0 .. MaxLines
  /\ {questions, handed, replies, printed} \subseteq Seq(Lines)
  /\ answered \in Seq(Seq(Lines))
  /\ command \in {"none", "shutdown", "close", "quit", "kill"} /\ reset \in {"no", "untold", "told"}

\* tcp_server_accept_one and tcp_client, of which the others have copies
AcceptedOne == hiServer = "read" /\ handed = <<>> /\ answered = <<>>
Connected   == hiClient = "type" /\ questions = <<>> /\ replies = <<>> /\ reset = "no"

Init ==
  /\ lesson \in {7, 11, 13, 17} /\ AcceptedOne /\ Connected
  /\ typedLines = 0 /\ command = "none" /\ printed = <<>>

ClientOpen == hiClient \notin {"asleep", "exited"}

\* A reset keeps what has arrived; what the client's kernel had not transmitted by
\* then never arrives.
CutOff == \E n \in 0 .. Len(questions) : questions' = SubSeq(questions, 1, n)

-----------------------------------------------------------------------------
(* The server; the sleep of chapter11 is any time between read and write.  *)

ReadLines ==
  /\ hiServer = "read" /\ hiServer' = "write"
  /\ \E n \in 1 .. Len(questions) :
       /\ handed' = SubSeq(questions, 1, n)
       /\ questions' = SubSeq(questions, n + 1, Len(questions))
  /\ UNCHANGED <<lesson, hiClient, typedLines, replies, command, reset, answered, printed>>

\* chapter11: size_read is unsigned, so an error is no error: the server answers
\* the empty line.
ReadError ==
  /\ hiServer = "read" /\ questions = <<>> /\ reset = "untold" /\ lesson \in {11, 13}
  /\ hiServer' = "write" /\ handed' = <<>> /\ reset' = "told"
  /\ UNCHANGED <<lesson, hiClient, typedLines, questions, replies, command, answered, printed>>

ReadEnd ==
  /\ lesson # 17 /\ hiServer = "read" /\ questions = <<>> /\ command # "none" /\ reset # "untold"
  /\ hiServer' = "exited"
  /\ UNCHANGED <<lesson, hiClient, typedLines, questions, handed, replies, command, reset,
                 answered, printed>>

\* An answer that finds nobody: the client's kernel resets the connection, of which
\* the server is not told if the FIN has arrived before.  Nor is the error of a
\* connection that has been reset an error here, and it is told of only once.
Refused ==
  /\ UNCHANGED replies
  /\ IF reset = "no"
     THEN CutOff /\ (reset' = "untold" \/ (reset' = "told" /\ questions' = questions))
     ELSE reset' = "told" /\ UNCHANGED questions

Reply ==
  /\ lesson # 17 /\ hiServer = "write" /\ hiServer' = "read"
  /\ IF ClientOpen THEN replies' = Append(replies, handed[1]) /\ UNCHANGED <<questions, reset>>
     ELSE Refused
  /\ answered' = Append(answered, handed)
  /\ UNCHANGED <<lesson, hiClient, typedLines, handed, command, printed>>

\* chapter17: the bytes that were read go back.
Echo ==
  /\ lesson = 17 /\ hiServer = "write" /\ hiServer' = "read"
  /\ IF ClientOpen THEN replies' = replies \o handed /\ UNCHANGED <<questions, reset>>
     ELSE Refused
  /\ answered' = Append(answered, handed)
  /\ UNCHANGED <<lesson, hiClient, typedLines, handed, command, printed>>

\* chapter17: 0, or the error of a connection that was reset because the last
\* answer found nobody.
ReadClosed ==
  /\ lesson = 17 /\ hiServer = "read" /\ questions = <<>> /\ ~ClientOpen
  /\ hiServer' = "exited"
  /\ UNCHANGED <<lesson, hiClient, typedLines, questions, handed, replies, command, reset,
                 answered, printed>>

-----------------------------------------------------------------------------
(* The client                                                              *)

\* It reads the answer to a line before it takes the next from standard input.
WaitsEach == lesson \in {7, 17}

\* chapter13: it writes line after line and never reads.
NeverReads == lesson = 13

\* It is in read(), or select() says that it may be.
Reads ==
  /\ ~NeverReads /\ hiClient \in {"type", "quiet", "wait"}
  /\ WaitsEach => hiClient = "wait"

SendLine ==
  /\ hiClient = "type" /\ typedLines < MaxLines /\ (hiServer # "exited" \/ lesson = 17)
  /\ typedLines' = typedLines + 1 /\ questions' = Append(questions, typedLines')
  /\ hiClient' = IF WaitsEach THEN "wait" ELSE "type"
  /\ UNCHANGED <<lesson, hiServer, handed, replies, command, reset, answered, printed>>

PrintAnswer ==
  /\ Reads /\ replies # <<>>
  /\ printed' = Append(printed, Head(replies)) /\ replies' = Tail(replies)
  /\ hiClient' = IF WaitsEach THEN "type" ELSE hiClient
  /\ UNCHANGED <<lesson, typedLines, questions, hiServer, handed, command, reset, answered>>

ServerTerminated ==
  /\ Reads /\ replies = <<>> /\ hiServer = "exited" /\ hiClient' = "terminated"
  /\ UNCHANGED <<lesson, typedLines, questions, hiServer, handed, replies, command, reset,
                 answered, printed>>

\* Mutant of Stays: shutdown closes the connection.
Leaves == "asleep"
Stays  == "quiet"

Shutdown ==
  /\ lesson = 11 /\ hiClient = "type"
  /\ hiClient' = Stays /\ command' = "shutdown"
  /\ UNCHANGED <<lesson, typedLines, questions, hiServer, handed, replies, reset, answered,
                 printed>>

\* The connection is closed: with answers unread it is reset at once, without a FIN.
Departs(why) ==
  /\ command' = why /\ replies' = <<>>
  /\ IF replies = <<>> THEN UNCHANGED <<questions, reset>> ELSE reset' = "untold" /\ CutOff
  /\ UNCHANGED <<lesson, typedLines, hiServer, handed, answered, printed>>

Close == lesson = 11 /\ hiClient = "type" /\ hiClient' = "asleep" /\ Departs("close")

\* The end of standard input, but in chapter11; the client of chapter13 leaves
\* the answers that have come unread.
Quit == lesson # 11 /\ hiClient = "type" /\ hiClient' = "exited" /\ Departs("quit")

KillServer ==
  /\ lesson = 17 /\ hiServer # "exited" /\ hiServer' = "exited" /\ command' = "kill"
  /\ UNCHANGED <<lesson, hiClient, typedLines, questions, handed, replies, reset, answered,
                 printed>>

KillClient ==
  lesson = 17 /\ hiClient \in {"type", "wait"} /\ hiClient' = "exited" /\ Departs("kill")

-----------------------------------------------------------------------------
HiServerStep == ReadLines \/ ReadError \/ ReadEnd \/ Reply \/ Echo \/ ReadClosed
HiClientStep == SendLine \/ PrintAnswer \/ ServerTerminated \/ Shutdown \/ Close \/ Quit

Next == HiServerStep \/ HiClientStep \/ KillServer \/ KillClient

Spec == Init /\ [][Next]_hiVars

-----------------------------------------------------------------------------
First(chunk) == chunk[1]

\* The lines a client sends are read once, in order and without a gap, whoever
\* closes the connection or is killed; and all of them are, also when the client
\* has long exited, unless the connection is reset: because it left answers unread,
\* or because an answer found it gone.  Every answer reaches a client that reads,
\* those after its shutdown too: when it learns that the server has ended it has
\* printed them all.  Where it waits for each answer, answer k is that to line k,
\* whoever is killed, and all it ever misses is the last.
AnswersComeBack ==
  LET reading == Joined(answered) \o (IF hiServer = "write" THEN handed ELSE <<>>) \o questions IN
  /\ Len(reading) <= typedLines /\ \A k \in 1 .. Len(reading) : reading[k] = k
  /\ reset = "no" /\ command # "kill" => Len(reading) = typedLines
  /\ command \notin {"close", "kill"} /\ ~NeverReads =>
       printed \o replies = [k \in 1 .. Len(answered) |-> First(answered[k])]
  /\ hiClient = "terminated" /\ command # "kill" => Len(printed) = Len(answered) /\ questions = <<>>
  /\ WaitsEach => /\ \A k \in 1 .. Len(printed) : printed[k] = k
                  /\ Len(printed) >= typedLines - 1
=============================================================================
