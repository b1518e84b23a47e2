------------------------------ MODULE TtyEcho ------------------------------
(***************************************************************************)
(* The programs of linux-c-programming/io that echo what is typed on a     *)
(* terminal: blocking_echo, nonblocking_echo and nonblocking_timeout_echo  *)
(* of io_read_write.c, and set_file_status of io_fcntl.c, which makes its  *)
(* standard input non-blocking.  What is typed is one line or the end of   *)
(* the input; of its length matters whether the buffer holds it.           *)
(***************************************************************************)
EXTENDS Integers

CONSTANTS
  MaxTries,  \* the 5 of nonblocking_timeout_echo
  MaxReads   \* bound: reads of the programs that try for ever

VARIABLES
  echoer,   \* the function that runs
  echoAt,   \* "read", "sleep" or "over"
  reads,    \* read() calls that have returned: i, and one more during the sleep
  typedAt,  \* how many had when the user typed, -1 before
  said      \* what the program has answered: "", "timeout", "error", "echo", or
            \* "part" of a line that is longer than its buffer

ttyVars == <<echoer, echoAt, reads, typedAt, said>>

Echoers == {"blocking_echo", "nonblocking_echo", "nonblocking_timeout_echo", "set_file_status"}

TtyTypeOK ==
  /\ echoer \in Echoers /\ echoAt \in {"read", "sleep", "over"}
  /\ reads \in 0 .. MaxReads /\ typedAt \in -1 .. MaxReads
  /\ said \in {"", "timeout", "error", "echo", "part"}

Init ==
  /\ echoer \in Echoers /\ echoAt = "read" /\ reads = 0 /\ typedAt = -1 /\ said = ""

\* open with O_NONBLOCK, or fcntl with F_SETFL
NonBlocking == echoer # "blocking_echo"

Type ==
  /\ typedAt = -1 /\ typedAt' = reads
  /\ UNCHANGED <<echoer, echoAt, reads, said>>

\* read() has something, as much of it as fits: that is written to the standard
\* output, and the rest stays with the terminal for whoever reads it next.
Echo ==
  /\ echoAt = "read" /\ typedAt # -1 /\ reads < MaxReads
  /\ reads' = reads + 1 /\ echoAt' = "over" /\ said' \in {"echo", "part"}
  /\ UNCHANGED <<echoer, typedAt>>

\* Any error but EAGAIN, of a terminal that is gone: exit(1).
ReadFails ==
  /\ echoAt = "read" /\ reads < MaxReads
  /\ reads' = reads + 1 /\ echoAt' = "over" /\ said' = "error"
  /\ UNCHANGED <<echoer, typedAt>>

\* EAGAIN; without O_NONBLOCK read() would wait.
TryAgain ==
  /\ echoAt = "read" /\ typedAt = -1 /\ NonBlocking /\ reads < MaxReads
  /\ reads' = reads + 1 /\ echoAt' = "sleep"
  /\ UNCHANGED <<echoer, typedAt, said>>

\* Mutant of OutOfTries: one second too few.
OneTooFew  == echoer = "nonblocking_timeout_echo" /\ reads = MaxTries - 1
OutOfTries == echoer = "nonblocking_timeout_echo" /\ reads = MaxTries

\* sleep(1), and the end of the loop's body
Sleep ==
  /\ echoAt = "sleep"
  /\ IF OutOfTries THEN echoAt' = "over" /\ said' = "timeout"
     ELSE echoAt' = "read" /\ UNCHANGED said
  /\ UNCHANGED <<echoer, reads, typedAt>>

Next == Type \/ Echo \/ ReadFails \/ TryAgain \/ Sleep

Spec == Init /\ [][Next]_ttyVars

-----------------------------------------------------------------------------
\* What is typed is echoed by the next read, at most one sleep(1) later; the
\* program gives up only when the user has typed nothing before its last read.
\* What is typed after that, in the last second, is left to the next program.
EchoedSoon ==
  /\ said \in {"echo", "part"} => reads = typedAt + 1
  /\ said = "timeout" => reads = MaxTries /\ typedAt \in {-1, MaxTries}
=============================================================================
