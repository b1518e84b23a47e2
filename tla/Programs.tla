------------------------------ MODULE Programs ------------------------------
(***************************************************************************)
(* The stand-alone programs of the repository side by side: a behaviour is *)
(* one of one of them, chosen at the start, and the others stay as they    *)
(* are.  Nothing is shared between them; this module only brings them, and *)
(* the fairness of each, into one specification: those whose data is a     *)
(* stream of bytes or lines, which are in Streams, and all the others.     *)
(***************************************************************************)
EXTENDS Integers, FiniteSets, Streams

CONSTANTS
  Conns, Listen, Parent,                          \* ForkServer
  KeepAliveTime, KeepAliveInterval, ProbeTimes, SleepingTimes, MaxWaiting,  \* Heartbeat
  Hosts, NoHost, MaxQuestions, MaxDuplicates,     \* Datagram
  Runs, NoSet,                                    \* SysVSemaphore
  Callers, ServerFd, MaxEvents, ReadSize, MaxCalled,                        \* EpollServer
  Guests, NoGuest, InitSize, MaxPolled, PollReadSize,                       \* PollServer
  N, MaxComing, NoClient, FdLimit,                \* Reactor
  MaxTries, MaxReads,                             \* TtyEcho
  Instances, NoInstance                           \* PidFile

\* What stands for nobody or nothing is not one of those it is told apart from.
ASSUME NobodyAssumption ==
  /\ NoInstance \notin Instances
  /\ NoSet \notin Runs
  /\ Listen \notin Conns /\ Parent \notin Conns
  /\ ServerFd \notin Callers
  /\ NoGuest \notin Guests
  /\ NoClient \notin 1 .. MaxComing
  /\ NoHost \notin Hosts

\* poll_server.c has room for the listening socket and the thread pool has a
\* thread, at least; sizes, times and bounds are counts.
ASSUME NumbersAssumption ==
  /\ InitSize \in Nat \ {0} /\ PollReadSize \in Nat
  /\ KeepAliveTime \in Nat /\ KeepAliveInterval \in Nat /\ ProbeTimes \in Nat
  /\ N \in Nat \ {0} /\ MaxComing \in Nat /\ FdLimit \in Nat

\* So are the times the programs sleep and what bounds their behaviours, and
\* epoll_server.c has finitely many clients.
ASSUME BoundsAssumption ==
  /\ SleepingTimes \subseteq Nat /\ MaxWaiting \in Nat
  /\ MaxQuestions \in Nat /\ MaxDuplicates \in Nat
  /\ IsFiniteSet(Callers) /\ MaxEvents \in Nat /\ ReadSize \in Nat /\ MaxCalled \in Nat
  /\ MaxPolled \in Nat /\ MaxReads \in Nat

VARIABLES
  program,  \* the one that runs
  parentAt, taken, backlog, childAt, holds, handling, sigchld, finished,
  pingClientAt, timeout, heartbeats, typed, silence,
  pingServerAt, nap, sleeping_time, pings, pongs,
  chapter, net, duplicates, inbox, serverAt, received, peer,
  clientAt, asked, mailbox, refused, shown,
  class, runAt, sem_id, current, value, undo, isSet,
  epollAt, ready, events, processing_fd, read_size, epollBacklog, link, hangs, called,
  waiting, returned,
  pollAt, event_set, revents, ready_count, slot, read_count, guestOf, queued, came, wrote,
  pending, parted,
  coming, gone, undelivered, openAs, admitted, accepting, position, todo, map, interest,
  loopAt, batch,
  memAt, shm_id, segments, removed, lastShm, pidIn, given,
  echoer, echoAt, reads, typedAt, told,
  instanceAt, opened, named, lastFile, holder, written

Fork    == INSTANCE ForkServer
Ping    == INSTANCE Heartbeat WITH clientAt <- pingClientAt, serverAt <- pingServerAt
Udp     == INSTANCE Datagram
Sem     == INSTANCE SysVSemaphore
Epoll   == INSTANCE EpollServer
Polling == INSTANCE PollServer
React   == INSTANCE Reactor WITH MaxClients <- MaxComing, came <- coming,
                                 accepted <- admitted, unread <- undelivered
Memory  == INSTANCE SharedMemory WITH got <- given
Tty     == INSTANCE TtyEcho WITH said <- told
Pid     == INSTANCE PidFile

forkVars    == <<parentAt, taken, backlog, childAt, holds, handling, sigchld, finished>>
pingVars    == <<pingClientAt, timeout, heartbeats, typed, silence,
                 pingServerAt, nap, sleeping_time, pings, pongs>>
udpVars     == <<chapter, net, duplicates, inbox, serverAt, received, peer,
                 clientAt, asked, mailbox, refused, shown>>
semVars     == <<class, runAt, sem_id, current, value, undo, isSet>>
epollVars   == <<epollAt, ready, events, processing_fd, read_size, epollBacklog, link, hangs,
                 called, waiting, returned>>
pollVars    == <<pollAt, event_set, revents, ready_count, slot, read_count, guestOf, queued,
                 came, wrote, pending, parted>>
reactorVars == <<coming, gone, undelivered, openAs, admitted, accepting, position, todo, map,
                 interest, loopAt, batch>>
memVars     == <<memAt, shm_id, segments, removed, lastShm, pidIn, given>>
ttyVars     == <<echoer, echoAt, reads, typedAt, told>>
pidVars     == <<instanceAt, opened, named, lastFile, holder, written>>

vars == <<program, threadsVars, forkVars, pingVars, udpVars, semVars, nioVars, epollVars,
          pollVars, frameVars, hiVars, reactorVars, lineVars, messageVars, memVars, ttyVars,
          pidVars>>

Names == {"threads", "fork", "ping", "udp", "sem", "nio", "epoll", "poll", "frame", "hi",
          "reactor", "line", "messages", "memory", "tty", "pid"}

TypeOK ==
  /\ program \in Names
  /\ Threads!ThreadsTypeOK /\ Fork!ForkTypeOK /\ Ping!PingTypeOK /\ Udp!UdpTypeOK
  /\ Sem!SemTypeOK /\ Nio!NioTypeOK /\ Epoll!EpollTypeOK /\ Polling!PollTypeOK
  /\ Frame!FrameTypeOK /\ Hi!HiTypeOK /\ React!ReactorTypeOK /\ Lines!LineTypeOK
  /\ Posts!MessageTypeOK /\ Memory!MemTypeOK /\ Tty!TtyTypeOK /\ Pid!PidTypeOK

\* Choices that the program that runs does not look at are made one way.
Init ==
  /\ program \in Names
  /\ Threads!Init /\ Fork!Init /\ Nio!Init /\ Epoll!Init /\ Polling!Init
  /\ React!Init /\ Posts!Init /\ Memory!Init /\ Pid!Init
  /\ Ping!Init /\ (program = "ping" \/ sleeping_time = CHOOSE s \in SleepingTimes : TRUE)
  /\ Udp!Init /\ (program = "udp" \/ chapter = 6)
  /\ Sem!Init /\ (program = "sem" \/ class = "TwoSemaphore")
  /\ Frame!Init /\ (program = "frame" \/ course = 16)
  /\ Hi!Init /\ (program = "hi" \/ lesson = 11)
  /\ Lines!Init /\ (program = "line" \/ (routine = "read_line" /\ text = <<>>))
  /\ Tty!Init /\ (program = "tty" \/ echoer = "blocking_echo")

\* p takes a step and the others stay as they are.
Only(p) ==
  /\ program = p /\ UNCHANGED program
  /\ IF p = "threads" THEN TRUE ELSE UNCHANGED threadsVars
  /\ IF p = "fork"  THEN TRUE ELSE UNCHANGED forkVars
  /\ IF p = "ping"  THEN TRUE ELSE UNCHANGED pingVars
  /\ IF p = "udp"   THEN TRUE ELSE UNCHANGED udpVars
  /\ IF p = "sem"   THEN TRUE ELSE UNCHANGED semVars
  /\ IF p = "nio"   THEN TRUE ELSE UNCHANGED nioVars
  /\ IF p = "epoll" THEN TRUE ELSE UNCHANGED epollVars
  /\ IF p = "poll"  THEN TRUE ELSE UNCHANGED pollVars
  /\ IF p = "frame" THEN TRUE ELSE UNCHANGED frameVars
  /\ IF p = "hi"    THEN TRUE ELSE UNCHANGED hiVars
  /\ IF p = "reactor"  THEN TRUE ELSE UNCHANGED reactorVars
  /\ IF p = "line"     THEN TRUE ELSE UNCHANGED lineVars
  /\ IF p = "messages" THEN TRUE ELSE UNCHANGED messageVars
  /\ IF p = "memory"   THEN TRUE ELSE UNCHANGED memVars
  /\ IF p = "tty"      THEN TRUE ELSE UNCHANGED ttyVars
  /\ IF p = "pid"      THEN TRUE ELSE UNCHANGED pidVars

Next ==
  \/ Only("threads") /\ Threads!Next
  \/ Only("fork") /\ Fork!Next
  \/ Only("ping") /\ Ping!Next
  \/ Only("udp") /\ Udp!Next
  \/ Only("sem") /\ Sem!Next
  \/ Only("nio") /\ Nio!Next
  \/ Only("epoll") /\ Epoll!Next
  \/ Only("poll") /\ Polling!Next
  \/ Only("frame") /\ Frame!Next
  \/ Only("hi") /\ Hi!Next
  \/ Only("reactor") /\ React!Next
  \/ Only("line") /\ Lines!Next
  \/ Only("messages") /\ Posts!Next
  \/ Only("memory") /\ Memory!Next
  \/ Only("tty") /\ Tty!Next
  \/ Only("pid") /\ Pid!Next

Spec == Init /\ [][Next]_vars

\* The scheduler runs every process that can go on, and time passes.
ForkFair ==
  /\ WF_forkVars(program = "fork" /\ Fork!ParentStep)
  /\ WF_forkVars(program = "fork" /\ Fork!Handler)
  /\ \A c \in Conns : WF_forkVars(program = "fork" /\ Fork!Child(c))

PingFair ==
  /\ WF_pingVars(program = "ping" /\ Ping!PingClient)
  /\ WF_pingVars(program = "ping" /\ Ping!PingServer)
  /\ WF_pingVars(program = "ping" /\ Ping!Tick)

SemFair == \A r \in Runs : WF_semVars(program = "sem" /\ Sem!Goes(r))

\* The loop in epoll_wait, or in a callback, lets go of its mutex time and again.
ReactorFair ==
  /\ SF_reactorVars(program = "reactor" /\ React!MainLoop)
  /\ \A l \in 0 .. N - 1 : WF_reactorVars(program = "reactor" /\ React!Loop(l))

FairSpec == Spec /\ ForkFair /\ PingFair /\ SemFair /\ ReactorFair

-----------------------------------------------------------------------------
\* The properties of the programs, stated and explained in their modules.

\* ThreadsServer: the lines of a client come back whole and in order.
LinesComeBack == Threads!LinesComeBack

\* ForkServer: a connection is closed when its child has exited.
ClosedWithChild == Fork!ClosedWithChild

\* ForkServer: every child that exits is reaped.
EveryChildReaped == Fork!EveryChildReaped

\* Heartbeat: a server is given up only after a long enough silence.
DeadMeansSilent == Ping!DeadMeansSilent

\* Heartbeat: a server that is gone is noticed.
GoneIsNoticed == Ping!GoneIsNoticed

\* Datagram: an answer goes to the client it is for, and to its last question.
AnswersFit == Udp!AnswersFit

\* SysVSemaphore: a TwoSemaphore has one permit.
OnePermit == Sem!OnePermit

\* SysVSemaphore: nobody waits for ever but for a set that was never ready.
EveryWaitEnds == Sem!EveryWaitEnds

\* NioServer: what a client sends comes back in order.
EchoInOrder == Nio!EchoInOrder

\* EpollServer: no connection is forgotten with something to read.
NothingForgotten == Epoll!NothingForgotten

\* PollServer: no read of a blocking socket blocks.
ReadsOnlyReady == Polling!ReadsOnlyReady

\* Framing: messages come out whole and in order however the stream is cut up.
PiecesWhole == Frame!PiecesWhole

\* HiServer: every answer comes back, after a shutdown too.
AnswersComeBack == Hi!AnswersComeBack

\* Reactor: no loop reads or closes the connection another one serves.
KeptApart == React!KeptApart

\* Reactor: who comes is served and who goes is let go of.
ComeAndGo == React!ComeAndGo

\* LineIO: lines are split where they end, however the text arrives.
LinesSplit == Lines!LinesSplit

\* MessageQueue: messages come out in order and as they were typed.
MessagesWhole == Posts!MessagesWhole

\* SharedMemory: memory stays while it is used, and goes with who made it.
SegmentsGo == Memory!SegmentsGo

\* TtyEcho: what is typed is echoed by the next read.
EchoedSoon == Tty!EchoedSoon

\* PidFile: the pid of an instance that runs is in the file it opened.
PidTrue == Pid!PidTrue
=============================================================================
