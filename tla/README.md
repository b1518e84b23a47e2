# TLA+ models of os-programming-learning

The repository is a collection of network programs that build on each other: the
reactor library `linux-c-np-geektime/lib`, the servers of the chapters that lead
up to it, and the system-programming examples of `linux-c-programming`. The
modules here model the parts that have state worth worrying about: threads that
share a queue, descriptors that are closed and reused, buffers that move their
contents, processes that die at the wrong moment.

Paths are relative to `src/linux-c-np-geektime` unless they say otherwise.

## 1. Inventory

### The reactor library (`lib/`)

| component | state | operations | interacts with |
|---|---|---|---|
| event_loop (`event_loop.c`, `channel.c`, `utils.c`) | pending list, `is_handling_pending_channel`, mutex, socketpair, owner thread | post ADD/DELETE/UPDATE, wake up, handle pending, run, active | any thread posts; the owner calls the dispatcher, the dispatcher calls back `event_loop_active` |
| channel_map (`channel_map.c`) | `entities`, `length` | make_space | only the event_loop, in the owner |
| epoll dispatcher (`event_dispatcher_epoll.c`) | the kernel's interest list | add, delete, update, dispatch | event_loop; closes descriptors itself on error |
| poll dispatcher (`event_dispatcher_poll.c`) | 1024 `pollfd` slots | add, delete, update, dispatch | event_loop |
| buffer (`buffer.c`) | `data`, `read_index`, `write_index`, `total_size` | make_room, append, append_char, socket_read, read_char, find_CRLF | tcp_connection and the application |
| tcp_connection (`tcp_connection.c`) | input and output buffer, channel | new, handle_read, handle_write, send_data, send_buffer, shutdown, closed | its event_loop, its channel, the application callbacks |
| tcp_server, thread_pool, event_loop_thread, acceptor | `position`, `started`, per thread `loop` and mutex/condition | start, peek_work_loop, connection_established | main thread starts the loops of the I/O threads and hands them connections |
| framing and lines (`read.c`, `write.c`) | bytes of a stream, a static buffer | readn, read_message, read_line, read_line_buffered, writen | chapters 5 and 16 |
| log, chars, tcp_client, tcp_server helpers | none | | |

### The servers of the chapters

| component | state | hard because |
|---|---|---|
| thread pool server (`chapter26/thread_pool_server.c`) | ring of descriptors, mutex, condition variable | several consumers, ring not checked for full |
| thread per client (`chapter26/threads_server.c`) | one `client_fd` shared by all threads | the address of a variable that the next accept overwrites |
| fork server (`chapter25/fork_server.c`) | processes, descriptor references, SIGCHLD | signals coalesce, handlers interrupt accept |
| epoll server (`chapter23`), nio server with select (`chapter22`), poll server (`chapter21`), select client (`chapter20`) | tables of descriptors, buffers | tables at their limit, edge-triggered events, partial writes |
| heartbeat (`chapter12`) | silent counter of the client, delay of the server | timeouts racing answers |
| grace close (`chapter11`), read/write on closed sockets (`chapter17`) | half-closed connections, signals | order of FIN, RST and SIGPIPE |
| stream framing (`chapter16`) | length-prefixed messages | partial reads, oversize messages |
| datagrams (`chapter06`, `chapter07`, `chapter14`) | one socket, its queue, a connected peer | datagrams are lost, doubled, reordered; a queue older than `connect` |
| bulk transfer and local streams (`chapter05`, `chapter07`) | bytes of a stream | partial reads |
| batch write (`chapter13`) | a client that never reads | its exit resets the connection under the server |

### `linux-c-programming`

| component | state | hard because |
|---|---|---|
| System V semaphore (`ipc/sysv_sem_sample.*`, `sysv_s_sem_sample.*`) | semaphore set shared by processes | creation and initialisation are two steps |
| System V message queue (`ipc/sysv_msg_*.c`) | the queue, the buffers on both sides | whoever ends first removes the queue for all; messages of different lengths in one buffer |
| System V shared memory (`ipc/sysv_shm_sample.c`) | a segment and who has it attached | every run removes it, whoever uses it |
| terminal echo (`io/io_read_write.c`, `io_fcntl.c`) | tries left | the last try comes before the last sleep |
| line reading (`lib/tlpi/read_line.c`, `rdwrn.c`) | bytes of a stream | ends of lines cut in two |
| pid file (`lib/tlpi/create_pid_file.c`, `region_locking.c`) | a file, its lock, its name | opening and locking are two steps, deleting a third |

The remaining chapters (4, 15, 30) and the other files of
`linux-c-programming` are demonstrations of one system call each, and the rest of
`linux-c-programming/lib/{tlpi,apue}` is the code of two books that nothing here calls; they
keep no state across calls.

### What makes each component correct

* event_loop: every posted operation takes effect once and in order, none is left
  waiting while the owner sleeps, the map, the interest list and the channels agree.
* channel_map: no index past `length`.
* poll dispatcher: what is registered is dispatched, no slot is lost or doubled.
* buffer: `0 <= read_index <= write_index <= total_size`, bytes come out as they went in.
* tcp_connection: every byte the peer sends is answered once and in order; what a client sent before it
  finished is read before the application hears of the end.
* tcp_server: a connection is never handed to a loop that does not exist yet, and
  the loops take turns.
* the reactor as a whole: a loop touches only connections that were given to it, although all share the
  process's descriptors; who connects is served and who leaves is let go of.
* thread pool server: every client has exactly one worker; nobody sleeps while a
  client waits.

The hazards, each at its line and with the properties that cover it, are in
`PROJECT.json`.

## 2. Plan

| order | module | models | abstract specification | theorems | state |
|---|---|---|---|---|---|
| 1 | EventLoop | event_loop, channel_map, epoll dispatcher | ChannelOpQueue | types, mutual exclusion, no lost wake-up, map and interest list, refinement | done |
| 2 | BlockQueue | chapter26/thread_pool_server | FdQueue | types, mutual exclusion, refinement | done |
| 3 | Buffer | lib/buffer | ByteQueue | indices in bounds, refinement | done |
| 4 | TcpConnection | lib/tcp_connection, the echo of chapters 27-29 | | conservation of bytes, closed once | done |
| 5 | TcpServer; Handover | tcp_server, thread_pool, event_loop_thread; with BlockQueue | | start handshake, round robin | done |
| 6 | PollDispatcher, ThreadsServer | the poll dispatcher, chapter26/threads_server | | SlotsMatchMap, EventsMatch, LinesComeBack | done |
| 7 | ForkServer, Heartbeat, Datagram, SysVSemaphore, NioServer, EpollServer, PollServer, Framing, HiServer | chapters 5, 6, 7, 11, 12, 13, 14, 16, 17, 20-23, 25 and the semaphore of linux-c-programming/ipc | | ClosedWithChild, DeadMeansSilent, AnswersFit, OnePermit, EchoInOrder, NothingForgotten, ReadsOnlyReady, PiecesWhole, AnswersComeBack | done |
| 8 | Reactor | the server of chapters 27-29 as a whole: acceptor, all loops, shared descriptors | uses ChannelOpQueue for each loop | KeptApart | done |
| 9 | LineIO, MessageQueue, SharedMemory, TtyEcho, PidFile | reading and writing lines, the rest of linux-c-programming that keeps state | | LinesSplit, MessagesWhole, SegmentsGo, EchoedSoon, PidTrue | done |

What is left, in this order: TcpConnection over an interface of EventLoop rather than over a loop of its own; the
reading side of `select_client.c`.

## 3. The modules and the code

Variables and actions keep the names of the code where they have one
(`pending`, `is_handling_pending_channel` as `handling`, `read_index`, `position`,
`HandleRead` for `handle_read`, ...). `PROJECT.json` gives for every definition the
lines it stands for; here is how to read each module.

**EventLoop** (with **ChannelOpQueue**, **EventLoopProofs**).
Any number of threads post channel operations to one loop. `pc[t]` is where thread t is
in `event_loop_do_channel_event`: `Lock`, `Enqueue`, `Unlock`, `Wakeup`. The owner
repeats `Wait` (epoll_wait, any non-empty choice of the ready descriptors), `NextEntry` and
`Active` (`event_loop_active` for one entry), the callback, `RoundDone`, `HandleLock`,
`HandleNode` (one node of the list: ADD, DELETE or UPDATE with the `epoll_ctl` it
makes), `HandleDone`. A callback is a thread of its own for the purpose of posting: what it does
between its start and `CallbackReturn` is what the application could do. `map` is
`channel_map->entities`, `mapLen` its length, `interest` the kernel's list. Descriptors are
reused as `FdOf` says. `Faults` switches what may go wrong: an update posted before the
ADD was handled, a connection reset by its peer, an allocation that fails. ChannelOpQueue
is what the loop promises: a FIFO of operations, each of which takes effect once.

**BlockQueue** (**FdQueue**, **BlockQueueProofs**). The ring of
`thread_pool_server.c` with `front`, `rear`, mutex and condition variable. `push` and `pop` are
cut at every lock, wait and unlock; a wait may end spuriously. FdQueue is the queue
a ring really gives: a push that fills it forgets everything that was queued.

**Handover** puts BlockQueue and TcpServer side by side, the two ways in which a server hands a client to one of
several threads. They share nothing: `server` says which one runs, and each keeps its own next-state relation and
fairness.

**Buffer** (**ByteQueue**, **BufferProofs**). `data` is a function on `0 .. total_size - 1`;
`Rooms` is `make_room` with its three cases, the loop that moves the
bytes front cell first (`Shifted`) and `realloc` (`Grown`, new cells hold garbage).
`Appended`, `SocketRead` (readv with the extra buffer on the stack), `ReadChar` and the rest
follow `buffer.c`. ByteQueue is a sequence of bytes.

**TcpConnection** (**TcpConnectionProofs**). One connection in its loop: the client's bytes
(`sent`, `toServer`), `input`, `output`, the socket's send queue (`toClient`, at
most `SendCap`), what the client has read. Bytes are numbered, so loss,
duplication and overtaking show. `Wait` is level-triggered `epoll_wait`, `HandleRead` and
`HandleWrite` the two callbacks, `Send` the application's answer through
`tcp_connection_send_data`. `ChannelData` says what `channel->data` is taken to be: `"connection"`
is what `tcp_connection_new` stores, and `channel_event_enable_write` then crashes
(conn_cast); `"loop"` is what the comments in `tcp_connection.c` intend, and the
other properties of the connection are checked for that.

**TcpServer** (**TcpServerProofs**). The main thread starts N threads (`Create`, `StartLock`,
`StartCheck`, `StartWait`, `Relock`, `StartUnlock`), listens, and for every connection
goes through `Establish` (`handle_connection_established`), `Peek` (`thread_pool_peek_work_loop`), `NewConnection`, `PostAdd`. An I/O thread
makes its loop under its mutex and signals. What happens inside a loop is a queue of
ADDs: EventLoop shows that this is what it is.

**PollDispatcher** (**PollDispatcherProofs**). The slots of `event_dispatcher_poll.c` with `poll_dispatch` walking over
them; between two slots a callback adds, deletes and updates channels.

**Reactor** puts the parts together for several connections: the main loop accepts (`Accept`, the smallest
free descriptor) and posts (`PostConnection`) to the loops in turn, each loop has the queue that
ChannelOpQueue says it has (`Queue(l)`), its `map` and its `interest` list, and goes through `Wait`,
`Error` or `Readable` for each event, and `Apply` for each operation. What the parts cannot show alone is in
`openAs`: the descriptors belong to the process, the error branch of one loop closes one while the main thread
is accepting, and the maps of the loops are told of neither. A client that only finishes has its channel
removed and its descriptor left open, as in TcpConnection. What it shows of serving everybody (ComeAndGo) has one
exception, `Barred`: the loop that a connection is posted to still has the dead channel of finding 1 under its number.
A connection that goes to another loop must be served.

**ThreadsServer, ForkServer, Heartbeat, Datagram, SysVSemaphore, NioServer, EpollServer,
PollServer, Framing, HiServer, MessageQueue, SharedMemory, TtyEcho**. One stand-alone program (or client and server pair) each. Their
processes, threads and signal handlers are actions on their own `...At` variables; sockets are
queues or counts of bytes; the kernel's part (select, poll, epoll, descriptor numbers, SIGCHLD
that coalesces, SEM_UNDO, RST for data that nobody read) is modelled as far as the
program relies on it, and marked external in the map where it is only that. Time in
Heartbeat is a countdown of seconds that `Tick` moves when nothing else is due; `read` puts its -1 into a `size_t`
there, so that a reset is a message first (`ResetRead`) and the end of the stream only at the next read. In ThreadsServer
a client may hang up or reset; `recv` then returns 0, or -1 and `error` ends the whole process (`RecvFails`, as `AcceptFails`).
In Datagram an error of a connected socket, or of a local one whose peer has gone, ends the program that is told of it
(`ServerRefused`, `Refused`, `LocalFails`). In TtyEcho a line may be longer than the buffer of the one read (`part`), and
any error but EAGAIN ends the program (`ReadFails`). HiServer is four pairs of
programs that differ in who reads when (`lesson`, the chapter); for the client of chapter 13, which never reads, the
answers wait in a queue without a limit, so that the server is never stopped by a client that does not
read. Its exit, and any close with answers unread, resets the connection at once: `CutOff` drops what the client's kernel had not
transmitted, any number of lines from the end; an answer that finds the client gone does the same (`Refused`). Framing is three (`course`). MessageQueue builds its texts from a sender and the number of a line, since only
where a text comes from and where it ends matters.

**LineIO, PidFile**. Library routines without a caller in the repository: LineIO gives them one that
asks for line after line while the text arrives in any pieces (`routine` is the function, `chunk` the static
buffer of `read_line_buffered`); the stream ends, or the connection is reset, anywhere (`WriterCloses`, `WriterResets`), and a signal may
interrupt `read_line`, which takes that for the end of a line (`Interrupted`). PidFile gives its function instances that do what the comment of `create_pid_file.c` asks of its
callers. A file is a number, and `named` is the one that has the name. **TextLines** says what the lines of a text are, and
what a buffer holds of each, for LineIO and ThreadsServer.

**Programs** puts these programs and Reactor side by side: `program` says which one runs, the others stay at
their initial state. The state space is the sum of theirs, not the product. It extends **Streams**, which declares the six
whose data is a stream of bytes, lines or messages (ThreadsServer, NioServer, Framing, HiServer, LineIO, MessageQueue), so
that their steps can be reasoned about without the other ten in sight: an obligation carries every instance its module
declares, and most of a prover's time goes into them. **StreamProofs** holds the invariants of these six and that their
steps keep them, **ProgramsProofs** those of the others and all theorems about a behaviour of Programs. **Pieces** has the one
operator on sequences that several programs share, for the same reason: each of them would bring all of SequencesExt with it.

## 4. The runs

| run | instance | checks | shows |
|---|---|---|---|
| loop_core | one poster, a notify channel, two connections, one failed accept (descriptor -1), map lengths 2 and 4, one wake-up byte fits in the socketpair | RegistryMatches, InterestCurrent, MapAccessInBounds, Refinement, EveryAddRegistered | map, interest list and channels agree; no `epoll_ctl` fails; no index past the map; every post takes effect once, in order and in the end |
| loop_faults | two posters, two connections that share a descriptor, all faults | LockInv, WakeupInFlight, CallbackOnlyWhileRegistered | the mutex discipline, the wake-up and the dispatching survive resets, failed allocations and early updates |
| loop_reset_add | one poster, two connections on one descriptor, resets | AddRegisters (violated) | finding 1 |
| handover | two workers, four clients, a ring of three; three I/O threads, five connections, four descriptors, two failed accepts | LoopsReady, Refinement, EveryClientServed, EveryConnectionServed | the ring is FdQueue, where no client is twice; no signal is lost; no connection for a loop that is not there; every connection that gets a descriptor gets a loop |
| buffer_queue | two different bytes, one garbage value, inputs of one to three bytes, arrays from 2 to 6 cells | IndicesInOrder, Refinement | no index leaves the array, the buffer is ByteQueue |
| conn | five bytes, a send queue of two, a client that may finish or reset | BytesConserved, ClosedOnce, EveryByteAnswered | nothing lost, doubled or overtaken; the end is told once, and after all that was sent has been read; who goes on gets every answer |
| conn_cast | three bytes, `channel->data` as built | NeverCrashes (violated) | finding 2 |
| poll_rounds | four channels, three slots | SlotsMatchMap, EventsMatch | slots, map and channels agree while callbacks change them; a channel hears of all the events reported for it and of no others, and one that found no slot of none; the early exit of the walk loses nothing |
| threads_own | two clients | OwnClient (violated) | finding 3 |
| udp_one_to_one | two clients with two questions each | OneToOne (violated) | finding 4 |
| pid_one_instance | three instances | OneInstance (violated) | finding 5 |
| programs | see below | one or two properties of each program | see below |

The properties of `programs`:

| property | module and instance | shows |
|---|---|---|
| LinesComeBack | ThreadsServer: 2 clients, 4 bytes together, buffer of 2 | lines come back one by one and in order, whole or, when one is longer than the buffer, its start, and the line behind it is none the worse for it |
| ClosedWithChild, EveryChildReaped | ForkServer: 3 connections | no process keeps a connection open that its child has left; coalesced SIGCHLDs leave no zombie |
| DeadMeansSilent, GoneIsNoticed | Heartbeat: 10 s, 3 probes 3 s apart, answers delayed by 0, 2 or 5 s | the server is given up after the whole silence only, and a server that is gone is noticed |
| AnswersFit | Datagram: 2 hosts, 2 questions each, 1 duplicate | an answer goes to who asked, and to the last question unless a datagram was doubled |
| OnePermit, EveryWaitEnds | SysVSemaphore: 3 runs, killed or not | two runs that create the set together still have one permit; nobody waits for ever except for a set whose creator was killed before SETVAL |
| EchoInOrder | NioServer: 2 peers, 3 descriptors, lines of 2 bytes in a buffer of 2 | a client's bytes come back in order whatever was left in the buffer before |
| NothingForgotten | EpollServer: 2 callers with 2 bytes, 2 events at a time, reads of 1 byte | no connection with something to read is left without an edge to come |
| ReadsOnlyReady | PollServer: 3 guests with 1 byte, 2 slots | no read of a blocking socket blocks, though slots and descriptors are reused within a round |
| PiecesWhole | Framing: fields of 2 bytes, bodies of 1 or 2, 2 messages, and 5 bytes for chapters 5 and 17 | messages come out whole and in order however the stream is cut up, and so do the bytes of chapters 5 and 17, whoever is killed |
| AnswersComeBack | HiServer: 3 lines | every answer comes back in order, after a shutdown too; where one of the two is killed only the last is missed; lines are read once and without a gap, and all of them unless the connection was reset |
| KeptApart, ComeAndGo | Reactor: 2 loops, 3 clients, 3 descriptors | an open descriptor is watched by one loop, for the connection it is now; the server gets to where who is there is served and who has left is not, but for one whose own loop has the dead channel of finding 1 |
| LinesSplit | LineIO: texts of 4 characters, a buffer of 3 | read_line and readLine split where lines end, however the text arrives and ends; read_line until a signal interrupts it, read_line_buffered until it has forgotten something |
| MessagesWhole | MessageQueue: 2 senders with a line each, buffers of 4 | messages come out in order and as they were typed, as long as the queue is there |
| SegmentsGo | SharedMemory: 3 runs, killed or not | memory stays while it is used and is left behind only by runs that were all killed |
| EchoedSoon | TtyEcho: 5 tries | what is typed is echoed by the next read; a timeout means that nothing came before the last |
| PidTrue | PidFile: 3 instances | the pid in a file is that of the instance that runs with it, whatever was killed or deleted; two that run (finding 5) never have one file |

**Bounds.** Each is the smallest at which the interesting case happens more than once. Two
map lengths make the map grow once and be full once. A ring of three holds two
clients, so four clients fill it, wrap it and overflow it. Arrays that grow from 2 to 6
cells pass through all three cases of `make_room`, twice. A send queue of two and five
bytes give a full write, a partial write, none at all and an answer queued behind
another. Three threads and five connections take the round robin once around and into a second
round; the fourth descriptor is the last. Three slots and four channels fill the table, leave
one channel without a slot, and free and reuse a slot in the middle of a walk. Two loops and three clients bring
a descriptor that one loop closed to the other loop, and back to the first with its old channel in the map. Four bytes and a buffer of two
let a line be longer than the buffer, with another behind it, or go to two clients. Texts of
four characters in a buffer of three have every end of a line at, before and behind the end of the
buffer. Three connections in ForkServer let two children exit while
the handler runs for a third. Two datagrams of each client are what a late answer
needs to meet the wrong question. Bounds are constants with `Max...` names, checked in the guards,
and the theorems hold for all their values.

**Deadlock** is not checked: with no more clients, bytes or connections these systems stop, as
they should. What must not stop is stated as liveness.

**Fairness.** Threads and processes that can go on do (weak fairness). A mutex that is released again and
again is obtained in the end by a thread that waits for it (strong fairness of `Lock`,
`HandleLock`, `PushLock`, `PopLock`, `ThreadLock`): every critical section in the code ends without
blocking, so a free mutex is all that it takes; that the scheduler starves nobody is assumed. Callbacks return, since the
applications of chapters 27-29 only post and copy (strong, because a callback that posts is
suspended meanwhile). In `conn` the client reads what arrives;
in `programs` processes run and time passes; the loops of Reactor run, and its main loop obtains
the mutex of a loop that lets go of it time and again (strong). Nothing makes a client connect, send or
leave, nor a callback post.

## 5. What is proved

TLAPS proves, for every value of the constants that their assumptions allow:

| module | theorem | of |
|---|---|---|
| EventLoopProofs | TypeCorrect, MutualExclusion, NoAssertFails, NoLostWakeup, MapAlwaysFits | TypeOK, LockInv, AssertNeverFails, WakeupInFlight, MapFits |
| | CallbacksAreRegistered, MapReadsInBounds, RegistryAlwaysMatches, InterestAlwaysCurrent, EveryAddRegisters | CallbackOnlyWhileRegistered, MapAccessInBounds, RegistryMatches, InterestCurrent, AddRegisters |
| | ImplementsQueue | the safety part of Refinement |
| BlockQueueProofs | TypeCorrect, MutualExclusion, ImplementsFdQueue | TypeOK, LockInv, Refinement |
| BufferProofs | TypeCorrect, NoOverflow, GrowthIsNeeded, ImplementsByteQueue | TypeOK, IndicesInOrder, GrowsOnlyWhenFull, Refinement |
| TcpConnectionProofs | BytesAlwaysConserved, ClosedExactlyOnce | BytesConserved, ClosedOnce |
| TcpServerProofs | TypeCorrect, NoSignalIsMissed, LoopsAreReady, LoopsTakeTurns | TcpTypeOK, NoMissedSignal, LoopsReady, TakeTurns |
| PollDispatcherProofs | TypeCorrect, SlotsAlwaysMatch, EventsAlwaysMatch | TypeOK, SlotsMatchMap, EventsMatch |
| ProgramsProofs | ProgramsTypeCorrect | TypeOK |
| | PidAlwaysTrue, SegmentsAlwaysGo, PermitAlwaysOne, AlwaysEchoedSoon | PidTrue, SegmentsGo, OnePermit, EchoedSoon |
| | ClosesWithChild, NothingEverForgotten, NeverBlockedInRead, LoopsKeptApart | ClosedWithChild, NothingForgotten, ReadsOnlyReady, KeptApart |
| | DeadOnlyIfSilent, AnswersAlwaysFit, EchoAlwaysInOrder | DeadMeansSilent, AnswersFit, EchoInOrder |
| | LinesAlwaysComeBack, PiecesAlwaysWhole, AnswersAlwaysComeBack | LinesComeBack, PiecesWhole, AnswersComeBack |
| | LinesAlwaysSplit, MessagesAlwaysWhole | LinesSplit, MessagesWhole |

*EventLoop.* The assumptions are about threads, channels and the lengths `channel_map_make_space` can reach.
TypeOK is inductive. LockInv (who is in the critical section holds the mutex, and `handling` or a
started walk mean that the owner is walking) is inductive relative to TypeOK, and contains the assertion of
`event_loop.c:185`. WakeupInFlight is inductive relative to TypeOK. For the refinement the
operations to come are the part of `pending` from `node` on: `Enqueue` is the
abstract post, `HandleNode` the abstract application, and LockInv is what makes every other
step a stutter, since nobody else can touch the list during a walk.

The other theorems relate the map, the interest list and the operations under way. `RoundInv`: an event
still to be delivered is for a channel in the interest list. `BoundsInv`: whoever has posted, or is
posting, a DELETE or an UPDATE is below `mapLen`; so the guard of `event_loop.c:142` does no harm.
`RegistryInv`: every operation that is posted is for an open descriptor. `InterestInv`: each registered channel has its
events in the interest list, or an UPDATE queued behind `node` or in the hands of a thread.
`AddInv`: the ADD of a channel is in one place at most, and until it is handled the channel is not in the map.
Three theorems exclude faults under which the code does break the property: MapReadsInBounds,
RegistryAlwaysMatches and EveryAddRegisters assume that no connection asks for an update before its ADD is posted
(`NoEarlyUpdate`, finding in section 6), the last two also that no peer resets its connection (`NoPeerReset`, finding 1);
InterestAlwaysCurrent assumes no fault at all, since a failed `epoll_ctl` or allocation is only logged.

*BlockQueue.* TypeOK and LockInv are inductive; the abstract queue is the ring read
from `front` to `rear`, and the case that `rear` meets `front` is the abstract loss.

*Buffer.* All theorems assume `~MemoryFails`: `make_room` checks the result of `realloc`, but
its callers go on as if there were room. `Inv`, types and indices in order, is inductive; lemmas state
that moving, growing and appending keep the contents, cell by cell.

*TcpConnection.* `StreamInv`: the bytes between the client's send and its read, concatenated, are
`1 .. sent`; every step moves bytes from the end of one segment to the next or leaves
them. `CloseInv`: a channel that has left the loop has no interest left, and while READ is still
to be delivered there is something to read or the stream has ended, because only `handle_read`
empties the receive queue; so no second callback closes the connection again. TLC shows what this
needs of the loop around it.

*TcpServer.* `IInv` is TcpTypeOK, `StartInv` (how far each thread has got as a function of the main
thread's `mainPc` and `i`: `loop[t]` is set exactly from the thread's unlock on, and
every earlier thread's loop is there), `MutexInv` (the mutex of a thread is
held by whoever is between its lock and unlock) and `TurnInv` (loops below `position` have been
chosen once more than the others). LoopsReady alone is not inductive: it says nothing of the
thread that is being started.

*PollDispatcher.* SlotsMatchMap is inductive relative to TypeOK. EventsMatch needs `AheadInv`: the slots the walk
has still to look at belong to the channels poll reported for, since a callback frees only the slot the walk
is at, and `left` counts those of them that have something to tell; so stopping at zero skips none.

*Programs.* The assumptions are what the code's constants satisfy: what stands for nobody is not one of those it is told apart
from (`NobodyAssumption`, `NoPeerAssumption`), sizes, times and the bounds of the model are counts (`NumbersAssumption`,
`SizesAssumption`, `BoundsAssumption`; the epoll server has finitely many clients, of any number), a field of a message has
bytes and fits in the buffer (`FramingAssumption`), the buffer of `read_line` holds a byte and the `\0`
(`LinesAssumption`), and a message has bytes (`MessagesAssumption`). Each proof is about one
program and starts from a lemma that a step of Programs is one of its steps or leaves its variables alone. The invariants:

* PidFile: from the lock on, the instance that holds it is the only one past it with that file. SharedMemory: a
  segment that is marked has a user, and of one that is not marked no user has ended. SysVSemaphore: who blocks finds no
  permit, and who holds it has it in `undo`. TtyEcho: what was typed waits for the next read.
* ForkServer: the descriptors of each process as a function of where it is. EpollServer: what has arrived on
  an open connection is in `ready`, in `events` or being handled. Heartbeat: the silence and what is left of the
  timeout make up the time for the PINGs that were sent.
* PollServer: every open descriptor is in exactly one slot, and what `poll` found in a slot is still there when
  the walk comes to it.
* Reactor: an ADD that waits is for an open connection whose descriptor nobody else serves or will be given; a loop handles
  the DELETE it has posted before any other event.
* Datagram: while nothing is duplicated a question that is waited for, or its answer, is in one place at most; in chapter 14
  answers are for the peer the socket is connected to.
* NioServer: what a connected client was sent, what is left for it in the buffer and what is unread hold its bytes in order, and
  all of them unless some were abandoned (`OrderInv`); who is still to be accepted has no byte in any buffer, although a buffer
  may hold those of the client before it (`SaidInv`).
* ThreadsServer: what a thread alone with its client has sent back, with the line in its buffer, is the start of each line
  of what it was sent (`ServedInv`); a byte more lengthens the last line or begins another (lemmas on TextLines).
* Framing: the bytes that are unread are those from the next one to the end of the last message typed, each the successor of
  the one before it (`Chained`), and `readerAt`, `left` and `got` tell which is next. The chain, unlike the concatenation
  of the messages themselves, can be taken apart at any byte, which is what the cuts of the network do.
* HiServer: in chapters 11 and 13 what was answered, is in hand and is unread are, joined, the first lines sent, all of
  them while the connection is not reset, and what was printed and is on its way are the first lines of what was answered
  (`ReadingInv`, `RunningInv`); a reset takes only lines from the end of what is unread. In chapters 7 and 17 at most one
  line is under way, in one place (`WaitingInv`).
* LineIO: what `read_line` has returned, with the line begun, is the text read with each end of line a newline, and no
  newline follows a carriage return unless it is looked for, which is what survives a cut between the two (`ReturnInv`);
  `readLine` has returned the starts of the lines of what was read (`CutInv`); `read_line_buffered` has what it returned, the
  line and its static buffer, or has forgotten something (`BufferedInv`).
* MessageQueue: what each sender has read is posted in order but for the one it is about to send (`SentInOrderInv`, with
  `CountOf` for its place among those of the others), and what is printed and then what is queued is what was posted
  (`WatchInv`); of an ended text the receiver's buffer shows all up to the `\0` it was sent with, whatever a longer one left
  behind it.

Most of these hold the types of the program they are about. What TypeOK needs besides: a thread's buffer and the nio
server's do not overflow (`FitInv`, `NioPlaces`), Framing's message is no longer than its buffer and one (`FrameFit`), lines
stay lines of a client (`HiFit`), the poll server has read no more than was written (`CountsInv`), and the epoll server
sends back no more than it was sent (`SharesInv`); a PING client that waits has sent no more than ProbeTimes
(`PingTypes`), and a run has nothing to undo before it takes the permit and owes none while it sleeps with it (`UndoTypes`),
although SETVAL clears the adjustments of all runs.

TLC checked each of these invariants before it was proved, and then the property alone is what the runs check.

Every invariant that a passing run checks is proved, with the exclusions above. Out of the prover's reach, and
therefore only model-checked: everything under fairness (EveryAddRegistered, EveryClientServed, EveryConnectionServed, EveryByteAnswered,
EveryChildReaped, GoneIsNoticed, EveryWaitEnds, ComeAndGo and the fair part of the first refinement) and ENABLED.

## 6. Findings

1. `event_dispatcher_epoll.c:117`: the error branch closes a descriptor and leaves its channel in the map; the
   next connection with that number is never registered, against the comment at
   `event_loop.c:91` (loop_reset_add).
2. `tcp_connection.c:151`: `channel->data` is the connection, `channel_event_enable_write` takes it for the
   loop; the comment at line 150 explains why that should be right, and it is not: the first member
   is a pointer to the loop (conn_cast).
3. `threads_server.c:50`: every thread gets the address of the same `client_fd`; two may serve one client and
   none the other (threads_own).
4. `udp_connect_server.c:90`: after `connect` a question of another client that was queued before is still
   read, against the comment at line 77 (udp_one_to_one).
5. `create_pid_file.c:63`: an instance that has opened the file when another deletes it gets the lock of a file without a
   name, and the next instance makes a new one: two run, although the comment at line 13 says that the function ensures
   that only one does (pid_one_instance). It is the book's code and nobody calls it. What does hold is PidTrue.

Other things the models do because the code does, where no comment says otherwise, or where a
module states the property without a run:

* `buffer.c:61`: after a failed `realloc` the next append leaves the array. `buffer_find_CRLF`, which nothing calls,
  may look past the readable bytes (CRLFIsReadable).
* No program of chapters 27 to 29 ignores SIGPIPE: a client that resets at the wrong moment ends the server
  (NeverKilled). A client that finishes while answers wait loses them, and its
  descriptor is never closed (FinishedIsClosed; `tcp_connection.c:9` only removes the channel): each
  such client costs the process one, as in Reactor.
* `event_loop.c:142`: `fd == map->length` passes the guard; it is reached when a new connection sends
  more than the socket takes before its ADD was handled.
* `tcp_server.c`: an `accept` that fails hands on descriptor -1 (OnlyConnections); EventLoop ignores it.
* `event_dispatcher_poll.c:65`: with all slots taken a channel is dropped and success reported (AllRegistered).
* `sysv_s_sem_sample.h:39`: SimpleTwoSemaphore sets the value again in every run. A TwoSemaphore whose creator dies
  before SETVAL stays at 0.
* `nio_server.c`: `result` is not initialised, a buffer is not emptied for the next client on its
  descriptor, and the check of a new descriptor lets FD_INIT_SIZE through, one past the table.
* `ping_client.c:53`: a typed line is never read, and then `select` returns at once and no timeout comes any more.
* `epoll_server.c`: one connection per edge of the listening socket; a short write drops bytes; EAGAIN on a write ends
  the server.
* `chapter11`: read errors are not noticed because the result is unsigned; lines that arrive together get one answer.
* `sysv_msg_sender.c`: a line that fills the buffer but for its newline ends the sender (line 45 takes the newline that
  is left for an empty line), a last line of one character without a newline is not sent, and the first
  sender to end removes the queue of all.
* `sysv_msg_receiver.c`: text without a newline is printed with the end of an earlier, longer message behind it.
* `io_read_write.c:134`: what is typed during the last second is not looked at (EchoedSoon excepts it).
* `read.c:87`: a signal that interrupts `read_line` ends the line, and its rest comes as another.
* `loop_echo.c:20`: the error of one client's connection ends the process, and with it the threads of all.
* `channel.c:53` and `:59`: finding 2 again, seen from the loop. EventLoop posts an UPDATE to the loop of the channel
  (`CallbackUpdate`), which is what the comment at `tcp_connection.c:150` means the cast to do; as built the pointer is
  that of the connection. So what EventLoop shows of UPDATEs (InterestCurrent above all) is about the code with `data`
  as that comment has it; conn_cast shows what becomes of it otherwise.
* `read.c:100`: `read_line_buffered` keeps its buffer from call to call but not the number of bytes in it, and
  forgets what came behind a newline; at the end of the stream the rest of a line is not reported.
* `chapter05/tcp_server.c` and `chapter07/unix_stream_server.c` pass an uninitialised length to `accept`.

## 7. What is not modelled

* The text of messages, logging, names of connections and threads; rot13 is a marker on bytes.
* Functions nothing calls: `tcp_connection_shutdown`, `epoll_clear`, `poll_clear`, `channel_map_clear`, `buffer_free`,
  `acceptor_free`, `lockRegionWait`, `regionIsLocked`; `loop->quit` is never set.
* SIGINT in the servers of the chapters, and the reading side of `select_client.c`.
* The demonstrations of chapters 4, 15 and 30 and the other samples of `linux-c-programming`: one system call
  after the other, without state of their own. Chapters 4 and 15 are about SO_REUSEADDR and TIME_WAIT, which are the kernel's.
  The rest of `linux-c-programming/lib/{tlpi,apue}` is other people's code that nothing here calls.
* Weak memory: threads share data only under their mutexes, except for `client_fd` of
  `threads_server.c`: there ThreadsServer has the thread read the value of the moment, at any moment after
  its creation, which is what the build does with a variable whose address has been given away.
