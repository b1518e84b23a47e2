----------------------------- MODULE EventLoop -----------------------------
(***************************************************************************)
(* One event_loop of linux-c-np-geektime/lib: the pending queue that any   *)
(* thread fills under loop->mutex, the socketpair that wakes its owner     *)
(* thread, the channel_map, and the epoll dispatcher the loop registers    *)
(* its channels with.                                                      *)
(*                                                                         *)
(* The owner runs event_loop_run: epoll_wait, the callbacks of the ready   *)
(* channels, then event_loop_handle_pending_channel.  Every other thread   *)
(* is a poster: it creates channels (tcp_connection_new) and posts them.   *)
(* What the connection callbacks do to the loop is left open here: while   *)
(* a callback runs it may post UPDATE and DELETE for its own channel.      *)
(***************************************************************************)
EXTENDS Integers, Sequences, FiniteSets

CONSTANTS
  Posters,     \* threads other than the owner, each may call tcp_connection_new
  Owner,       \* loop->owner_thread_id
  Channels,    \* the struct channel objects, Notify among them
  Notify,      \* the channel of socket_pair[SOCKET_PAIR_READ]
  FdOf,        \* channel->fd, set once by channel_new; -1 when accept failed
  MapLengths,  \* the lengths channel_map_make_space can reach: 32, 64, 128, ...
  SocketCap,   \* bytes the socketpair holds before write() blocks
  Faults,      \* which of AllFaults the environment may commit
  NoThread, NoChannel

\* "early_update": on_new_connection sends, so the UPDATE precedes the ADD
\* "peer_reset":   epoll reports EPOLLERR or EPOLLHUP for a connection
\* "no_memory":    malloc of a channel_node fails
AllFaults == {"early_update", "peer_reset", "no_memory"}

Threads == Posters \union {Owner}
Fds     == {FdOf[c] : c \in Channels} \ {-1}
Events  == {"READ", "WRITE"}
OpTypes == {"ADD", "DELETE", "UPDATE"}
Ops     == [type : OpTypes, chan : Channels]

ASSUME ThreadsAssumption ==
  Owner \notin Posters /\ NoThread \notin Threads

ASSUME ChannelsAssumption ==
  /\ Notify \in Channels
  /\ NoChannel \notin Channels
  /\ FdOf \in [Channels -> Nat \union {-1}]
  /\ \A c \in Channels : FdOf[c] = FdOf[Notify] <=> c = Notify
  /\ FdOf[Notify] # -1

ASSUME LengthsAssumption ==
  /\ MapLengths \subseteq Nat
  /\ \A f \in Fds : \E n \in MapLengths :
       n > f /\ \A m \in MapLengths : m > f => n <= m

ASSUME LimitsAssumption ==
  SocketCap \in Nat \ {0} /\ Faults \subseteq AllFaults

VARIABLES
  mutex,      \* the thread that holds loop->mutex, or NoThread
  handling,   \* loop->is_handling_pending_channel
  pending,    \* the list pending_head .. pending_tail
  node,       \* index in pending of the node being handled (1 outside a walk)
  map,        \* channel_map->entities
  mapLen,     \* channel_map->length
  interest,   \* epoll interest list: events per fd, {} when not registered
  open,       \* open file descriptors
  events,     \* channel->events
  created,    \* channels that exist
  bytes,      \* unread bytes in the socketpair
  batch,      \* entries of epoll_events not looked at yet
  current,    \* the entry being dispatched, with the events still to deliver
  running,    \* the channel whose callback runs
  published,  \* event_loop_init has returned: other threads know the loop
  pc, op, ret,\* per thread: control, the operation being posted, its return
  proc        \* "running", "aborted" (assert) or "exited" (error(1, ...))

queueVars  == <<mutex, handling, pending, node>>
tableVars  == <<map, mapLen, interest>>
chanVars   == <<open, events, created>>
roundVars  == <<batch, current, running>>
threadVars == <<pc, op, ret>>
vars == <<queueVars, tableVars, chanVars, roundVars, threadVars,
          bytes, published, proc>>

Entries == [fd : Fds, evs : SUBSET Events, err : BOOLEAN]
OwnerPcs  == {"lock", "enqueue", "unlock", "hlock", "walk",
              "init_done", "wait", "dispatch", "callback", "created"}
PosterPcs == {"idle", "created", "lock", "enqueue", "unlock", "wakeup"}

QueueType ==
  /\ mutex \in Threads \union {NoThread}
  /\ handling \in BOOLEAN
  /\ pending \in Seq(Ops)
  /\ node \in 1 .. Len(pending) + 1

TableType ==
  /\ map \in [Fds -> Channels \union {NoChannel}]
  /\ mapLen \in MapLengths \union {0}
  /\ interest \in [Fds -> SUBSET Events]

ChanType ==
  /\ open \subseteq Fds
  /\ events \in [Channels -> SUBSET Events]
  /\ created \subseteq Channels

RoundType ==
  /\ batch \subseteq Entries
  /\ current \in Entries
  /\ running \in Channels

PcType ==
  /\ pc \in [Threads -> OwnerPcs \union PosterPcs]
  /\ pc[Owner] \in OwnerPcs
  /\ \A p \in Posters : pc[p] \in PosterPcs

CallType ==
  /\ op \in [Threads -> Ops]
  /\ ret \in [Threads -> {"init_done", "wait", "callback", "created", "idle"}]
  /\ ret[Owner] \in {"init_done", "wait", "callback", "created"}
  /\ \A p \in Posters : ret[p] \in {"created", "idle"}

\* Every variable has its type, and every thread is at a label of its program.
TypeOK ==
  /\ QueueType /\ TableType /\ ChanType /\ RoundType /\ PcType /\ CallType
  /\ bytes \in 0 .. SocketCap
  /\ published \in BOOLEAN
  /\ proc \in {"running", "aborted", "exited"}

-----------------------------------------------------------------------------
Op(type, c) == [type |-> type, chan |-> c]

\* event_loop_init_with_name has filled in the loop and is about to call
\* event_loop_add_channel_event for the notification channel.
Init ==
  /\ mutex = NoThread /\ handling = FALSE /\ pending = <<>> /\ node = 1
  /\ map = [f \in Fds |-> NoChannel] /\ mapLen = 0
  /\ interest = [f \in Fds |-> {}]
  /\ open = {FdOf[Notify]} /\ created = {Notify}
  /\ events = [c \in Channels |-> {"READ"}]
  /\ bytes = 0 /\ published = FALSE /\ proc = "running"
  /\ batch = {} /\ running = Notify
  /\ current = [fd |-> FdOf[Notify], evs |-> {}, err |-> FALSE]
  /\ pc  = [t \in Threads |-> IF t = Owner THEN "lock" ELSE "idle"]
  /\ op  = [t \in Threads |-> Op("ADD", Notify)]
  /\ ret = [t \in Threads |-> IF t = Owner THEN "init_done" ELSE "idle"]

At(t, label) == proc = "running" /\ pc[t] = label
Goto(t, label) == pc' = [pc EXCEPT ![t] = label]

\* event_loop_{add,remove,update}_channel_event(loop, channel->fd, channel)
\* called by t, which continues at back when the call returns.
Post(t, type, c, back) ==
  /\ op'  = [op  EXCEPT ![t] = Op(type, c)]
  /\ ret' = [ret EXCEPT ![t] = back]
  /\ Goto(t, "lock")

-----------------------------------------------------------------------------
(* event_loop_do_channel_event, by any thread                              *)

Lock(t) ==
  /\ At(t, "lock") /\ mutex = NoThread
  /\ mutex' = t
  /\ Goto(t, "enqueue")
  /\ UNCHANGED <<handling, pending, node, tableVars, chanVars, roundVars,
                 op, ret, bytes, published, proc>>

\* assert(!is_handling_pending_channel), then the node goes to the tail.
Enqueue(t) ==
  /\ At(t, "enqueue")
  /\ \/ /\ handling
        /\ proc' = "aborted"
        /\ UNCHANGED <<pending, pc>>
     \/ /\ ~handling
        /\ pending' = Append(pending, op[t])
        /\ Goto(t, "unlock")
        /\ UNCHANGED proc
     \/ /\ ~handling /\ "no_memory" \in Faults
        /\ Goto(t, "unlock")
        /\ UNCHANGED <<pending, proc>>
  /\ UNCHANGED <<mutex, handling, node, tableVars, chanVars, roundVars,
                 op, ret, bytes, published>>

\* Mutant of Unlock: a poster returns without waking the owner.
UnlockSilent(t) ==
  /\ At(t, "unlock")
  /\ mutex' = NoThread
  /\ Goto(t, IF t = Owner THEN "hlock" ELSE ret[t])
  /\ UNCHANGED <<handling, pending, node, tableVars, chanVars, roundVars,
                 op, ret, bytes, published, proc>>

\* The owner handles the queue itself, any other thread wakes the owner.
Unlock(t) ==
  /\ At(t, "unlock")
  /\ mutex' = NoThread
  /\ Goto(t, IF t = Owner THEN "hlock" ELSE "wakeup")
  /\ UNCHANGED <<handling, pending, node, tableVars, chanVars, roundVars,
                 op, ret, bytes, published, proc>>

\* event_loop_wakeup_thread: the blocking write of one byte.
Wakeup(p) ==
  /\ At(p, "wakeup") /\ bytes < SocketCap
  /\ bytes' = bytes + 1
  /\ Goto(p, ret[p])
  /\ UNCHANGED <<queueVars, tableVars, chanVars, roundVars, op, ret,
                 published, proc>>

-----------------------------------------------------------------------------
(* event_loop_handle_pending_channel, by the owner                         *)

\* Mutant of HandleLock: the walk starts whoever holds the mutex.
HandleLockUnguarded ==
  /\ At(Owner, "hlock")
  /\ mutex' = Owner /\ handling' = TRUE
  /\ Goto(Owner, "walk")
  /\ UNCHANGED <<pending, node, tableVars, chanVars, roundVars, op, ret,
                 bytes, published, proc>>

HandleLock ==
  /\ At(Owner, "hlock") /\ mutex = NoThread
  /\ mutex' = Owner /\ handling' = TRUE
  /\ Goto(Owner, "walk")
  /\ UNCHANGED <<pending, node, tableVars, chanVars, roundVars, op, ret,
                 bytes, published, proc>>

\* Mutant of Grown: the loop stops at length = fd.
GrownShort(fd) == CHOOSE n \in MapLengths :
                    n >= fd /\ \A m \in MapLengths : m >= fd => n <= m

\* channel_map_make_space doubles the length until fd fits.
Grown(fd) == CHOOSE n \in MapLengths :
               n > fd /\ \A m \in MapLengths : m > fd => n <= m

\* epoll_ctl succeeds and sets the interest of fd, or fails and error(1, ...)
\* ends the process.
EpollCtl(fd, ok, evs) ==
  /\ interest' = IF ok THEN [interest EXCEPT ![fd] = evs] ELSE interest
  /\ proc' = IF ok THEN proc ELSE "exited"

HandleAdd(c) ==
  LET fd == FdOf[c] IN
  \/ /\ fd < 0
     /\ UNCHANGED <<tableVars, proc>>
  \/ /\ fd >= 0
     /\ mapLen' = IF fd >= mapLen THEN Grown(fd) ELSE mapLen
     /\ \/ /\ map[fd] = NoChannel
           /\ map' = [map EXCEPT ![fd] = c]
           /\ EpollCtl(fd, fd \in open /\ interest[fd] = {}, events[c])
        \/ /\ map[fd] # NoChannel
           /\ UNCHANGED <<map, interest, proc>>

\* if (fd > map->length) return -1: the access this guard lets through.
Accessed(fd) == 0 <= fd /\ fd <= mapLen

\* Mutant of HandleRemove: the channel stays in the map.
HandleRemoveKeeps(c) ==
  LET fd == FdOf[c] IN
  IF ~Accessed(fd) \/ map[fd] = NoChannel THEN UNCHANGED <<tableVars, proc>>
  ELSE EpollCtl(fd, fd \in open, {}) /\ UNCHANGED <<map, mapLen>>

HandleRemove(c) ==
  LET fd == FdOf[c] IN
  \/ /\ ~Accessed(fd) \/ map[fd] = NoChannel
     /\ UNCHANGED <<tableVars, proc>>
  \/ /\ Accessed(fd) /\ map[fd] # NoChannel
     /\ EpollCtl(fd, fd \in open /\ interest[fd] # {}, {})
     /\ map' = [map EXCEPT ![fd] = NoChannel]
     /\ UNCHANGED mapLen

\* Mutant of HandleUpdate: the dispatcher is not told of the new events.
HandleUpdateSilent(c) == UNCHANGED <<tableVars, proc>>

\* entities[length] is past the end: what it holds is undefined, so the
\* update may go ahead as if a channel were registered.
HandleUpdate(c) ==
  LET fd == FdOf[c] IN
  \/ /\ ~Accessed(fd) \/ map[fd] = NoChannel
     /\ UNCHANGED <<tableVars, proc>>
  \/ /\ Accessed(fd) /\ (map[fd] # NoChannel \/ fd = mapLen)
     /\ EpollCtl(fd, fd \in open /\ interest[fd] # {}, events[c])
     /\ UNCHANGED <<map, mapLen>>

HandleNode ==
  /\ At(Owner, "walk") /\ node <= Len(pending)
  /\ LET n == pending[node] IN
       CASE n.type = "ADD"    -> HandleAdd(n.chan)
         [] n.type = "DELETE" -> HandleRemove(n.chan)
         [] n.type = "UPDATE" -> HandleUpdate(n.chan)
  /\ node' = node + 1
  /\ UNCHANGED <<mutex, handling, pending, chanVars, roundVars, threadVars,
                 bytes, published>>

HandleDone ==
  /\ At(Owner, "walk") /\ node > Len(pending)
  /\ pending' = <<>> /\ node' = 1
  /\ handling' = FALSE /\ mutex' = NoThread
  /\ Goto(Owner, ret[Owner])
  /\ UNCHANGED <<tableVars, chanVars, roundVars, op, ret, bytes, published, proc>>

-----------------------------------------------------------------------------
(* event_loop_run and epoll_dispatch                                       *)

\* event_loop_init returns, the loop is handed out and event_loop_run starts.
Publish ==
  /\ At(Owner, "init_done")
  /\ published' = TRUE
  /\ Goto(Owner, "wait")
  /\ UNCHANGED <<queueVars, tableVars, chanVars, roundVars, op, ret, bytes, proc>>

NotifyEntry == [fd |-> FdOf[Notify], evs |-> {"READ"}, err |-> FALSE]

\* What epoll_wait may report for the other descriptors of the interest list.
ConnEntries ==
  {e \in Entries :
     /\ e.fd # FdOf[Notify] /\ interest[e.fd] # {}
     /\ \/ ~e.err /\ e.evs # {} /\ e.evs \subseteq interest[e.fd]
        \/ e.err /\ e.evs = {} /\ "peer_reset" \in Faults}

\* epoll_wait(..., -1) returns a nonempty set of entries, one per descriptor.
\* It is level triggered: the socketpair is reported while it holds a byte.
Wait ==
  /\ At(Owner, "wait")
  /\ \E conns \in SUBSET ConnEntries :
       /\ \A e1, e2 \in conns : e1.fd = e2.fd => e1 = e2
       /\ batch' = conns \union (IF bytes > 0 /\ "READ" \in interest[FdOf[Notify]]
                                 THEN {NotifyEntry} ELSE {})
  /\ batch' # {}
  /\ Goto(Owner, "dispatch")
  /\ UNCHANGED <<queueVars, tableVars, chanVars, current, running, op, ret,
                 bytes, published, proc>>

\* The next entry of the batch; an error entry only closes the descriptor,
\* which also takes it out of the interest list.
NextEntry ==
  /\ At(Owner, "dispatch") /\ current.evs = {}
  /\ \E e \in batch :
       /\ batch' = batch \ {e}
       /\ current' = e
       /\ open' = IF e.err THEN open \ {e.fd} ELSE open
       /\ interest' = IF e.err THEN [interest EXCEPT ![e.fd] = {}] ELSE interest
  /\ UNCHANGED <<queueVars, map, mapLen, events, created, running, threadVars,
                 bytes, published, proc>>

\* event_loop_active(loop, fd, ev): READ first, then WRITE.  The callback of
\* the notification channel reads one byte, the read blocks when there is none.
Active ==
  /\ At(Owner, "dispatch")
  /\ \E ev \in current.evs :
       /\ ev = "WRITE" => "READ" \notin current.evs
       /\ current' = [current EXCEPT !.evs = @ \ {ev}]
  /\ LET fd == current.fd IN
       \/ /\ ~Accessed(fd) \/ map[fd] = NoChannel
          /\ UNCHANGED <<bytes, pc, running>>
       \/ /\ Accessed(fd) /\ map[fd] = Notify
          /\ bytes > 0 /\ bytes' = bytes - 1
          /\ UNCHANGED <<pc, running>>
       \/ /\ Accessed(fd) /\ map[fd] \in Channels \ {Notify}
          /\ running' = map[fd]
          /\ Goto(Owner, "callback")
          /\ UNCHANGED bytes
  /\ UNCHANGED <<queueVars, tableVars, chanVars, batch, op, ret, published, proc>>

\* channel_event_enable_write / channel_event_disable_write from a callback.  They
\* take channel->data for the loop, and it is taken as meant here: in the programs
\* it is the connection (NeverCrashes of TcpConnection).
CallbackUpdate ==
  /\ At(Owner, "callback")
  /\ \E evs \in {events[running] \union {"WRITE"}, events[running] \ {"WRITE"}} :
       evs # events[running] /\ events' = [events EXCEPT ![running] = evs]
  /\ Post(Owner, "UPDATE", running, "callback")
  /\ UNCHANGED <<queueVars, tableVars, open, created, roundVars, bytes,
                 published, proc>>

\* handle_connection_closed from a callback
CallbackRemove ==
  /\ At(Owner, "callback")
  /\ Post(Owner, "DELETE", running, "callback")
  /\ UNCHANGED <<queueVars, tableVars, chanVars, roundVars, bytes, published, proc>>

CallbackReturn ==
  /\ At(Owner, "callback")
  /\ Goto(Owner, "dispatch")
  /\ UNCHANGED <<queueVars, tableVars, chanVars, roundVars, op, ret, bytes,
                 published, proc>>

\* Mutant of RoundDone: the owner goes back to epoll_wait straight away.
RoundDoneWaits ==
  /\ At(Owner, "dispatch") /\ current.evs = {} /\ batch = {}
  /\ Goto(Owner, "wait")
  /\ UNCHANGED <<queueVars, tableVars, chanVars, roundVars, op, ret, bytes,
                 published, proc>>

\* The batch is done: event_loop_run handles what was posted meanwhile.
RoundDone ==
  /\ At(Owner, "dispatch") /\ current.evs = {} /\ batch = {}
  /\ ret' = [ret EXCEPT ![Owner] = "wait"]
  /\ Goto(Owner, "hlock")
  /\ UNCHANGED <<queueVars, tableVars, chanVars, roundVars, op, bytes,
                 published, proc>>

-----------------------------------------------------------------------------
(* A new channel: tcp_connection_new by any thread that knows the loop, and  *)
(* tcp_server_start by the owner before event_loop_run                       *)

\* Where a thread is when it may create a channel.
Home(t) == IF t # Owner THEN "idle" ELSE IF published THEN "callback" ELSE "init_done"

\* accept returned FdOf[c], a descriptor that is not open, or -1.
NewChannel(t) ==
  /\ At(t, Home(t)) /\ (published \/ t = Owner)
  /\ \E c \in Channels \ created :
       /\ FdOf[c] \notin open
       /\ created' = created \union {c}
       /\ open' = open \union ({FdOf[c]} \ {-1})
       /\ op' = [op EXCEPT ![t] = Op("ADD", c)]
  /\ Goto(t, "created")
  /\ UNCHANGED <<queueVars, tableVars, events, roundVars, ret, bytes,
                 published, proc>>

\* on_new_connection sends more than the socket takes: enable_write.
EarlyUpdate(t) ==
  /\ At(t, "created") /\ published /\ "early_update" \in Faults
  /\ LET c == op[t].chan IN
       /\ "WRITE" \notin events[c]
       /\ events' = [events EXCEPT ![c] = @ \union {"WRITE"}]
       /\ Post(t, "UPDATE", c, "created")
  /\ UNCHANGED <<queueVars, tableVars, open, created, roundVars, bytes,
                 published, proc>>

PostAdd(t) ==
  /\ At(t, "created")
  /\ Post(t, "ADD", op[t].chan, Home(t))
  /\ UNCHANGED <<queueVars, tableVars, chanVars, roundVars, bytes, published, proc>>

-----------------------------------------------------------------------------
OwnerStep ==
  \/ HandleLock \/ HandleNode \/ HandleDone \/ Publish
  \/ Wait \/ NextEntry \/ Active \/ RoundDone
  \/ CallbackUpdate \/ CallbackRemove \/ CallbackReturn

ThreadStep(t) ==
  \/ Lock(t) \/ Enqueue(t) \/ Unlock(t)
  \/ NewChannel(t) \/ EarlyUpdate(t) \/ PostAdd(t)

Next ==
  \/ \E t \in Threads : ThreadStep(t)
  \/ \E p \in Posters : Wakeup(p)
  \/ OwnerStep

Spec == Init /\ [][Next]_vars

\* Threads keep running; a thread that keeps asking for the mutex gets it in
\* the end (no holder keeps it); callbacks return.  Nothing makes a client
\* connect, a socket become ready or a callback post.
Fairness ==
  /\ \A t \in Threads : SF_vars(Lock(t)) /\ WF_vars(Enqueue(t)) /\ WF_vars(Unlock(t))
  /\ SF_vars(HandleLock) /\ WF_vars(HandleNode) /\ WF_vars(HandleDone)
  /\ WF_vars(Publish) /\ WF_vars(Wait) /\ WF_vars(NextEntry) /\ WF_vars(Active)
  /\ WF_vars(RoundDone) /\ SF_vars(CallbackReturn)
  /\ \A t \in Threads : WF_vars(PostAdd(t))
  /\ \A p \in Posters : WF_vars(Wakeup(p))

FairSpec == Spec /\ Fairness

-----------------------------------------------------------------------------
(* Safety                                                                  *)

\* assert(!loop->is_handling_pending_channel) of event_loop_do_channel_event
\* never fails: no thread holds the mutex while the owner walks the queue.
AssertNeverFails == proc # "aborted"

\* The mutex discipline behind it: whoever is inside the critical section
\* holds the mutex, and the queue is being walked only while the owner does.
LockInv ==
  /\ \A t \in Threads : pc[t] \in {"enqueue", "unlock"} => mutex = t
  /\ pc[Owner] = "walk" => mutex = Owner
  /\ handling \/ node # 1 => pc[Owner] = "walk"
  /\ AssertNeverFails

\* A posted operation never waits for an event that may not come: when the
\* owner is in epoll_wait with operations pending, a wake-up byte is in the
\* socketpair or its poster is still on its way to write it.
WakeupInFlight ==
  pc[Owner] \in {"init_done", "wait"} /\ pending # <<>> =>
    bytes > 0 \/ \E p \in Posters : pc[p] \in {"unlock", "wakeup"}

\* The channel_map and the epoll interest list tell the same story: a
\* descriptor has a channel exactly when epoll reports its events, and every
\* epoll_ctl finds the descriptor in the state it needs: no EEXIST, ENOENT or
\* EBADF ends the process, in whatever order ADD, UPDATE and DELETE arrive.
RegistryMatches ==
  /\ proc # "exited"
  /\ proc = "running" => \A f \in Fds : map[f] # NoChannel <=> interest[f] # {}

\* Thread t has set channel->events of c and not yet queued the update.
Updating(t, c) == pc[t] \in {"lock", "enqueue"} /\ op[t] = Op("UPDATE", c)

\* When the owner goes to sleep, epoll waits for the events each registered
\* channel asks for, unless an update of it is still on its way.
InterestCurrent ==
  proc = "running" /\ pc[Owner] = "wait" =>
    \A c \in Channels :
      \/ FdOf[c] = -1 \/ map[FdOf[c]] # c
      \/ interest[FdOf[c]] = events[c]
      \/ \E i \in 1 .. Len(pending) : pending[i] = Op("UPDATE", c)
      \/ \E t \in Threads : Updating(t, c)

\* The channels in the map are below channel_map->length.
MapFits == \A f \in Fds : map[f] # NoChannel => f < mapLen

\* Every index used on channel_map->entities is below channel_map->length:
\* those the guard "fd > map->length" lets through and those ADD filled in.
MapAccessInBounds ==
  /\ pc[Owner] = "walk" /\ node <= Len(pending) /\ pending[node].type # "ADD"
       => LET fd == FdOf[pending[node].chan] IN Accessed(fd) => fd < mapLen
  /\ pc[Owner] = "dispatch" /\ current.evs # {} /\ Accessed(current.fd)
       => current.fd < mapLen
  /\ MapFits

-----------------------------------------------------------------------------
(* Action properties                                                       *)

\* Handling the ADD of an open connection registers it: the map holds the
\* channel and epoll its events, whatever used the descriptor before.
AddRegisters ==
  [][\A c \in Channels :
       HandleNode /\ pending[node] = Op("ADD", c) /\ FdOf[c] # -1 =>
         map'[FdOf[c]] = c /\ interest'[FdOf[c]] = events[c]]_vars

\* A callback only starts for a descriptor that is in the interest list: a
\* channel removed while its events were being dispatched gets no more calls.
CallbackOnlyWhileRegistered ==
  [][pc[Owner] = "dispatch" /\ pc'[Owner] = "callback" =>
       interest[current.fd] # {} /\ FdOf[running'] = current.fd]_vars

-----------------------------------------------------------------------------
(* Liveness and refinement                                                 *)

\* A new connection is registered in the end, unless the process stops.
EveryAddRegistered ==
  \A c \in Channels : FdOf[c] # -1 =>
    ((\E t \in Threads : pc[t] = "created" /\ op[t] = Op("ADD", c))
       ~> (proc # "running" \/ map[FdOf[c]] = c))

\* EventLoop implements ChannelOpQueue: what is still to be applied is the
\* rest of the list from the node being handled.
Queue == INSTANCE ChannelOpQueue
           WITH todo <- SubSeq(pending, node, Len(pending)), registered <- map

\* The posts take effect exactly once and in order ...
RefinementSafety == Queue!Spec

\* ... and none is left waiting.
Refinement == Queue!FairSpec
=============================================================================
