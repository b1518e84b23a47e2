------------------------------ MODULE Reactor ------------------------------
(***************************************************************************)
(* The server of chapters 27 to 29 with epoll as a whole: the main thread  *)
(* accepts connections and posts them to the loops in turn (TcpServer),    *)
(* each loop has its queue of channel operations (ChannelOpQueue, which    *)
(* EventLoop implements), its channel_map and its epoll instance.  What    *)
(* they all share are the process's descriptors: the error branch of       *)
(* epoll_dispatch is the only code that closes one, accept() takes the     *)
(* smallest that is free, and the channel_maps are told of neither.        *)
(***************************************************************************)
EXTENDS Integers, Sequences

CONSTANTS
  N,                  \* io_thread_number, not 0
  MaxClients,         \* bound: clients that connect
  NoClient,
  FdLimit             \* bound: descriptors, enough for every client

Loops   == 0 .. N - 1
Fds     == 1 .. FdLimit
Clients == 1 .. MaxClients

\* A channel is made for a client and the descriptor it was accepted as.
Channels == Clients \X Fds
FdOf     == [ch \in Channels |-> ch[2]]

VARIABLES
  came,       \* clients that have connected
  accepted,   \* those that accept() has returned, in the same order
  gone,       \* how far the client has closed the connection: "no", "fin", "rst"
  unread,     \* the client has sent something that has not been read
  openAs,     \* whose connection each descriptor is, NoClient when it is closed
  accepting,  \* channels that handle_connection_established has still to post
  position,   \* thread_pool->position
  todo,       \* operations posted to each loop and not applied
  map,        \* the channel_map of each loop
  interest,   \* the descriptors in the interest list of each loop's epoll
  loopAt,     \* "wait" (in epoll_wait), "walk" (in epoll_dispatch), "drain"
  batch       \* events that epoll_wait returned and that have not been handled

clientVars == <<came, gone>>
mainVars   == <<accepted, accepting, position>>
tableVars  == <<map, interest>>
loopVars   == <<loopAt, batch>>
reactorVars == <<clientVars, mainVars, unread, openAs, todo, tableVars, loopVars>>

Event == Fds \X {"in", "err"}

Queue(l) == INSTANCE ChannelOpQueue
              WITH todo <- todo[l], registered <- map[l], NoChannel <- NoClient

ReactorTypeOK ==
  /\ came \in 0 .. MaxClients /\ accepted \in 0 .. came
  /\ gone \in [Clients -> {"no", "fin", "rst"}] /\ unread \subseteq Clients
  /\ openAs \in [Fds -> Clients \union {NoClient}]
  /\ accepting \in Seq(Channels) /\ position \in Loops
  /\ todo \in [Loops -> Seq([type : {"ADD", "DELETE"}, chan : Channels])]
  /\ map \in [Loops -> [Fds -> Channels \union {NoClient}]]
  /\ interest \in [Loops -> SUBSET Fds]
  /\ loopAt \in [Loops -> {"wait", "walk", "drain"}] /\ batch \in [Loops -> SUBSET Event]

\* acceptor_init
Listening == came = 0 /\ accepted = 0 /\ accepting = <<>>

\* main, after tcp_server_start
Init ==
  /\ Listening
  /\ gone = [c \in Clients |-> "no"] /\ unread = {}
  /\ openAs = [f \in Fds |-> NoClient] /\ position = 0
  /\ todo = [l \in Loops |-> <<>>]
  /\ map = [l \in Loops |-> [f \in Fds |-> NoClient]]
  /\ interest = [l \in Loops |-> {}]
  /\ loopAt = [l \in Loops |-> "wait"] /\ batch = [l \in Loops |-> {}]

-----------------------------------------------------------------------------
(* The main loop: handle_connection_established                            *)

FreeFds  == {f \in Fds : openAs[f] = NoClient}
Least(S) == CHOOSE n \in S : \A m \in S : n <= m

\* A failing accept() is in TcpServer.
Accept ==
  /\ accepted < came /\ accepting = <<>> /\ FreeFds # {}
  /\ accepted' = accepted + 1
  /\ LET f == Least(FreeFds) IN
       /\ openAs' = [openAs EXCEPT ![f] = accepted']
       /\ accepting' = <<<<accepted', f>>>>
  /\ UNCHANGED <<clientVars, position, unread, todo, tableVars, loopVars>>

\* Mutant of Posted: an operation that is waiting is overwritten.
PostedOver(l, o) == todo' = [todo EXCEPT ![l] = <<o>>]
Posted(l, o)     == todo' = [todo EXCEPT ![l] = Append(@, o)]

\* thread_pool_peek_work_loop and tcp_connection_new.  The loop's mutex keeps
\* the operation out while the queue is walked.
PostConnection ==
  /\ accepting # <<>> /\ accepting' = <<>> /\ loopAt[position] # "drain"
  /\ position' = IF position + 1 >= N THEN 0 ELSE position + 1
  /\ Posted(position, [type |-> "ADD", chan |-> Head(accepting)])
  /\ UNCHANGED <<clientVars, accepted, unread, openAs, tableVars, loopVars>>

-----------------------------------------------------------------------------
(* The loops: event_loop_run                                               *)

Ready(l, f) ==
  /\ f \in interest[l]
  /\ openAs[f] \in unread \/ gone[openAs[f]] # "no"

\* epoll_wait returns for events and for the byte that wakes the loop up.
Wait(l) ==
  /\ loopAt[l] = "wait"
  /\ \/ todo[l] # <<>>
     \/ \E f \in Fds : Ready(l, f)
  /\ batch' = [batch EXCEPT ![l] =
       {<<f, IF gone[openAs[f]] = "rst" THEN "err" ELSE "in">> : f \in {g \in Fds : Ready(l, g)}}]
  /\ loopAt' = [loopAt EXCEPT ![l] = "walk"]
  /\ UNCHANGED <<clientVars, mainVars, unread, openAs, todo, tableVars>>

\* Mutant of Handled: after an error the other events of the descriptor are
\* handled as well.
AlsoRead(l, e) == (batch[l] \ {e}) \union {<<e[1], "in">>}
Handled(l, e)  == batch[l] \ {e}

\* EPOLLERR and EPOLLHUP: close() and continue.  The kernel takes the descriptor
\* out of the interest list; the channel stays in the map.
Error(l, e) ==
  /\ loopAt[l] = "walk" /\ e \in batch[l] /\ e[2] = "err"
  /\ openAs' = [openAs EXCEPT ![e[1]] = NoClient]
  /\ interest' = [k \in Loops |-> interest[k] \ {e[1]}]
  /\ unread' = unread \ {openAs[e[1]]}
  /\ batch' = [batch EXCEPT ![l] = Handled(l, e)]
  /\ UNCHANGED <<clientVars, mainVars, todo, map, loopAt>>

\* event_loop_active and handle_read: what read() returns is decided now, not
\* when epoll_wait returned.  In the loop's own thread a DELETE that is posted
\* is handled at once, with all that waits before it.
Readable(l, e) ==
  LET c == openAs[e[1]] IN
  /\ loopAt[l] = "walk" /\ e \in batch[l] /\ e[2] = "in"
  /\ batch' = [batch EXCEPT ![l] = Handled(l, e)]
  /\ unread' = unread \ {c}
  /\ IF c \in unread
     THEN UNCHANGED <<todo, loopAt>>
     ELSE Posted(l, [type |-> "DELETE", chan |-> map[l][e[1]]])
          /\ loopAt' = [loopAt EXCEPT ![l] = "drain"]
  /\ UNCHANGED <<clientVars, mainVars, openAs, tableVars>>

WalkDone(l) ==
  /\ loopAt[l] = "walk" /\ batch[l] = {}
  /\ loopAt' = [loopAt EXCEPT ![l] = IF todo[l] = <<>> THEN "wait" ELSE "drain"]
  /\ UNCHANGED <<clientVars, mainVars, unread, openAs, todo, tableVars, batch>>

\* event_loop_handle_pending_channel, one node; epoll_ctl follows the map.
Apply(l) ==
  LET o  == Head(todo[l])
      fd == FdOf[o.chan] IN
  /\ loopAt[l] = "drain"
  /\ map' = [map EXCEPT ![l] = Queue(l)!Applied(map[l], o)]
  /\ interest' =
       CASE o.type = "ADD" /\ map'[l] # map[l] -> [interest EXCEPT ![l] = @ \union {fd}]
         [] o.type = "DELETE"                  -> [interest EXCEPT ![l] = @ \ {fd}]
         [] OTHER                              -> interest
  /\ todo' = [todo EXCEPT ![l] = Tail(@)]
  /\ loopAt' = [loopAt EXCEPT ![l] = IF todo'[l] # <<>> THEN "drain"
                                     ELSE IF batch[l] # {} THEN "walk" ELSE "wait"]
  /\ UNCHANGED <<clientVars, mainVars, unread, openAs, batch>>

-----------------------------------------------------------------------------
(* The clients                                                             *)

Connect ==
  /\ came < MaxClients /\ came' = came + 1
  /\ UNCHANGED <<gone, mainVars, unread, openAs, todo, tableVars, loopVars>>

Send(c) ==
  /\ c <= came /\ c \notin unread /\ gone[c] = "no" /\ unread' = unread \union {c}
  /\ UNCHANGED <<clientVars, mainVars, openAs, todo, tableVars, loopVars>>

Leave(c) ==
  /\ c <= came
  /\ \/ gone[c] = "no" /\ gone' = [gone EXCEPT ![c] = "fin"]
     \/ gone[c] # "rst" /\ gone' = [gone EXCEPT ![c] = "rst"]
  /\ UNCHANGED <<came, mainVars, unread, openAs, todo, tableVars, loopVars>>

-----------------------------------------------------------------------------
MainLoop == Accept \/ PostConnection

Loop(l) ==
  \/ Wait(l) \/ WalkDone(l) \/ Apply(l)
  \/ \E e \in batch[l] : Error(l, e) \/ Readable(l, e)

Next ==
  \/ MainLoop \/ Connect
  \/ \E l \in Loops : Loop(l)
  \/ \E c \in Clients : Send(c) \/ Leave(c)

Spec == Init /\ [][Next]_reactorVars

-----------------------------------------------------------------------------
\* Connections are kept apart although the loops share the descriptors and
\* nobody tells a channel_map when one is closed and taken again: an open
\* descriptor is in the interest list of one loop at most, that loop's map
\* holds the channel that was made for the very connection, and an event that
\* is still to be handled is one of it.  Else a loop would read, or close, the
\* connection that another serves.
KeptApart ==
  \A l \in Loops :
    /\ \A f \in interest[l] :
         /\ openAs[f] # NoClient /\ map[l][f] = <<openAs[f], f>>
         /\ \A k \in Loops \ {l} : f \notin interest[k]
    /\ \A e \in batch[l] : e[1] \in interest[l]

Served(c) == \E l \in Loops : \E f \in interest[l] : openAs[f] = c

\* The loop that c's channel is posted to: accept() numbers the clients, and
\* position goes round the loops from the first.
HomeOf(c) == (c - 1) % N

\* c's channel cannot be added: the map of the loop it is posted to still has that
\* of a connection that was reset and closed (AddRegisters of EventLoop).
Barred(c) ==
  \E f \in Fds : /\ openAs[f] = c /\ map[HomeOf(c)][f] # NoClient
                 /\ map[HomeOf(c)][f][1] # c /\ gone[map[HomeOf(c)][f][1]] = "rst"

\* Whenever clients come and go, and whatever the loops are at, the server gets
\* to where each client that is there is served, unless its descriptor is barred
\* in the one loop that should serve it, and none that has left still is.
ComeAndGo ==
  []<> \A c \in 1 .. came : IF gone[c] = "no" THEN Served(c) \/ Barred(c) ELSE ~Served(c)
=============================================================================
