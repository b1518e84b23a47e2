--------------------------- MODULE PollDispatcher ---------------------------
(***************************************************************************)
(* event_dispatcher_poll.c of linux-c-np-geektime/lib: a fixed array of    *)
(* pollfd slots, and poll_dispatch, which walks over the array while the   *)
(* callbacks it makes add, update and delete channels.                     *)
(*                                                                         *)
(* All of it runs in the loop's own thread.  What the callbacks do is left *)
(* open within what tcp_connection.c and tcp_server.c let them: delete or  *)
(* update their own channel and add new ones.  Nobody closes a descriptor, *)
(* so none comes back with another channel: a channel is its descriptor.   *)
(***************************************************************************)
EXTENDS Integers, FiniteSets

CONSTANTS
  Channels,  \* the channels, each with a descriptor of its own
  Slots,     \* INIT_POLL_SIZE
  Free       \* fd == -1

ASSUME ChannelsAssumption == Free \notin Channels
ASSUME SlotsAssumption == Slots \in Nat \ {0}

Index  == 1 .. Slots
Events == {"READ", "WRITE"}

VARIABLES
  fd, wanted, revents,  \* the fields of event_set[]; wanted is the field events
  map,       \* channels in channel_map
  events,    \* channel->events
  created,   \* channels that have been added
  pc,        \* "wait" in poll, "walk", "copy" with a slot copied, "callback",
             \* "pending" after the walk
  i,         \* the loop variable of poll_dispatch
  left,      \* ready_number
  current,   \* poll_fd.fd
  rest,      \* events of poll_fd still to be delivered
  reported,  \* history: what poll reported in this round, by channel
  delivered  \* history: what event_loop_active was called for in this round

slotVars  == <<fd, wanted, revents>>
chanVars  == <<map, events, created>>
roundVars == <<i, left, current, rest, reported, delivered>>
vars == <<slotVars, chanVars, roundVars, pc>>

TypeOK ==
  /\ fd \in [Index -> Channels \union {Free}]
  /\ wanted \in [Index -> SUBSET Events]
  /\ revents \in [Index -> SUBSET (Events \union {"ERR"})]
  /\ map \subseteq created /\ created \subseteq Channels
  /\ events \in [Channels -> SUBSET Events]
  /\ pc \in {"wait", "walk", "copy", "callback", "pending"}
  /\ i \in 1 .. Slots + 1
  /\ left \in 0 .. Slots
  /\ current \in Channels \union {Free}
  /\ rest \subseteq Events \union {"ERR"}
  /\ reported \in [Channels -> SUBSET (Events \union {"ERR"})]
  /\ delivered \in [Channels -> SUBSET Events]

\* poll_init, before the loop's first channel is added
Init ==
  /\ fd = [s \in Index |-> Free]
  /\ wanted = [s \in Index |-> {}] /\ revents = [s \in Index |-> {}]
  /\ map = {} /\ created = {} /\ events = [c \in Channels |-> {"READ"}]
  /\ pc = "pending" /\ i = 1 /\ left = 0 /\ current = Free /\ rest = {}
  /\ reported = [c \in Channels |-> {}] /\ delivered = [c \in Channels |-> {}]

-----------------------------------------------------------------------------
(* poll_add, poll_delete, poll_update                                      *)

\* The slots the loops of these functions stop at: the first one that holds x.
First(x) == {s \in Index : fd[s] = x /\ \A r \in Index : r < s => fd[r] # x}

\* event_loop_handle_pending_add of a new connection; when no slot is free
\* the channel is in the map and nowhere else.
Add(c) ==
  /\ pc \in {"callback", "pending"} /\ c \notin created
  /\ created' = created \union {c} /\ map' = map \union {c}
  /\ fd' = [s \in Index |-> IF s \in First(Free) THEN c ELSE fd[s]]
  /\ wanted' = [s \in Index |-> IF s \in First(Free) THEN events[c] ELSE wanted[s]]
  /\ UNCHANGED <<revents, events, roundVars, pc>>

\* handle_connection_closed, in a callback of the channel
Delete ==
  /\ pc = "callback" /\ current \in map
  /\ map' = map \ {current}
  /\ fd' = [s \in Index |-> IF s \in First(current) THEN Free ELSE fd[s]]
  /\ UNCHANGED <<wanted, revents, events, created, roundVars, pc>>

\* Mutant of Update: a flag that is off stays on in the slot.
UpdateOr(evs) ==
  /\ pc = "callback" /\ current \in map
  /\ events' = [events EXCEPT ![current] = evs]
  /\ wanted' = [s \in Index |-> IF s \in First(current) THEN wanted[s] \union evs ELSE wanted[s]]
  /\ UNCHANGED <<fd, revents, map, created, roundVars, pc>>

\* channel_event_enable_write and disable_write, in a callback of the channel
Update(evs) ==
  /\ pc = "callback" /\ current \in map
  /\ events' = [events EXCEPT ![current] = evs]
  /\ wanted' = [s \in Index |-> IF s \in First(current) THEN evs ELSE wanted[s]]
  /\ UNCHANGED <<fd, revents, map, created, roundVars, pc>>

-----------------------------------------------------------------------------
(* poll_dispatch                                                           *)

\* poll: slots without a descriptor report nothing, the others what they want
\* or an error; when the time is over nobody does.
Poll ==
  /\ pc = "wait"
  /\ revents' \in [Index -> SUBSET (Events \union {"ERR"})]
  /\ \A s \in Index : revents'[s] \subseteq (IF fd[s] = Free THEN {} ELSE wanted[s] \union {"ERR"})
  /\ left' = Cardinality({s \in Index : revents'[s] # {}})
  /\ reported' = [c \in Channels |-> UNION {revents'[s] : s \in {r \in Index : fd[r] = c}}]
  /\ pc' = IF left' = 0 THEN "pending" ELSE "walk"
  /\ UNCHANGED <<fd, wanted, chanVars, i, current, rest, delivered>>

\* One round of the loop up to the copy of a slot that has something to tell.
Walk ==
  /\ pc = "walk"
  /\ IF fd[i] = Free \/ revents[i] = {}
     THEN /\ i' = i + 1 /\ pc' = IF i = Slots THEN "pending" ELSE "walk"
          /\ UNCHANGED <<left, current, rest>>
     ELSE /\ current' = fd[i] /\ rest' = revents[i] /\ pc' = "copy"
          /\ UNCHANGED <<i, left>>
  /\ UNCHANGED <<slotVars, chanVars, reported, delivered>>

\* Mutant of Deliver: the slot is not copied before the callbacks.
DeliverUncopied(e) ==
  /\ pc = "copy" /\ e \in rest /\ (e = "WRITE" => "READ" \notin rest)
  /\ rest' = rest \ {e} /\ current' = fd[i]
  /\ IF fd[i] \in map
     THEN /\ delivered' = [delivered EXCEPT ![fd[i]] = @ \union {e}]
          /\ pc' = "callback"
     ELSE UNCHANGED <<delivered, pc>>
  /\ UNCHANGED <<slotVars, chanVars, i, left, reported>>

\* event_loop_active: READ first; a channel that is not in the map any more
\* gets nothing.
Deliver(e) ==
  /\ pc = "copy" /\ e \in rest /\ (e = "WRITE" => "READ" \notin rest)
  /\ rest' = rest \ {e}
  /\ IF current \in map
     THEN /\ delivered' = [delivered EXCEPT ![current] = @ \union {e}]
          /\ pc' = "callback"
     ELSE UNCHANGED <<delivered, pc>>
  /\ UNCHANGED <<slotVars, chanVars, i, left, current, reported>>

Return ==
  /\ pc = "callback" /\ pc' = "copy"
  /\ UNCHANGED <<slotVars, chanVars, roundVars>>

\* Errors are not handled; after the last slot that is ready the walk ends.
SlotDone ==
  /\ pc = "copy" /\ rest \intersect Events = {}
  /\ left' = left - 1 /\ i' = i + 1
  /\ pc' = IF left' <= 0 \/ i = Slots THEN "pending" ELSE "walk"
  /\ UNCHANGED <<slotVars, chanVars, current, rest, reported, delivered>>

\* event_loop_run: the pending channels have been handled.
NextRound ==
  /\ pc = "pending" /\ pc' = "wait"
  /\ i' = 1 /\ left' = 0 /\ current' = Free /\ rest' = {}
  /\ reported' = [c \in Channels |-> {}] /\ delivered' = [c \in Channels |-> {}]
  /\ UNCHANGED <<slotVars, chanVars>>

Next ==
  \/ Poll \/ Walk \/ SlotDone \/ Return \/ NextRound
  \/ \E e \in Events : Deliver(e)
  \/ \E c \in Channels : Add(c)
  \/ Delete
  \/ \E evs \in {{"READ"}, Events} : Update(evs)

Spec == Init /\ [][Next]_vars

-----------------------------------------------------------------------------
\* The slots say what the loop's map and its channels say, each channel once.
SlotsMatchMap ==
  /\ \A s, r \in Index : fd[s] = fd[r] /\ fd[s] # Free => s = r
  /\ {fd[s] : s \in Index} \ {Free} \subseteq map
  /\ \A s \in Index : fd[s] # Free => wanted[s] = events[fd[s]]

\* Events match channels although callbacks free slots and take them again: a
\* channel hears only of what poll reported for it in this round, not of what it
\* reported for the channel that had the slot; and a round that ends when
\* ready_number reaches 0 has delivered all that was reported to channels that
\* are still there.  A channel that found no slot hears nothing and takes nothing
\* from the others.
EventsMatch ==
  \A c \in Channels :
    /\ delivered[c] \subseteq reported[c]
    /\ pc = "pending" /\ c \in map => reported[c] \intersect Events \subseteq delivered[c]

\* Every channel of the loop is in a slot.
AllRegistered == \A c \in map : \E s \in Index : fd[s] = c
=============================================================================
