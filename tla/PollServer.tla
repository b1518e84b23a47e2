----------------------------- MODULE PollServer -----------------------------
(***************************************************************************)
(* The poll server of linux-c-np-geektime/chapter21 (poll_server.c): one   *)
(* thread, blocking sockets, a table of pollfd.  read() of a socket that   *)
(* has nothing would stop the service of everybody.                        *)
(*                                                                         *)
(* Its clients are those of chapter20 (select_client.c): bytes are counted. *)
(***************************************************************************)
EXTENDS Integers, FiniteSets

CONSTANTS
  Guests, NoGuest,  \* the clients, one connection each
  InitSize,         \* INIT_SIZE; event_set[0] is the listening socket's
  MaxPolled,        \* bound: bytes a client sends
  PollReadSize      \* sizeof(recv_buf)

VARIABLES
  pollAt,       \* "poll", "accept", "slots", "write" or "exit"
  event_set,    \* event_set[i].fd; -1: free
  revents,      \* the slots with POLLRDNORM or POLLERR, 0 that of the listening socket
  ready_count,  \* ready_fd_count
  slot,         \* i of the loop over event_set
  read_count,
  guestOf,      \* who is connected as each descriptor, NoGuest if it is not open
  queued,       \* guests that wait for accept()
  came,         \* those that have connected
  wrote,        \* bytes each guest has sent
  pending,      \* of those, what has not been read
  parted        \* "no", "fin" or "rst": how far the guest has closed the connection

tableVars == <<event_set, revents, ready_count, slot, read_count>>
guestVars == <<queued, came, wrote, parted>>
pollVars  == <<pollAt, tableVars, guestOf, guestVars, pending>>

Slots == 1 .. InitSize - 1
Descriptors == 1 .. InitSize   \* as many as Slots and one more to be turned away

PollTypeOK ==
  /\ pollAt \in {"poll", "accept", "slots", "write", "exit"}
  /\ event_set \in [Slots -> Descriptors \union {-1}] /\ revents \subseteq 0 .. InitSize - 1
  /\ ready_count \in 0 .. InitSize /\ slot \in 0 .. InitSize /\ read_count \in 0 .. PollReadSize
  /\ guestOf \in [Descriptors -> Guests \union {NoGuest}]
  /\ queued \subseteq came /\ came \subseteq Guests
  /\ {wrote, pending} \subseteq [Guests -> 0 .. MaxPolled]
  /\ parted \in [Guests -> {"no", "fin", "rst"}]

\* tcp_server_listen
Listening == queued = {} /\ came = {}

Init ==
  /\ Listening
  /\ pollAt = "poll" /\ event_set = [s \in Slots |-> -1] /\ revents = {}
  /\ ready_count = 0 /\ slot = 0 /\ read_count = 0
  /\ guestOf = [d \in Descriptors |-> NoGuest]
  /\ wrote = [g \in Guests |-> 0] /\ pending = [g \in Guests |-> 0]
  /\ parted = [g \in Guests |-> "no"]

-----------------------------------------------------------------------------
First(S) == CHOOSE n \in S : \A m \in S : n <= m
Free     == {s \in Slots : event_set[s] = -1}

\* A descriptor that is not open is reported as POLLNVAL, which nobody looks at.
HasNews(d) ==
  guestOf[d] # NoGuest /\ (pending[guestOf[d]] > 0 \/ parted[guestOf[d]] # "no")

Poll ==
  /\ pollAt = "poll"
  /\ revents' = {s \in Slots \ Free : HasNews(event_set[s])}
                  \union (IF queued # {} THEN {0} ELSE {})
  /\ revents' # {}
  /\ ready_count' = Cardinality(revents')
  /\ IF 0 \in revents' THEN pollAt' = "accept" /\ slot' = 0 ELSE pollAt' = "slots" /\ slot' = 1
  /\ UNCHANGED <<event_set, read_count, guestOf, guestVars, pending>>

\* accept() returns the smallest free descriptor; it takes the first free slot,
\* whose revents poll() has set to 0.  If only the listening socket was ready
\* the loop over the others is left out.
Accept ==
  /\ pollAt = "accept"
  /\ \E g \in queued :
       LET d == First({f \in Descriptors : guestOf[f] = NoGuest}) IN
       /\ queued' = queued \ {g} /\ guestOf' = [guestOf EXCEPT ![d] = g]
       /\ event_set' = IF Free = {} THEN event_set ELSE [event_set EXCEPT ![First(Free)] = d]
  /\ ready_count' = ready_count - 1
  /\ pollAt' = IF Free = {} THEN "exit" ELSE IF ready_count' <= 0 THEN "poll" ELSE "slots"
  /\ slot' = 1
  /\ UNCHANGED <<revents, read_count, came, wrote, parted, pending>>

ToRead(s) == event_set[s] # -1 /\ s \in revents

\* ready_fd_count goes down for every slot, and nothing looks at it.
Skip ==
  /\ pollAt = "slots" /\ slot \in Slots /\ ~ToRead(slot)
  /\ slot' = slot + 1
  /\ UNCHANGED <<pollAt, event_set, revents, ready_count, read_count, guestOf, guestVars, pending>>

RoundDone ==
  /\ pollAt = "slots" /\ slot \notin Slots
  /\ pollAt' = "poll" /\ slot' = 0 /\ revents' = {} /\ ready_count' = 0
  /\ UNCHANGED <<event_set, read_count, guestOf, guestVars, pending>>

Guest == guestOf[event_set[slot]]

Read ==
  /\ pollAt = "slots" /\ slot \in Slots /\ ToRead(slot) /\ pending[Guest] > 0
  /\ read_count' = IF pending[Guest] < PollReadSize THEN pending[Guest] ELSE PollReadSize
  /\ pending' = [pending EXCEPT ![Guest] = @ - read_count']
  /\ pollAt' = "write"
  /\ UNCHANGED <<event_set, revents, ready_count, slot, guestOf, guestVars>>

\* A blocking write takes all; a connection that is reset ends the server.
Write ==
  /\ pollAt = "write"
  /\ IF parted[Guest] = "rst" THEN pollAt' = "exit" /\ UNCHANGED slot
     ELSE pollAt' = "slots" /\ slot' = slot + 1
  /\ UNCHANGED <<event_set, revents, ready_count, read_count, guestOf, guestVars, pending>>

\* Mutant of Vacate: the slot keeps the descriptor.
Occupied(s) == event_set
Vacate(s)   == [event_set EXCEPT ![s] = -1]

\* 0 or ECONNRESET
Close ==
  /\ pollAt = "slots" /\ slot \in Slots /\ ToRead(slot)
  /\ pending[Guest] = 0 /\ parted[Guest] # "no"
  /\ guestOf' = [guestOf EXCEPT ![event_set[slot]] = NoGuest]
  /\ event_set' = Vacate(slot) /\ slot' = slot + 1
  /\ UNCHANGED <<pollAt, revents, ready_count, read_count, guestVars, pending>>

-----------------------------------------------------------------------------
(* The clients                                                             *)

Connected(g) == \E d \in Descriptors : guestOf[d] = g

Come(g) ==
  /\ pollAt # "exit" /\ g \notin came
  /\ came' = came \union {g} /\ queued' = queued \union {g}
  /\ UNCHANGED <<pollAt, tableVars, guestOf, wrote, parted, pending>>

\* a line that is typed
SendLine(g) ==
  /\ pollAt # "exit" /\ (g \in queued \/ Connected(g)) /\ parted[g] = "no" /\ wrote[g] < MaxPolled
  /\ wrote' = [wrote EXCEPT ![g] = @ + 1] /\ pending' = [pending EXCEPT ![g] = @ + 1]
  /\ UNCHANGED <<pollAt, tableVars, guestOf, queued, came, parted>>

Part(g) ==
  /\ pollAt # "exit" /\ (g \in queued \/ Connected(g))
  /\ \/ parted[g] = "no" /\ parted' = [parted EXCEPT ![g] = "fin"]
     \/ parted[g] # "rst" /\ parted' = [parted EXCEPT ![g] = "rst"]
  /\ UNCHANGED <<pollAt, tableVars, guestOf, queued, came, wrote, pending>>

-----------------------------------------------------------------------------
PollLoop == Poll \/ Accept \/ Skip \/ RoundDone \/ Read \/ Write \/ Close

Next == PollLoop \/ \E g \in Guests : Come(g) \/ SendLine(g) \/ Part(g)

Spec == Init /\ [][Next]_pollVars

-----------------------------------------------------------------------------
\* Every read() still to come in this round has something to return, whichever
\* slots and descriptors were freed and taken since poll(): it does not block.
ReadsOnlyReady ==
  pollAt = "slots" => \A s \in Slots : s >= slot /\ ToRead(s) => HasNews(event_set[s])
=============================================================================
