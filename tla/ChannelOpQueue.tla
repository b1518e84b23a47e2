--------------------------- MODULE ChannelOpQueue ---------------------------
(***************************************************************************)
(* What an event_loop promises the threads that post channel operations    *)
(* to it (event_loop.h: event_loop_{add,remove,update}_channel_event):     *)
(* every operation takes effect exactly once, in the order of the posts,   *)
(* and a posted operation is never left waiting.                           *)
(*                                                                         *)
(* No lock, wake-up byte, node or walk appears here; EventLoop implements  *)
(* this specification (EventLoop!Refinement).                              *)
(***************************************************************************)
EXTENDS Integers, Sequences

CONSTANTS
  Channels,   \* the struct channel objects
  FdOf,       \* channel->fd
  NoChannel   \* an entity of the channel_map that is NULL

VARIABLES
  todo,       \* operations posted and not applied yet, oldest first
  registered  \* the channel registered for each descriptor

vars == <<todo, registered>>

Fds == {FdOf[c] : c \in Channels} \ {-1}
Ops == [type : {"ADD", "DELETE", "UPDATE"}, chan : Channels]

Init ==
  /\ todo = <<>>
  /\ registered = [f \in Fds |-> NoChannel]

Post(o) ==
  /\ todo' = Append(todo, o)
  /\ UNCHANGED registered

\* The registry after operation o on r.  A descriptor keeps the channel that
\* was registered first; -1 stands for an accept that failed.
Applied(r, o) ==
  LET fd == FdOf[o.chan] IN
  CASE o.type = "ADD" /\ fd # -1 /\ r[fd] = NoChannel -> [r EXCEPT ![fd] = o.chan]
    [] o.type = "DELETE" /\ fd # -1                   -> [r EXCEPT ![fd] = NoChannel]
    [] OTHER                                          -> r

Apply ==
  /\ todo # <<>>
  /\ registered' = Applied(registered, Head(todo))
  /\ todo' = Tail(todo)

Next == Apply \/ \E o \in Ops : Post(o)

Spec == Init /\ [][Next]_vars

\* The owner of the loop keeps applying what was posted.
FairSpec == Spec /\ WF_vars(Apply)
=============================================================================
