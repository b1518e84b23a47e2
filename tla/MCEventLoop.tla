---------------------------- MODULE MCEventLoop ----------------------------
(* Instances of EventLoop for TLC.                                         *)
EXTENDS EventLoop

CONSTANTS c1, c2, c3   \* connections

\* Two connections on different descriptors and an accept that failed.
\* (The entries of the channels a configuration leaves out are not used.)
FdsApart == [c \in Channels |->
  CASE c = Notify -> 1 [] c = c1 -> 2 [] c = c2 -> 3 [] OTHER -> -1]

\* c2 gets the descriptor of c1 once that is closed.
FdsReused == [c \in Channels |-> IF c = Notify THEN 1 ELSE 2]
=============================================================================
