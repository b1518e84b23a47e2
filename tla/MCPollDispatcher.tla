-------------------------- MODULE MCPollDispatcher --------------------------
(* Instances of PollDispatcher for TLC.                                    *)
EXTENDS PollDispatcher, TLC

\* Channels are interchangeable.
Symmetry == Permutations(Channels)
=============================================================================
