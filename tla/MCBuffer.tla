------------------------------ MODULE MCBuffer ------------------------------
(* Instances of Buffer for TLC.                                            *)
EXTENDS Buffer

\* All runs of one to three bytes.
ShortInputs == UNION {[1 .. n -> Bytes] : n \in 1 .. 3}
=============================================================================
