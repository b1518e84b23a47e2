------------------------------- MODULE Pieces -------------------------------
(***************************************************************************)
(* Strings that come in pieces.  The modules that Programs instantiates    *)
(* extend the standard modules and this one instead of SequencesExt: every *)
(* instance brings all that its module extends into every proof about      *)
(* Programs.                                                               *)
(***************************************************************************)
EXTENDS Integers, Sequences

\* The pieces one after the other.
Joined(pieces) ==
  LET upto[k \in 0 .. Len(pieces)] == IF k = 0 THEN <<>> ELSE upto[k - 1] \o pieces[k]
  IN upto[Len(pieces)]
=============================================================================
