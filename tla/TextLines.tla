----------------------------- MODULE TextLines -----------------------------
(***************************************************************************)
(* The lines of a text whose bytes are characters, "n" the newline: what   *)
(* the programs that read a stream line by line should make of it.         *)
(***************************************************************************)
EXTENDS Integers, Sequences, FiniteSets

\* The lines of s, the one that has not ended included: the line that byte p of s
\* is in, and the bytes of the first k.
LineOf(s, p) == 1 + Cardinality({q \in 1 .. p - 1 : s[q] = "n"})
Upto(s, k)   == Cardinality({p \in 1 .. Len(s) : LineOf(s, p) <= k})
Count(s)     == IF s = <<>> THEN 0 ELSE LineOf(s, Len(s))
Cut(s)       == [k \in 1 .. Count(s) |-> SubSeq(s, Upto(s, k - 1) + 1, Upto(s, k))]

\* What a buffer for so many bytes holds of a line, and of each line of s.
Shortened(l, most) == IF Len(l) <= most THEN l ELSE SubSeq(l, 1, most)
Starts(s, most)    == [k \in 1 .. Count(s) |-> Shortened(Cut(s)[k], most)]

\* A line that has begun stands behind those that are there already.
WithBegun(ls, l) == IF l = <<>> THEN ls ELSE Append(ls, l)
=============================================================================
