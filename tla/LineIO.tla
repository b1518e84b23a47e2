------------------------------- MODULE LineIO -------------------------------
(***************************************************************************)
(* Text written by writen and read line by line: read_line and             *)
(* read_line_buffered of linux-c-np-geektime/lib/read.c, writen of         *)
(* write.c, and readLine and writen of linux-c-programming/lib/tlpi.       *)
(* Nobody in the repository calls them yet; here a caller asks for line    *)
(* after line until it is told that there are no more.                     *)
(*                                                                         *)
(* A byte is "x", a carriage return "r" or a newline "n".                  *)
(***************************************************************************)
EXTENDS Integers, Sequences, FiniteSets, Pieces, TextLines

CONSTANTS
  MaxText,   \* bound: the bytes written
  Room       \* length of the caller's buffer, with the \0

VARIABLES
  routine,   \* the function that reads
  text,      \* what is written
  ptr,       \* the bytes of it that writen has handed over
  writerAt,  \* "write", "closed" or, when the connection was reset, "reset"
  wire,      \* those that recv() has not returned
  readIn,    \* history: those that it has
  callAt,    \* "byte", "peek" (recv with MSG_PEEK), "refill" or "over"
  chunk,     \* static_read_buffer from static_buffer_pointer on: n_left bytes
  line,      \* the bytes in the caller's buffer
  lines,     \* history: what the calls have returned
  forgotten,   \* history: a call has returned with bytes left in chunk
  interrupted  \* history: a recv() of read_line has been interrupted

lineVars == <<routine, text, ptr, writerAt, wire, readIn, callAt, chunk, line, lines,
              forgotten, interrupted>>

Chars == {"x", "r", "n"}
Texts == UNION {[1 .. k -> Chars] : k \in 0 .. MaxText}

LineTypeOK ==
  /\ routine \in {"read_line", "read_line_buffered", "readLine"}
  /\ text \in Texts /\ ptr \in 0 .. Len(text) /\ writerAt \in {"write", "closed", "reset"}
  /\ {wire, readIn, chunk, line} \subseteq Seq(Chars) /\ lines \in Seq(Seq(Chars))
  /\ callAt \in {"byte", "peek", "refill", "over"} /\ {forgotten, interrupted} \subseteq BOOLEAN

Init ==
  /\ routine \in {"read_line", "read_line_buffered", "readLine"}
  /\ text \in Texts /\ ptr = 0 /\ writerAt = "write" /\ wire = <<>> /\ readIn = <<>>
  /\ callAt = IF routine = "read_line_buffered" THEN "refill" ELSE "byte"
  /\ chunk = <<>> /\ line = <<>> /\ lines = <<>>
  /\ forgotten = FALSE /\ interrupted = FALSE

-----------------------------------------------------------------------------
(* writen: write() takes some of what is left, and after EINTR nothing     *)

Write ==
  /\ writerAt = "write" /\ callAt # "over"
  /\ \E n \in 1 .. Len(text) - ptr :
       /\ wire' = wire \o SubSeq(text, ptr + 1, ptr + n) /\ ptr' = ptr + n
  /\ UNCHANGED <<routine, interrupted, text, writerAt, readIn, callAt, chunk, line, lines,
                 forgotten>>

\* The writer is done, or killed in the middle.
WriterCloses ==
  /\ writerAt = "write" /\ writerAt' = "closed"
  /\ UNCHANGED <<routine, interrupted, text, ptr, wire, readIn, callAt, chunk, line, lines,
                 forgotten>>

\* The connection breaks: what had not arrived by then never will.
WriterResets ==
  /\ writerAt = "write" /\ writerAt' = "reset"
  /\ \E n \in 0 .. Len(wire) : wire' = SubSeq(wire, 1, n)
  /\ UNCHANGED <<routine, interrupted, text, ptr, readIn, callAt, chunk, line, lines, forgotten>>

-----------------------------------------------------------------------------
(* The readers                                                             *)

Drop(n) == wire' = SubSeq(wire, n + 1, Len(wire)) /\ readIn' = readIn \o SubSeq(wire, 1, n)

Returns(result) == lines' = Append(lines, result) /\ line' = <<>>

\* End of the loop's body in read_line: buffer[count_up++] = c.
Store(c) ==
  LET full == Append(line, c) IN
  /\ callAt' = "byte"
  /\ IF c = "n" \/ Len(full) >= Room - 1
     THEN Returns(full)
     ELSE line' = full /\ UNCHANGED lines

ReadByte ==
  /\ routine = "read_line" /\ callAt = "byte" /\ wire # <<>>
  /\ Drop(1)
  /\ IF Head(wire) = "r"
     THEN callAt' = "peek" /\ UNCHANGED <<line, lines>>
     ELSE Store(Head(wire))
  /\ UNCHANGED <<routine, interrupted, text, ptr, writerAt, chunk, forgotten>>

\* Mutant of Peek: the byte after a carriage return is taken whatever it is.
PeekAny ==
  /\ routine = "read_line" /\ callAt = "peek"
  /\ IF wire # <<>> THEN Drop(1) ELSE writerAt # "write" /\ UNCHANGED <<wire, readIn>>
  /\ Store("n")
  /\ UNCHANGED <<routine, interrupted, text, ptr, writerAt, chunk, forgotten>>

\* recv with MSG_PEEK waits for the next byte, the end of the stream or an error.
Peek ==
  /\ routine = "read_line" /\ callAt = "peek"
  /\ \/ wire # <<>> /\ Head(wire) = "n" /\ Drop(1)
     \/ wire # <<>> /\ Head(wire) # "n" /\ UNCHANGED <<wire, readIn>>
     \/ wire = <<>> /\ writerAt # "write" /\ UNCHANGED <<wire, readIn>>
  /\ Store("n")
  /\ UNCHANGED <<routine, interrupted, text, ptr, writerAt, chunk, forgotten>>

\* readLine: what is too much for the buffer is thrown away up to the newline.
ReadCh ==
  /\ routine = "readLine" /\ callAt = "byte" /\ wire # <<>>
  /\ Drop(1)
  /\ LET kept == IF Len(line) < Room - 1 THEN Append(line, Head(wire)) ELSE line IN
     IF Head(wire) = "n" THEN Returns(kept) ELSE line' = kept /\ UNCHANGED lines
  /\ UNCHANGED <<routine, interrupted, text, ptr, writerAt, callAt, chunk, forgotten>>

\* A line that has begun is returned; without one the caller is told with a 0.
LineOrNone ==
  IF line # <<>> THEN Returns(line) /\ UNCHANGED callAt
  ELSE callAt' = "over" /\ UNCHANGED <<line, lines>>

\* The end of the stream ends the line; so does an error for read_line, while
\* readLine returns -1 and the bytes in the caller's buffer are not reported.
ReadEnd ==
  /\ callAt = "byte" /\ wire = <<>> /\ writerAt # "write"
  /\ IF routine = "read_line" \/ writerAt = "closed" THEN LineOrNone
     ELSE callAt' = "over" /\ UNCHANGED <<line, lines>>
  /\ UNCHANGED <<routine, interrupted, text, ptr, writerAt, wire, readIn, chunk, forgotten>>

\* A signal ends the wait for a byte.  The other two functions wait again; for
\* read_line it is an error like any other, and ends the line; once is enough.
Interrupted ==
  /\ routine = "read_line" /\ wire = <<>> /\ writerAt = "write"
  /\ ~interrupted /\ interrupted' = TRUE
  /\ \/ callAt = "byte" /\ LineOrNone
     \/ callAt = "peek" /\ Store("n")
  /\ UNCHANGED <<routine, text, ptr, writerAt, wire, readIn, chunk, forgotten>>

\* read_line_buffered: recv returns all there is; its end, or an error, is the end
\* of the line, too, and the bytes in the caller's buffer are not reported.
Refill ==
  /\ routine = "read_line_buffered" /\ callAt = "refill" /\ chunk = <<>>
  /\ \/ wire # <<>> /\ chunk' = wire /\ Drop(Len(wire)) /\ UNCHANGED callAt
     \/ wire = <<>> /\ writerAt # "write" /\ callAt' = "over"
        /\ UNCHANGED <<chunk, wire, readIn>>
  /\ UNCHANGED <<routine, interrupted, text, ptr, writerAt, line, lines, forgotten>>

\* A newline ends the call, and so does a full buffer, with -1.  n_left is the
\* call's own: what is left in the static buffer is not found again.
MoveByte ==
  /\ routine = "read_line_buffered" /\ callAt = "refill" /\ chunk # <<>>
  /\ LET full == Append(line, Head(chunk)) IN
     IF Head(chunk) = "n"
     THEN /\ Returns(full) /\ chunk' = <<>> /\ forgotten' = (forgotten \/ Len(chunk) > 1)
          /\ UNCHANGED callAt
     ELSE /\ line' = full /\ chunk' = Tail(chunk) /\ UNCHANGED <<lines, forgotten>>
          /\ callAt' = IF Len(full) >= Room - 1 THEN "over" ELSE "refill"
  /\ UNCHANGED <<routine, interrupted, text, ptr, writerAt, wire, readIn>>

-----------------------------------------------------------------------------
Next ==
  \/ Write \/ WriterCloses \/ WriterResets
  \/ ReadByte \/ Peek \/ ReadCh \/ ReadEnd \/ Interrupted \/ Refill \/ MoveByte

Spec == Init /\ [][Next]_lineVars

-----------------------------------------------------------------------------
Marked(c) == IF c = "x" THEN "x" ELSE "n"

\* The bytes of s but for a carriage return before a newline; one at the end of s
\* is still being looked at.
Kept(s) == {p \in 1 .. Len(s) : s[p] = "r" /\ p < Len(s) => s[p + 1] # "n"}

\* t is s with every end of line, "r", "n" or "r" "n", a newline.
EndsMarked(t, s) ==
  /\ Len(t) = Cardinality(Kept(s))
  /\ \A p \in Kept(s) : t[Cardinality(Kept(s) \intersect 1 .. p)] = Marked(s[p])

\* However the text arrives and wherever the ends of its lines are cut, a "\r\n"
\* in two pieces too, read_line returns all of it with each kind of end as one
\* newline, in lines that end there or fill the buffer, and readLine the start of
\* each line.  read_line_buffered returns all of what came before the first end of
\* a line in each piece, until it has forgotten something.  What read_line does when
\* a signal interrupts it, nothing promises.
LinesSplit ==
  CASE routine = "read_line" -> interrupted \/
         /\ EndsMarked(Joined(lines) \o line \o (IF callAt = "peek" THEN <<"n">> ELSE <<>>),
                       readIn)
         /\ \A k \in 1 .. Len(lines) :
              LET l == lines[k] IN
              /\ \A j \in 1 .. Len(l) - 1 : l[j] # "n"
              /\ l[Len(l)] = "n" \/ Len(l) = Room - 1 \/ (k = Len(lines) /\ writerAt # "write")
              /\ Len(l) < Room
    [] routine = "readLine" ->
         WithBegun(lines, line) = Starts(readIn, Room - 1)
    [] OTHER -> forgotten \/ Joined(lines) \o line \o chunk = readIn
=============================================================================
