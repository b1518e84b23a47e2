------------------------------ MODULE Framing ------------------------------
(***************************************************************************)
(* Bytes of a stream cut into pieces of a known size: readn and            *)
(* read_message of linux-c-np-geektime/lib/read.c, with the programs that  *)
(* use them.  Those of chapter16 exchange messages                         *)
(* (length, type, data), those of chapter05 one long run of bytes; and     *)
(* write_closed_client of chapter17 sends one to a server that reads what  *)
(* there is and may be killed.                                             *)
(*                                                                         *)
(* The network hands the stream over in pieces of any size.                *)
(***************************************************************************)
EXTENDS Integers, Sequences, Pieces

CONSTANTS
  FieldSize,    \* the bytes of a length or a type
  BufferSize,   \* BUFFER_SIZE, the most data a message may have
  Lengths,      \* bound: lengths of the lines typed
  MaxMessages,  \* bound: the lines typed
  BulkSize,     \* what chapter05 asks readn for
  MessageSize,  \* MESSAGE_SIZE, what chapter05 sends
  Capacity      \* bound: bytes between the two programs

VARIABLES
  course,     \* 5, 16 or 17: the programs that run
  senderAt,   \* "run" or "gone"
  typedIn,    \* history: the lengths of the lines typed
  remaining,  \* bytes the client has still to hand to send()
  stream,     \* bytes sent and not yet read
  readerAt,   \* "accept"; "length", "type", "body", "bulk": the readn it is in;
              \* "read" (chapter17); "closed", "error", "spins" or "killed": the end
  left,       \* length of readn: the bytes it has still to read
  ended,      \* the readn has met the end of the stream
  got,        \* the bytes it has read
  message_length,
  delivered   \* history: what the server was given

readVars   == <<readerAt, left, ended, got, message_length, delivered>>
senderVars == <<senderAt, typedIn, remaining>>
frameVars  == <<course, senderVars, stream, readVars>>

Parts == {"length", "type", "data"}
Bytes == [of : 1 .. MaxMessages, part : Parts, no : 1 .. MessageSize + BufferSize + FieldSize]

Piece(m, part, size) == [n \in 1 .. size |-> [of |-> m, part |-> part, no |-> n]]
Message(m, length) ==
  Piece(m, "length", FieldSize) \o Piece(m, "type", FieldSize) \o Piece(m, "data", length)

FrameTypeOK ==
  /\ course \in {5, 16, 17} /\ senderAt \in {"run", "gone"}
  /\ typedIn \in Seq(Lengths) /\ Len(typedIn) <= MaxMessages
  /\ {remaining, stream, got} \subseteq Seq(Bytes) /\ Len(stream) <= Capacity
  /\ readerAt \in {"accept", "length", "type", "body", "bulk", "read",
                    "closed", "error", "spins", "killed"}
  /\ left \in Nat /\ ended \in BOOLEAN /\ message_length \in 0 .. BufferSize + 1
  /\ delivered \in Seq(Seq(Bytes))

Init ==
  /\ course \in {5, 16, 17} /\ senderAt = "run" /\ typedIn = <<>> /\ stream = <<>>
  /\ remaining = IF course = 16 THEN <<>> ELSE Piece(1, "data", MessageSize)
  /\ readerAt = "accept" /\ left = 0 /\ ended = FALSE /\ got = <<>>
  /\ message_length = 0 /\ delivered = <<>>

-----------------------------------------------------------------------------
(* readn                                                                   *)

Readn(size, at) == readerAt' = at /\ left' = size /\ got' = <<>> /\ ended' = FALSE
InReadn         == readerAt \in {"length", "type", "body", "bulk"}
Returns         == InReadn /\ (left = 0 \/ ended)

\* Mutant of Take: what one read() returns is all there will be.
TakeOnce(n) ==
  /\ got' = got \o SubSeq(stream, 1, n) /\ stream' = SubSeq(stream, n + 1, Len(stream))
  /\ left' = left - n /\ ended' = TRUE

Take(n) ==
  /\ got' = got \o SubSeq(stream, 1, n) /\ stream' = SubSeq(stream, n + 1, Len(stream))
  /\ left' = left - n /\ UNCHANGED ended

ReadSome ==
  /\ InReadn /\ ~Returns
  /\ \E n \in 1 .. left : n <= Len(stream) /\ Take(n)
  /\ UNCHANGED <<course, senderVars, readerAt, message_length, delivered>>

ReadNothing ==
  /\ InReadn /\ ~Returns /\ stream = <<>> /\ senderAt = "gone"
  /\ ended' = TRUE
  /\ UNCHANGED <<course, senderVars, stream, readerAt, left, got, message_length, delivered>>

-----------------------------------------------------------------------------
(* The servers                                                             *)

\* client_len of chapter05 is not initialised: accept() may refuse it, and then
\* the -1 that readn returns for the descriptor -1 is never 0.
Accept ==
  /\ readerAt = "accept"
  /\ \/ course = 16 /\ Readn(FieldSize, "length")
     \/ course = 5  /\ Readn(BulkSize, "bulk")
     \/ course # 16 /\ readerAt' = (IF course = 5 THEN "spins" ELSE "read")
                    /\ UNCHANGED <<left, ended, got>>
  /\ UNCHANGED <<course, senderVars, stream, message_length, delivered>>

\* What the bytes of a length field say; others say anything.
Decoded(bytes) ==
  IF \E m \in 1 .. Len(typedIn) : bytes = Piece(m, "length", FieldSize)
  THEN {typedIn[bytes[1].of]}
  ELSE 0 .. BufferSize + 1

LengthRead ==
  /\ readerAt = "length" /\ left = 0
  /\ message_length' \in Decoded(got)
  /\ Readn(FieldSize, "type")
  /\ UNCHANGED <<course, senderVars, stream, delivered>>

TypeRead ==
  /\ readerAt = "type" /\ left = 0
  /\ IF BufferSize < message_length
     THEN readerAt' = "error" /\ UNCHANGED <<left, ended, got>>
     ELSE Readn(message_length, "body")
  /\ UNCHANGED <<course, senderVars, stream, message_length, delivered>>

\* A message without data looks like the end of the stream.
BodyRead ==
  /\ readerAt = "body" /\ left = 0
  /\ IF got = <<>>
     THEN readerAt' = "closed" /\ UNCHANGED <<left, ended, got, delivered>>
     ELSE delivered' = Append(delivered, got) /\ Readn(FieldSize, "length")
  /\ UNCHANGED <<course, senderVars, stream, message_length>>

\* read_message returns 0 for a message that is cut off, too.
CutOff ==
  /\ readerAt \in {"length", "type", "body"} /\ ended /\ left # 0
  /\ readerAt' = "closed"
  /\ UNCHANGED <<course, senderVars, stream, left, ended, got, message_length, delivered>>

\* read_data of chapter05; main then goes back to accept().
BulkRead ==
  /\ readerAt = "bulk" /\ Returns
  /\ IF got = <<>>
     THEN readerAt' = "closed" /\ UNCHANGED <<left, ended, got, delivered>>
     ELSE delivered' = Append(delivered, got) /\ Readn(BulkSize, "bulk")
  /\ UNCHANGED <<course, senderVars, stream, message_length>>

\* chapter17: one read() takes some of what there is.
ReadRaw ==
  /\ readerAt = "read"
  /\ \/ \E n \in 1 .. Len(stream) :
          /\ delivered' = Append(delivered, SubSeq(stream, 1, n))
          /\ stream' = SubSeq(stream, n + 1, Len(stream)) /\ UNCHANGED readerAt
     \/ /\ stream = <<>> /\ senderAt = "gone" /\ readerAt' = "closed"
        /\ UNCHANGED <<stream, delivered>>
  /\ UNCHANGED <<course, senderVars, left, ended, got, message_length>>

KillReader ==
  /\ readerAt = "read" /\ readerAt' = "killed"
  /\ UNCHANGED <<course, senderVars, stream, left, ended, got, message_length, delivered>>

-----------------------------------------------------------------------------
(* The clients                                                             *)

ServerListens == readerAt \notin {"closed", "error", "killed"}

\* chapter16: a line is typed and becomes a message
Typed ==
  /\ course = 16 /\ senderAt = "run" /\ remaining = <<>> /\ Len(typedIn) < MaxMessages
  /\ \E length \in Lengths :
       /\ typedIn' = Append(typedIn, length)
       /\ remaining' = Message(Len(typedIn'), length)
  /\ UNCHANGED <<course, senderAt, stream, readVars>>

\* The loop of send_data (chapter05), and the kernel's within one send().
Send ==
  /\ senderAt = "run" /\ ServerListens
  /\ \E n \in 1 .. Len(remaining) :
       /\ Len(stream) + n <= Capacity
       /\ stream' = stream \o SubSeq(remaining, 1, n)
       /\ remaining' = SubSeq(remaining, n + 1, Len(remaining))
  /\ UNCHANGED <<course, senderAt, typedIn, readVars>>

\* The client exits, is interrupted, or send() fails because the server is gone.
Leave ==
  /\ senderAt = "run" /\ senderAt' = "gone"
  /\ UNCHANGED <<course, typedIn, remaining, stream, readVars>>

-----------------------------------------------------------------------------
Reader ==
  \/ ReadSome \/ ReadNothing \/ Accept \/ LengthRead \/ TypeRead \/ BodyRead \/ CutOff
  \/ BulkRead \/ ReadRaw

Next == Reader \/ KillReader \/ Typed \/ Send \/ Leave

Spec == Init /\ [][Next]_frameVars

-----------------------------------------------------------------------------

\* chapter16: however the stream is cut up, message k comes out as it was sent;
\* chapter05: so do the bytes, BulkSize at a time but for the last ones; and
\* chapter17: as they come.  No message that was sent is refused, and a server that
\* is not killed ends only when the client has gone and nothing is left to read.
PiecesWhole ==
  /\ CASE course = 16 -> \A k \in 1 .. Len(delivered) :
                           k <= Len(typedIn) /\ delivered[k] = Piece(k, "data", typedIn[k])
       [] course = 5  -> \A k \in 1 .. Len(delivered) :
                           /\ \A n \in 1 .. Len(delivered[k]) :
                                delivered[k][n].no = (k - 1) * BulkSize + n
                           /\ Len(delivered[k]) = BulkSize
                              \/ (k = Len(delivered) /\ senderAt = "gone")
       [] OTHER       -> Joined(delivered) \o stream \o remaining
                           = Piece(1, "data", MessageSize)
  /\ readerAt # "error"
  /\ readerAt = "closed" => senderAt = "gone" /\ stream = <<>>
=============================================================================
