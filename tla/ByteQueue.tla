----------------------------- MODULE ByteQueue -----------------------------
(***************************************************************************)
(* What struct buffer of linux-c-np-geektime/lib promises its users:       *)
(* bytes come out in the order they went in, none missing and none twice,  *)
(* however the memory behind them is moved or grown.                       *)
(***************************************************************************)
EXTENDS Integers, Sequences

CONSTANTS
  Inputs,  \* the runs of bytes that may be put in at once
  NoByte   \* no byte has been read yet

VARIABLES
  queue,   \* the readable bytes
  input,   \* the bytes the last append or socket read was given
  result   \* what the last buffer_read_char returned

Init == queue = <<>> /\ input = <<>> /\ result = NoByte

Put(s) ==
  /\ input' = s
  /\ queue' = queue \o s
  /\ UNCHANGED result

Get ==
  /\ queue # <<>>
  /\ result' = Head(queue)
  /\ queue' = Tail(queue)
  /\ UNCHANGED input

\* The first n bytes have been written to a socket.
Skip(n) ==
  /\ queue' = SubSeq(queue, n + 1, Len(queue))
  /\ UNCHANGED <<input, result>>

Next ==
  \/ \E s \in Inputs : Put(s)
  \/ Get
  \/ \E n \in 1 .. Len(queue) : Skip(n)

Spec == Init /\ [][Next]_<<queue, input, result>>
=============================================================================
