------------------------------- MODULE Buffer -------------------------------
(***************************************************************************)
(* struct buffer of linux-c-np-geektime/lib/buffer.c: an array with a      *)
(* read_index and a write_index.  When the tail of the array is too short  *)
(* for new bytes, make_room moves the readable bytes to the front or grows *)
(* the array.                                                              *)
(***************************************************************************)
EXTENDS Integers, Sequences

CONSTANTS
  Bytes,        \* the values of a byte
  Garbage,      \* what memory from malloc and realloc may hold
  Inputs,       \* the runs of bytes callers append and sockets deliver
  InitSize,     \* INIT_BUFFER_SIZE
  MaxTotal,     \* bound: no run grows the array beyond it
  MemoryFails,  \* realloc may return NULL
  NoByte

ASSUME BytesAssumption ==
  /\ Inputs \subseteq Seq(Bytes)
  /\ Garbage # {}
ASSUME SizesAssumption == InitSize \in Nat \ {0} /\ MaxTotal \in Nat
ASSUME MemoryAssumption == MemoryFails \in BOOLEAN

VARIABLES
  buffer,  \* the struct: data, read_index, write_index, total_size
  input,   \* history: the bytes the last append or socket read was given
  result   \* what the last buffer_read_char returned

vars == <<buffer, input, result>>

Cells == Bytes \union Garbage

IsBuffer(b) ==
  /\ b = [data        |-> b.data,        read_index |-> b.read_index,
          write_index |-> b.write_index, total_size |-> b.total_size]
  /\ b.total_size \in Nat /\ b.read_index \in Nat /\ b.write_index \in Nat
  /\ b.data \in [0 .. b.total_size - 1 -> Cells]

TypeOK ==
  /\ IsBuffer(buffer)
  /\ input \in Inputs \union {<<>>}
  /\ result \in Cells \union {NoByte}

\* buffer_new
Init ==
  /\ \E fresh \in [0 .. InitSize - 1 -> Garbage] :
       buffer = [data |-> fresh, read_index |-> 0, write_index |-> 0,
                 total_size |-> InitSize]
  /\ input = <<>> /\ result = NoByte

Writeable(b)  == b.total_size - b.write_index
Readable(b)   == b.write_index - b.read_index
FrontSpare(b) == b.read_index

\* The readable bytes, first to last.
Contents(b) == [i \in 1 .. Readable(b) |-> b.data[b.read_index + i - 1]]

-----------------------------------------------------------------------------
(* make_room                                                               *)

\* The copying loop moves the readable bytes to the front, a byte at a time
\* and upwards, so that none is overwritten before it is read; the bytes
\* behind them stay.
Shifted(b) ==
  [b EXCEPT !.data = [i \in DOMAIN b.data |->
                        IF i < Readable(b) THEN b.data[b.read_index + i] ELSE b.data[i]],
            !.read_index = 0, !.write_index = Readable(b)]

\* realloc: the new cells hold what was in that memory.
Grown(b, size, fresh) ==
  [b EXCEPT !.data = [i \in 0 .. b.total_size + size - 1 |->
                        IF i < b.total_size THEN b.data[i] ELSE fresh[i]],
            !.total_size = @ + size]

\* Mutant of Rooms: a tail one byte too short counts as room.
RoomsOffByOne(b, size) ==
  IF Writeable(b) + 1 >= size THEN {b}
  ELSE IF FrontSpare(b) + Writeable(b) >= size THEN {Shifted(b)}
  ELSE {Grown(b, size, fresh) :
          fresh \in [b.total_size .. b.total_size + size - 1 -> Garbage]}

\* The buffers make_room(b, size) may leave: b itself when the tail has room
\* or the array cannot be grown.
Rooms(b, size) ==
  IF Writeable(b) >= size THEN {b}
  ELSE IF FrontSpare(b) + Writeable(b) >= size THEN {Shifted(b)}
  ELSE {Grown(b, size, fresh) :
          fresh \in [b.total_size .. b.total_size + size - 1 -> Garbage]}
       \union (IF MemoryFails THEN {b} ELSE {})

\* memcpy to write_index.  Bytes past the end of the array land elsewhere.
Written(b, s) ==
  [b EXCEPT !.data = [i \in DOMAIN b.data |->
                        IF i >= b.write_index /\ i < b.write_index + Len(s)
                        THEN s[i - b.write_index + 1] ELSE b.data[i]],
            !.write_index = @ + Len(s)]

Appended(b, s) == {Written(r, s) : r \in Rooms(b, Len(s))}

-----------------------------------------------------------------------------
\* buffer_append, buffer_append_string; buffer_append_char for one byte
AppendBytes(s) ==
  /\ s # <<>>
  /\ buffer' \in Appended(buffer, s)
  /\ buffer'.total_size <= MaxTotal
  /\ input' = s
  /\ UNCHANGED result

\* Mutant of SocketRead: what went to the second vector is dropped.
SocketReadOne(s) ==
  /\ s # <<>> /\ Len(s) <= Writeable(buffer) + InitSize
  /\ buffer' = Written(buffer, SubSeq(s, 1, IF Len(s) <= Writeable(buffer) THEN Len(s)
                                             ELSE Writeable(buffer)))
  /\ input' = s
  /\ UNCHANGED result

\* readv fills the tail of the array first and the 64K on the stack with the
\* rest, which is appended.
SocketRead(s) ==
  LET n == Writeable(buffer) IN
  /\ s # <<>> /\ Len(s) <= n + InitSize
  /\ \/ Len(s) <= n /\ buffer' = Written(buffer, s)
     \/ /\ Len(s) > n
        /\ buffer' \in Appended(Written(buffer, SubSeq(s, 1, n)),
                                SubSeq(s, n + 1, Len(s)))
  /\ buffer'.total_size <= MaxTotal
  /\ input' = s
  /\ UNCHANGED result

\* Its callers read as many bytes as buffer_readable_size says there are.
ReadChar ==
  /\ Readable(buffer) > 0
  /\ result' = buffer.data[buffer.read_index]
  /\ buffer' = [buffer EXCEPT !.read_index = @ + 1]
  /\ UNCHANGED input

\* read_index += size_written, in handle_write and tcp_connection_send_buffer
Advance(n) ==
  /\ buffer' = [buffer EXCEPT !.read_index = @ + n]
  /\ UNCHANGED <<input, result>>

Next ==
  \/ \E s \in Inputs : AppendBytes(s) \/ SocketRead(s)
  \/ ReadChar
  \/ \E n \in 1 .. Readable(buffer) : Advance(n)

Spec == Init /\ [][Next]_vars

-----------------------------------------------------------------------------
\* buffer_find_CRLF is strstr from read_index: it stops at the first CR LF or
\* at the first NUL, whichever comes first, and knows nothing of write_index.
\* -1 is NULL; the search does not get past the end of the array here.
FindCRLF(b) ==
  LET hits == {i \in b.read_index .. b.total_size - 2 :
                 /\ b.data[i] = "CR" /\ b.data[i + 1] = "LF"
                 /\ \A j \in b.read_index .. i : b.data[j] # "NUL"}
  IN  IF hits = {} THEN -1 ELSE CHOOSE i \in hits : \A j \in hits : i <= j

-----------------------------------------------------------------------------
InOrder(b) == b.read_index <= b.write_index /\ b.write_index <= b.total_size

\* The indices are in order and inside the array: no memcpy, read or write
\* leaves it.
IndicesInOrder == InOrder(buffer)

\* The array only grows when the bytes it has to hold do not fit in it.
GrowsOnlyWhenFull ==
  [][buffer'.total_size # buffer.total_size => Readable(buffer') > buffer.total_size]_vars

\* buffer_find_CRLF points to the first CR LF of the readable bytes, or is NULL.
CRLFIsReadable ==
  LET readable == {i \in buffer.read_index .. buffer.write_index - 2 :
                     buffer.data[i] = "CR" /\ buffer.data[i + 1] = "LF"}
  IN  IF readable = {} THEN FindCRLF(buffer) = -1
      ELSE FindCRLF(buffer) \in readable /\ \A i \in readable : FindCRLF(buffer) <= i

\* Buffer implements ByteQueue.
Queue == INSTANCE ByteQueue WITH queue <- Contents(buffer)
Refinement == Queue!Spec
=============================================================================
