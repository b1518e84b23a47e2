---------------------------- MODULE BufferProofs ----------------------------
(***************************************************************************)
(* Proofs about Buffer for every size, every input and any garbage in      *)
(* fresh memory.  They need realloc to succeed: with MemoryFails the       *)
(* indices leave the array, since buffer_append takes the room for granted. *)
(***************************************************************************)
EXTENDS Buffer, SequenceTheorems, TLAPS

LEMMA ContentsType ==
  ASSUME NEW b, IsBuffer(b), InOrder(b)
  PROVE  /\ Contents(b) \in Seq(Cells)
         /\ Len(Contents(b)) = Readable(b)
         /\ Readable(b) \in Nat
         /\ \A i \in 1 .. Readable(b) : Contents(b)[i] = b.data[b.read_index + i - 1]
<1>1. Readable(b) \in Nat
  BY DEF IsBuffer, InOrder, Readable
<1>2. \A i \in 1 .. Readable(b) : b.data[b.read_index + i - 1] \in Cells
  BY DEF IsBuffer, InOrder, Readable
<1>. QED
  BY <1>1, <1>2 DEF Contents

\* Moving the readable bytes to the front leaves the contents alone.
LEMMA ShiftedKeeps ==
  ASSUME NEW b, IsBuffer(b), InOrder(b)
  PROVE  /\ IsBuffer(Shifted(b)) /\ InOrder(Shifted(b))
         /\ Contents(Shifted(b)) = Contents(b)
         /\ Writeable(Shifted(b)) = FrontSpare(b) + Writeable(b)
<1>. DEFINE r == Shifted(b)
<1>1. /\ r.read_index = 0 /\ r.write_index = Readable(b) /\ r.total_size = b.total_size
      /\ r.data = [i \in 0 .. b.total_size - 1 |->
                     IF i < Readable(b) THEN b.data[b.read_index + i] ELSE b.data[i]]
      /\ r = [data |-> r.data, read_index |-> r.read_index,
              write_index |-> r.write_index, total_size |-> r.total_size]
  <2>1. DOMAIN b.data = 0 .. b.total_size - 1
    BY DEF IsBuffer
  <2>2. r = [b EXCEPT !.data = [i \in 0 .. b.total_size - 1 |->
                                  IF i < Readable(b) THEN b.data[b.read_index + i]
                                  ELSE b.data[i]],
                      !.read_index = 0, !.write_index = Readable(b)]
    BY <2>1 DEF Shifted
  <2>. QED
    BY <2>2 DEF IsBuffer
<1>2. Readable(b) \in Nat /\ Readable(b) <= b.total_size
  BY DEF IsBuffer, InOrder, Readable
<1>3. \A i \in 0 .. b.total_size - 1 : r.data[i] \in Cells
  <2>1. SUFFICES ASSUME NEW i \in 0 .. b.total_size - 1 PROVE r.data[i] \in Cells
    OBVIOUS
  <2>2. i < Readable(b) => b.read_index + i \in 0 .. b.total_size - 1
    BY <1>2 DEF IsBuffer, InOrder, Readable
  <2>3. \A j \in 0 .. b.total_size - 1 : b.data[j] \in Cells
    BY DEF IsBuffer
  <2>. QED
    BY <1>1, <2>2, <2>3
<1>4. IsBuffer(r) /\ InOrder(r)
  BY <1>1, <1>2, <1>3 DEF IsBuffer, InOrder
<1>5. Readable(r) = Readable(b)
  BY <1>1, <1>2 DEF Readable
<1>6. \A i \in 1 .. Readable(b) : r.data[r.read_index + i - 1] = b.data[b.read_index + i - 1]
  BY <1>1, <1>2 DEF IsBuffer
<1>7. Contents(r) = Contents(b)
  BY <1>5, <1>6 DEF Contents
<1>8. Writeable(r) = FrontSpare(b) + Writeable(b)
  BY <1>1 DEF Writeable, FrontSpare, Readable, IsBuffer
<1>. QED
  BY <1>4, <1>7, <1>8

\* Growing the array leaves the contents alone.
LEMMA GrownKeeps ==
  ASSUME NEW b, IsBuffer(b), InOrder(b), NEW size \in Nat,
         NEW fresh \in [b.total_size .. b.total_size + size - 1 -> Garbage]
  PROVE  /\ IsBuffer(Grown(b, size, fresh)) /\ InOrder(Grown(b, size, fresh))
         /\ Contents(Grown(b, size, fresh)) = Contents(b)
         /\ Writeable(Grown(b, size, fresh)) = Writeable(b) + size
         /\ Grown(b, size, fresh).total_size = b.total_size + size
<1>. DEFINE r == Grown(b, size, fresh)
<1>1. /\ r.read_index = b.read_index /\ r.write_index = b.write_index
      /\ r.total_size = b.total_size + size
      /\ r.data = [i \in 0 .. b.total_size + size - 1 |->
                     IF i < b.total_size THEN b.data[i] ELSE fresh[i]]
      /\ r = [data |-> r.data, read_index |-> r.read_index,
              write_index |-> r.write_index, total_size |-> r.total_size]
  <2>1. r = [b EXCEPT !.data = [i \in 0 .. b.total_size + size - 1 |->
                                  IF i < b.total_size THEN b.data[i] ELSE fresh[i]],
                      !.total_size = b.total_size + size]
    BY DEF Grown
  <2>. QED
    BY <2>1 DEF IsBuffer
<1>2. \A i \in 0 .. b.total_size + size - 1 : r.data[i] \in Cells
  BY <1>1 DEF IsBuffer, Cells
<1>3. IsBuffer(r) /\ InOrder(r)
  BY <1>1, <1>2 DEF IsBuffer, InOrder
<1>4. Readable(r) = Readable(b)
  BY <1>1 DEF Readable
<1>5. \A i \in 1 .. Readable(b) : r.data[r.read_index + i - 1] = b.data[b.read_index + i - 1]
  BY <1>1 DEF IsBuffer, InOrder, Readable
<1>6. Contents(r) = Contents(b)
  BY <1>4, <1>5 DEF Contents
<1>7. Writeable(r) = Writeable(b) + size
  BY <1>1 DEF Writeable, IsBuffer
<1>. QED
  BY <1>1, <1>3, <1>6, <1>7

\* make_room makes room, keeps the contents and grows the array only when
\* the bytes to come do not fit in it.
LEMMA RoomsCorrect ==
  ASSUME ~MemoryFails,
         NEW b, IsBuffer(b), InOrder(b), NEW size \in Nat, NEW r \in Rooms(b, size)
  PROVE  /\ IsBuffer(r) /\ InOrder(r)
         /\ Writeable(r) >= size
         /\ Contents(r) = Contents(b)
         /\ r.total_size = b.total_size \/ Readable(b) + size > b.total_size
<1>0. Writeable(b) \in Nat /\ FrontSpare(b) \in Nat
  BY DEF IsBuffer, InOrder, Writeable, FrontSpare
<1>1. CASE Writeable(b) >= size
  BY <1>1 DEF Rooms
<1>2. CASE ~(Writeable(b) >= size) /\ FrontSpare(b) + Writeable(b) >= size
  <2>1. r = Shifted(b)
    BY <1>2 DEF Rooms
  <2>2. Shifted(b).total_size = b.total_size
    BY DEF Shifted, IsBuffer
  <2>. QED
    BY <1>2, <2>1, <2>2, ShiftedKeeps
<1>3. CASE ~(Writeable(b) >= size) /\ ~(FrontSpare(b) + Writeable(b) >= size)
  <2>1. PICK fresh \in [b.total_size .. b.total_size + size - 1 -> Garbage] :
          r = Grown(b, size, fresh)
    BY <1>3 DEF Rooms
  <2>2. Readable(b) + size > b.total_size
    BY <1>3 DEF Readable, FrontSpare, Writeable, IsBuffer
  <2>. QED
    BY <1>0, <2>1, <2>2, GrownKeeps
<1>. QED
  BY <1>1, <1>2, <1>3

\* Bytes written where there is room come after the contents.
LEMMA WrittenAppends ==
  ASSUME NEW b, IsBuffer(b), InOrder(b), NEW s \in Seq(Bytes), Len(s) <= Writeable(b)
  PROVE  /\ IsBuffer(Written(b, s)) /\ InOrder(Written(b, s))
         /\ Contents(Written(b, s)) = Contents(b) \o s
         /\ Written(b, s).total_size = b.total_size
         /\ Readable(Written(b, s)) = Readable(b) + Len(s)
<1>. DEFINE r == Written(b, s)
<1>1. /\ r.read_index = b.read_index /\ r.write_index = b.write_index + Len(s)
      /\ r.total_size = b.total_size
      /\ r.data = [i \in 0 .. b.total_size - 1 |->
                     IF i >= b.write_index /\ i < b.write_index + Len(s)
                     THEN s[i - b.write_index + 1] ELSE b.data[i]]
      /\ r = [data |-> r.data, read_index |-> r.read_index,
              write_index |-> r.write_index, total_size |-> r.total_size]
  <2>1. DOMAIN b.data = 0 .. b.total_size - 1
    BY DEF IsBuffer
  <2>2. r = [b EXCEPT !.data = [i \in 0 .. b.total_size - 1 |->
                                  IF i >= b.write_index /\ i < b.write_index + Len(s)
                                  THEN s[i - b.write_index + 1] ELSE b.data[i]],
                      !.write_index = b.write_index + Len(s)]
    BY <2>1 DEF Written
  <2>. QED
    BY <2>2 DEF IsBuffer
<1>2. Len(s) \in Nat /\ \A i \in 1 .. Len(s) : s[i] \in Bytes
  OBVIOUS
<1>3. \A i \in 0 .. b.total_size - 1 : r.data[i] \in Cells
  BY <1>1, <1>2 DEF IsBuffer, Cells
<1>4. IsBuffer(r) /\ InOrder(r)
  BY <1>1, <1>2, <1>3 DEF IsBuffer, InOrder, Writeable
<1>5. Readable(r) = Readable(b) + Len(s) /\ Readable(b) \in Nat
  BY <1>1, <1>2 DEF Readable, IsBuffer, InOrder
<1>6. \A i \in 1 .. Readable(b) : r.data[r.read_index + i - 1] = b.data[b.read_index + i - 1]
  BY <1>1, <1>2 DEF IsBuffer, InOrder, Readable
<1>7. \A i \in 1 .. Len(s) : r.data[r.read_index + Readable(b) + i - 1] = s[i]
  BY <1>1, <1>2 DEF IsBuffer, InOrder, Readable, Writeable
<1>8. Contents(r) = Contents(b) \o s
  <2>1. /\ Contents(r) \in Seq(Cells) /\ Len(Contents(r)) = Readable(b) + Len(s)
        /\ \A i \in 1 .. Readable(b) + Len(s) : Contents(r)[i] = r.data[r.read_index + i - 1]
    BY <1>4, <1>5, ContentsType
  <2>2. /\ Contents(b) \in Seq(Cells) /\ Len(Contents(b)) = Readable(b)
        /\ \A i \in 1 .. Readable(b) : Contents(b)[i] = b.data[b.read_index + i - 1]
    BY ContentsType
  <2>3. s \in Seq(Cells)
    BY DEF Cells
  <2>4. \A i \in 1 .. Readable(b) : Contents(r)[i] = Contents(b)[i]
    <3>1. SUFFICES ASSUME NEW i \in 1 .. Readable(b)
                   PROVE  Contents(r)[i] = Contents(b)[i]
      OBVIOUS
    <3>2. i \in 1 .. Readable(b) + Len(s)
      BY <1>2, <1>5
    <3>. QED
      BY <1>6, <2>1, <2>2, <3>2
  <2>5. \A i \in 1 .. Len(s) : Contents(r)[Readable(b) + i] = s[i]
    <3>1. SUFFICES ASSUME NEW i \in 1 .. Len(s) PROVE Contents(r)[Readable(b) + i] = s[i]
      OBVIOUS
    <3>2. Readable(b) + i \in 1 .. Readable(b) + Len(s)
      BY <1>2, <1>5
    <3>3. r.read_index + (Readable(b) + i) - 1 = r.read_index + Readable(b) + i - 1
      BY <1>1, <1>5 DEF IsBuffer
    <3>. QED
      BY <1>7, <2>1, <3>2, <3>3
  <2>6. \A i \in Readable(b) + 1 .. Readable(b) + Len(s) :
          Contents(r)[i] = s[i - Readable(b)]
    <3>1. SUFFICES ASSUME NEW i \in Readable(b) + 1 .. Readable(b) + Len(s)
                   PROVE  Contents(r)[i] = s[i - Readable(b)]
      OBVIOUS
    <3>2. i - Readable(b) \in 1 .. Len(s) /\ Readable(b) + (i - Readable(b)) = i
      BY <1>2, <1>5
    <3>. QED
      BY <2>5, <3>2
  <2>7. /\ Contents(b) \o s \in Seq(Cells)
        /\ Len(Contents(b) \o s) = Readable(b) + Len(s)
        /\ \A i \in 1 .. Readable(b) + Len(s) :
             (Contents(b) \o s)[i] = IF i <= Readable(b) THEN Contents(b)[i]
                                    ELSE s[i - Readable(b)]
    <3>1. LET c == Contents(b) IN
            /\ c \o s \in Seq(Cells)
            /\ Len(c \o s) = Len(c) + Len(s)
            /\ \A i \in 1 .. Len(c) + Len(s) :
                 (c \o s)[i] = IF i <= Len(c) THEN c[i] ELSE s[i - Len(c)]
      BY <2>2, <2>3, ConcatProperties
    <3>. QED
      BY <2>2, <3>1
  <2>8. \A i \in 1 .. Readable(b) + Len(s) : Contents(r)[i] = (Contents(b) \o s)[i]
    BY <1>2, <1>5, <2>4, <2>6, <2>7
  <2>. QED
    BY <2>1, <2>7, <2>8, SeqEqual
<1>. QED
  BY <1>1, <1>4, <1>5, <1>8

\* buffer_append appends.
LEMMA AppendedCorrect ==
  ASSUME ~MemoryFails, NEW b, IsBuffer(b), InOrder(b),
         NEW s \in Seq(Bytes), NEW r \in Appended(b, s)
  PROVE  /\ IsBuffer(r) /\ InOrder(r)
         /\ Contents(r) = Contents(b) \o s
         /\ Readable(r) = Readable(b) + Len(s)
         /\ r.total_size = b.total_size \/ Readable(r) > b.total_size
<1>1. PICK q \in Rooms(b, Len(s)) : r = Written(q, s)
  BY DEF Appended
<1>2. Len(s) \in Nat
  OBVIOUS
<1>3. /\ IsBuffer(q) /\ InOrder(q) /\ Writeable(q) >= Len(s)
      /\ Contents(q) = Contents(b)
      /\ q.total_size = b.total_size \/ Readable(b) + Len(s) > b.total_size
  BY <1>2, RoomsCorrect
<1>4. Readable(q) = Readable(b)
  BY <1>3, ContentsType
<1>5. Len(s) <= Writeable(q)
  BY <1>2, <1>3 DEF IsBuffer, Writeable
<1>. QED
  BY <1>1, <1>3, <1>4, <1>5, WrittenAppends

-----------------------------------------------------------------------------
Inv == TypeOK /\ IndicesInOrder

LEMMA InitInv == Init => Inv
BY SizesAssumption DEF Init, Inv, TypeOK, IndicesInOrder, IsBuffer, InOrder, Cells

\* A call that delivers s puts s behind the contents.
LEMMA Delivered ==
  ASSUME ~MemoryFails, Inv, NEW s \in Inputs, AppendBytes(s) \/ SocketRead(s)
  PROVE  /\ IsBuffer(buffer') /\ InOrder(buffer')
         /\ Contents(buffer') = Contents(buffer) \o s
         /\ buffer'.total_size = buffer.total_size
              \/ Readable(buffer') > buffer.total_size
         /\ input' = s /\ result' = result
<1>0. IsBuffer(buffer) /\ InOrder(buffer) /\ s \in Seq(Bytes)
  BY BytesAssumption DEF Inv, TypeOK, IndicesInOrder
<1>1. input' = s /\ result' = result
  BY DEF AppendBytes, SocketRead
<1>2. CASE AppendBytes(s)
  <2>1. buffer' \in Appended(buffer, s)
    BY <1>2 DEF AppendBytes
  <2>. QED
    BY <1>0, <1>1, <2>1, AppendedCorrect
<1>3. CASE SocketRead(s) /\ Len(s) <= Writeable(buffer)
  <2>0. Writeable(buffer) \in Nat /\ Len(s) \in Nat
    BY <1>0 DEF IsBuffer, InOrder, Writeable
  <2>1. buffer' = Written(buffer, s)
    BY <1>3, <2>0 DEF SocketRead
  <2>. QED
    BY <1>0, <1>1, <1>3, <2>1, WrittenAppends
<1>4. CASE SocketRead(s) /\ ~(Len(s) <= Writeable(buffer))
  <2>. DEFINE n == Writeable(buffer)
              w == Written(buffer, SubSeq(s, 1, n))
              rest == SubSeq(s, n + 1, Len(s))
  <2>0. n \in Nat /\ Len(s) \in Nat /\ Len(s) > n
    BY <1>0, <1>4 DEF IsBuffer, InOrder, Writeable
  <2>1. buffer' \in Appended(w, rest)
    BY <1>4, <2>0 DEF SocketRead
  <2>2. /\ SubSeq(s, 1, n) \in Seq(Bytes) /\ Len(SubSeq(s, 1, n)) = n
        /\ rest \in Seq(Bytes) /\ Len(rest) = Len(s) - n
    <3>1. \A i \in 1 .. Len(s) : s[i] \in Bytes
      BY <1>0
    <3>. QED
      BY <2>0, <3>1, SubSeqProperties
  <2>3. /\ IsBuffer(w) /\ InOrder(w) /\ w.total_size = buffer.total_size
        /\ Contents(w) = Contents(buffer) \o SubSeq(s, 1, n)
    <3>1. Len(SubSeq(s, 1, n)) <= Writeable(buffer)
      BY <2>0, <2>2
    <3>. QED
      BY <1>0, <2>2, <3>1, WrittenAppends
  <2>4. /\ IsBuffer(buffer') /\ InOrder(buffer')
        /\ Contents(buffer') = Contents(w) \o rest
        /\ buffer'.total_size = w.total_size \/ Readable(buffer') > w.total_size
    BY <2>1, <2>2, <2>3, AppendedCorrect
  <2>5. SubSeq(s, 1, n) \o rest = s
    <3>1. SubSeq(s, 1, n) \o SubSeq(s, n + 1, Len(s)) = SubSeq(s, 1, Len(s))
      <4>1. 1 \in 1 .. Len(s) + 1 /\ n \in 0 .. Len(s) /\ 1 - 1 = 0
            /\ Len(s) \in n .. Len(s)
        BY <2>0
      <4>. QED
        BY <1>0, <4>1, ConcatAdjacentSubSeq
    <3>. QED
      BY <1>0, <3>1, SubSeqFull
  <2>6. Contents(buffer) \in Seq(Cells)
    BY <1>0, ContentsType
  <2>7. Contents(w) \o rest = Contents(buffer) \o (SubSeq(s, 1, n) \o rest)
    <3>1. SubSeq(s, 1, n) \in Seq(Cells) /\ rest \in Seq(Cells)
      BY <2>2 DEF Cells
    <3>. QED
      <4>1. (Contents(buffer) \o SubSeq(s, 1, n)) \o rest
              = Contents(buffer) \o (SubSeq(s, 1, n) \o rest)
        <5>1. \A x, y, z \in Seq(Cells) : (x \o y) \o z = x \o (y \o z)
          BY ConcatAssociative
        <5>. QED
          BY <2>6, <3>1, <5>1
      <4>. QED
        BY <2>3, <4>1
  <2>. QED
    BY <1>1, <2>3, <2>4, <2>5, <2>7
<1>. QED
  BY <1>2, <1>3, <1>4

\* Reading n bytes takes them off the front of the contents.
LEMMA Taken ==
  ASSUME NEW b, IsBuffer(b), InOrder(b), NEW n \in 1 .. Readable(b),
         NEW r, r = [b EXCEPT !.read_index = @ + n]
  PROVE  /\ IsBuffer(r) /\ InOrder(r)
         /\ Contents(r) = SubSeq(Contents(b), n + 1, Len(Contents(b)))
         /\ r.total_size = b.total_size
<1>1. /\ r.read_index = b.read_index + n
      /\ r.write_index = b.write_index
      /\ r.total_size = b.total_size
      /\ r.data = b.data
      /\ r = [data |-> r.data, read_index |-> r.read_index,
              write_index |-> r.write_index, total_size |-> r.total_size]
  BY DEF IsBuffer
<1>2. n \in Nat /\ n <= Readable(b) /\ Readable(b) \in Nat
  BY DEF IsBuffer, InOrder, Readable
<1>3. IsBuffer(r) /\ InOrder(r)
  BY <1>1, <1>2 DEF IsBuffer, InOrder, Readable
<1>4. Readable(r) = Readable(b) - n
  BY <1>1, <1>2 DEF Readable, IsBuffer
<1>5. /\ Contents(r) \in Seq(Cells) /\ Len(Contents(r)) = Readable(b) - n
      /\ \A i \in 1 .. Readable(b) - n : Contents(r)[i] = r.data[r.read_index + i - 1]
  BY <1>3, <1>4, ContentsType
<1>6. /\ Contents(b) \in Seq(Cells) /\ Len(Contents(b)) = Readable(b)
      /\ \A i \in 1 .. Readable(b) : Contents(b)[i] = b.data[b.read_index + i - 1]
  BY ContentsType
<1>7. \A i \in 1 .. Readable(b) - n : Contents(r)[i] = Contents(b)[n + i]
  <2>1. SUFFICES ASSUME NEW i \in 1 .. Readable(b) - n
                 PROVE  Contents(r)[i] = Contents(b)[n + i]
    OBVIOUS
  <2>2. n + i \in 1 .. Readable(b)
    BY <1>2
  <2>3. r.read_index + i - 1 = b.read_index + (n + i) - 1
    BY <1>1, <1>2 DEF IsBuffer
  <2>4. Contents(b)[n + i] = b.data[b.read_index + (n + i) - 1]
    BY <1>6, <2>2
  <2>5. Contents(r)[i] = r.data[r.read_index + i - 1]
    BY <1>5
  <2>. QED
    BY <1>1, <2>3, <2>4, <2>5
<1>. DEFINE t == SubSeq(Contents(b), n + 1, Len(Contents(b)))
<1>8. /\ t \in Seq(Cells) /\ Len(t) = Readable(b) - n
      /\ \A i \in 1 .. Readable(b) - n : t[i] = Contents(b)[n + i]
  BY <1>2, <1>6
<1>9. Contents(r) = t
  BY <1>5, <1>7, <1>8, SeqEqual
<1>. QED
  BY <1>1, <1>3, <1>9

\* buffer_read_char takes one byte.
LEMMA TakenOne ==
  ASSUME Inv, ReadChar
  PROVE  /\ IsBuffer(buffer') /\ InOrder(buffer')
         /\ Contents(buffer) # <<>>
         /\ result' = Head(Contents(buffer))
         /\ Contents(buffer') = Tail(Contents(buffer))
         /\ buffer'.total_size = buffer.total_size
         /\ result' \in Cells
<1>0. IsBuffer(buffer) /\ InOrder(buffer)
  BY DEF Inv, TypeOK, IndicesInOrder
<1>1. /\ Contents(buffer) \in Seq(Cells) /\ Len(Contents(buffer)) = Readable(buffer)
      /\ Readable(buffer) \in Nat
      /\ \A i \in 1 .. Readable(buffer) :
           Contents(buffer)[i] = buffer.data[buffer.read_index + i - 1]
  BY <1>0, ContentsType
<1>2. 1 \in 1 .. Readable(buffer)
  BY <1>1 DEF ReadChar
<1>3. buffer' = [buffer EXCEPT !.read_index = @ + 1]
  BY DEF ReadChar
<1>4. /\ IsBuffer(buffer') /\ InOrder(buffer')
      /\ Contents(buffer') = SubSeq(Contents(buffer), 2, Len(Contents(buffer)))
      /\ buffer'.total_size = buffer.total_size
  BY <1>0, <1>2, <1>3, Taken
<1>5. Contents(buffer) # <<>> /\ Head(Contents(buffer)) = Contents(buffer)[1]
  BY <1>1, <1>2
<1>6. Tail(Contents(buffer)) = SubSeq(Contents(buffer), 2, Len(Contents(buffer)))
  BY <1>1, <1>5
<1>7. buffer.read_index + 1 - 1 = buffer.read_index
  BY <1>0 DEF IsBuffer
<1>8. result' = Contents(buffer)[1]
  BY <1>1, <1>2, <1>7 DEF ReadChar
<1>9. Contents(buffer)[1] \in Cells
  BY <1>1, <1>2
<1>. QED
  BY <1>4, <1>5, <1>6, <1>8, <1>9

LEMMA InvStep == ~MemoryFails /\ Inv /\ [Next]_vars => Inv'
<1>. SUFFICES ASSUME ~MemoryFails, Inv, [Next]_vars PROVE Inv'
  OBVIOUS
<1>. USE DEF Inv, TypeOK, IndicesInOrder
<1>1. ASSUME NEW s \in Inputs, AppendBytes(s) \/ SocketRead(s) PROVE Inv'
  BY <1>1, Delivered
<1>2. CASE ReadChar
  BY <1>2, TakenOne DEF ReadChar
<1>3. ASSUME NEW n \in 1 .. Readable(buffer), Advance(n) PROVE Inv'
  BY <1>3, Taken DEF Advance
<1>4. CASE UNCHANGED vars
  BY <1>4 DEF vars, IsBuffer, InOrder
<1>. QED
  BY <1>1, <1>2, <1>3, <1>4 DEF Next

\* As long as realloc succeeds, every variable keeps its type.
THEOREM TypeCorrect == ~MemoryFails => (Spec => []TypeOK)
<1>. SUFFICES ASSUME ~MemoryFails PROVE Spec => []TypeOK
  OBVIOUS
<1>0. Inv /\ [Next]_vars => Inv'
  BY InvStep
<1>1. Inv => TypeOK
  BY DEF Inv
<1>. QED
  BY <1>1, <1>0, InitInv, PTL DEF Spec

\* As long as realloc succeeds, no call leaves the array.
THEOREM NoOverflow == ~MemoryFails => (Spec => []IndicesInOrder)
<1>. SUFFICES ASSUME ~MemoryFails PROVE Spec => []IndicesInOrder
  OBVIOUS
<1>0. Inv /\ [Next]_vars => Inv'
  BY InvStep
<1>1. Inv => IndicesInOrder
  BY DEF Inv
<1>. QED
  BY <1>1, <1>0, InitInv, PTL DEF Spec

\* As long as realloc succeeds, the array grows only for bytes that do not fit.
THEOREM GrowthIsNeeded == ~MemoryFails => (Spec => GrowsOnlyWhenFull)
<1>. SUFFICES ASSUME ~MemoryFails PROVE Spec => GrowsOnlyWhenFull
  OBVIOUS
<1>0. Inv /\ [Next]_vars => Inv'
  BY InvStep
<1>1. Inv /\ [Next]_vars =>
        [buffer'.total_size # buffer.total_size
           => Readable(buffer') > buffer.total_size]_vars
  <2>. SUFFICES ASSUME Inv, [Next]_vars
                PROVE  buffer'.total_size # buffer.total_size
                         => Readable(buffer') > buffer.total_size
    OBVIOUS
  <2>1. ASSUME NEW s \in Inputs, AppendBytes(s) \/ SocketRead(s)
        PROVE  buffer'.total_size # buffer.total_size
                 => Readable(buffer') > buffer.total_size
    BY <2>1, Delivered
  <2>2. CASE ReadChar
    BY <2>2, TakenOne
  <2>3. ASSUME NEW n \in 1 .. Readable(buffer), Advance(n)
        PROVE  buffer'.total_size = buffer.total_size
    BY <2>3, Taken DEF Advance
  <2>4. CASE UNCHANGED vars
    BY <2>4 DEF vars
  <2>. QED
    BY <2>1, <2>2, <2>3, <2>4 DEF Next
<1>. QED
  BY <1>1, <1>0, InitInv, PTL DEF Spec, GrowsOnlyWhenFull

\* As long as realloc succeeds, the buffer is a queue of bytes.
THEOREM ImplementsByteQueue == ~MemoryFails => (Spec => Refinement)
<1>. SUFFICES ASSUME ~MemoryFails PROVE Spec => Refinement
  OBVIOUS
<1>0. Inv /\ [Next]_vars => Inv'
  BY InvStep
<1>1. Init => Queue!Init
  <2>. SUFFICES ASSUME Init PROVE Queue!Init
    OBVIOUS
  <2>1. IsBuffer(buffer) /\ InOrder(buffer) /\ Readable(buffer) = 0
    BY InitInv DEF Init, Inv, TypeOK, IndicesInOrder, Readable
  <2>2. Contents(buffer) = <<>>
    BY <2>1, ContentsType
  <2>. QED
    BY <2>2 DEF Init, Queue!Init
<1>2. Inv /\ [Next]_vars
        => [Queue!Next]_<<Contents(buffer), input, result>>
  <2>. SUFFICES ASSUME Inv, [Next]_vars
                PROVE  [Queue!Next]_<<Contents(buffer), input, result>>
    OBVIOUS
  <2>1. ASSUME NEW s \in Inputs, AppendBytes(s) \/ SocketRead(s) PROVE Queue!Next
    <3>1. Queue!Put(s)
      BY <2>1, Delivered DEF Queue!Put
    <3>. QED
      BY <3>1 DEF Queue!Next
  <2>2. CASE ReadChar
    <3>1. Queue!Get
      BY <2>2, TakenOne DEF Queue!Get, ReadChar
    <3>. QED
      BY <3>1 DEF Queue!Next
  <2>3. ASSUME NEW n \in 1 .. Readable(buffer), Advance(n) PROVE Queue!Next
    <3>1. Queue!Skip(n)
      <4>1. IsBuffer(buffer) /\ InOrder(buffer)
        BY DEF Inv, TypeOK, IndicesInOrder
      <4>. QED
        BY <2>3, <4>1, Taken DEF Queue!Skip, Advance
    <3>2. n \in 1 .. Len(Contents(buffer))
      BY ContentsType DEF Inv, TypeOK, IndicesInOrder
    <3>. QED
      BY <3>1, <3>2 DEF Queue!Next
  <2>4. CASE UNCHANGED vars
    <3>1. Contents(buffer') = Contents(buffer) /\ input' = input /\ result' = result
      BY <2>4 DEF vars
    <3>. QED
      BY <3>1
  <2>. QED
    BY <2>1, <2>2, <2>3, <2>4 DEF Next
<1>. QED
  BY <1>1, <1>2, <1>0, InitInv, PTL DEF Spec, Refinement, Queue!Spec

=============================================================================
