---------------------------- MODULE StreamProofs ----------------------------
(***************************************************************************)
(* What is proved of each program of Streams by itself, for texts, buffers *)
(* and messages of any length: the lines of ThreadsServer, the messages of *)
(* Framing, the lines and answers of HiServer, the lines LineIO splits the *)
(* text in, the messages of MessageQueue and the bytes that NioServer      *)
(* sends back.  The theorems that follow are in ProgramsProofs.            *)
(***************************************************************************)
EXTENDS Streams, FiniteSetTheorems, SequenceTheorems, TLAPS

-----------------------------------------------------------------------------
(* Numbers and sequences                                                   *)

LEMMA LeastNumber ==
  ASSUME NEW S \in SUBSET Nat, S # {}
  PROVE  \E n \in S : \A m \in S : n <= m
<1>1. PICK n \in S : \A m \in S : ~(<<m, n>> \in OpToRel(<, Nat))
  BY WFMin, NatLessThanWellFounded
<1>2. \A m \in S : ~(m < n)
  BY <1>1 DEF OpToRel
<1>3. \A m \in S : n <= m
  BY ONLY <1>2, n \in S, S \in SUBSET Nat
<1>. QED
  BY <1>3

LEMMA AppendAtEnd ==
  ASSUME NEW S, NEW x \in Seq(S), NEW u \in Seq(S), NEW e \in S
  PROVE  x \o Append(u, e) = Append(x \o u, e)
<1>1. <<e>> \in Seq(S) /\ Append(u, e) = u \o <<e>>
  BY AppendIsConcat
<1>2. x \o u \in Seq(S) /\ Append(x \o u, e) = (x \o u) \o <<e>>
  BY ConcatProperties, AppendIsConcat
<1>3. (x \o u) \o <<e>> = x \o (u \o <<e>>)
  BY <1>1, ConcatAssociative
<1>. QED
  BY <1>1, <1>2, <1>3

\* Taking a byte from the front of what is unread and putting it at the end of
\* what is in front of it changes nothing in between.
LEMMA ByteMoves ==
  ASSUME NEW S, NEW x \in Seq(S), NEW u \in Seq(S), u # <<>>
  PROVE  Append(x, Head(u)) \o Tail(u) = x \o u
<1>1. /\ Head(u) \in S /\ Tail(u) \in Seq(S) /\ Len(Tail(u)) = Len(u) - 1
      /\ \A k \in 1 .. Len(Tail(u)) : Tail(u)[k] = u[k + 1]
  BY HeadTailProperties
<1>2. /\ Append(x, Head(u)) \in Seq(S) /\ Len(Append(x, Head(u))) = Len(x) + 1
      /\ \A k \in 1 .. Len(x) : Append(x, Head(u))[k] = x[k]
      /\ Append(x, Head(u))[Len(x) + 1] = Head(u)
  BY <1>1, AppendProperties
<1>. DEFINE a == Append(x, Head(u))
            b == Tail(u)
<1>3. /\ a \o b \in Seq(S) /\ Len(a \o b) = Len(a) + Len(b)
      /\ \A k \in 1 .. Len(a) + Len(b) : (a \o b)[k] = IF k <= Len(a) THEN a[k] ELSE b[k - Len(a)]
  BY <1>1, <1>2, ConcatProperties
<1>4. /\ x \o u \in Seq(S) /\ Len(x \o u) = Len(x) + Len(u)
      /\ \A k \in 1 .. Len(x) + Len(u) : (x \o u)[k] = IF k <= Len(x) THEN x[k] ELSE u[k - Len(x)]
  BY ConcatProperties
<1>5. Len(x) \in Nat /\ Len(u) \in Nat /\ Len(u) > 0 /\ Head(u) = u[1]
  BY EmptySeq
<1>6. Len(a) = Len(x) + 1 /\ Len(b) = Len(u) - 1
  BY <1>1, <1>2
<1>7. ASSUME NEW k \in 1 .. Len(x) + Len(u) PROVE (a \o b)[k] = (x \o u)[k]
  <2>1. CASE k <= Len(x)
    BY <1>2, <1>3, <1>4, <1>5, <1>6, <2>1
  <2>2. CASE k = Len(x) + 1
    BY <1>2, <1>3, <1>4, <1>5, <1>6, <2>2
  <2>3. CASE k > Len(x) + 1
    <3>1. k - Len(a) \in 1 .. Len(b) /\ k - Len(a) + 1 = k - Len(x)
      BY <1>5, <1>6, <2>3
    <3>. QED
      BY <1>1, <1>3, <1>4, <1>5, <1>6, <2>3, <3>1
  <2>. QED
    BY <1>5, <2>1, <2>2, <2>3
<1>8. Len(a \o b) = Len(x \o u)
  BY <1>3, <1>4, <1>5, <1>6
<1>. HIDE DEF a, b
<1>9. a \o b = x \o u
  BY <1>3, <1>4, <1>7, <1>8, SeqEqual
<1>. QED
  BY <1>9 DEF a, b

-----------------------------------------------------------------------------
(* Strings that come in pieces                                             *)

\* The first k of the pieces s, joined.
Joins(f, s, n) == f = [k \in 0 .. n |-> IF k = 0 THEN <<>> ELSE f[k - 1] \o s[k]]

LEMMA JoinsOne ==
  ASSUME NEW s, NEW n \in Nat PROVE \E f : Joins(f, s, n)
<1>. DEFINE Bad == {k \in Nat : ~\E f : Joins(f, s, k)}
<1>. SUFFICES ASSUME Bad # {} PROVE FALSE
  OBVIOUS
<1>1. PICK k \in Bad : \A j \in Bad : k <= j
  BY LeastNumber
<1>2. k # 0
  <2>. DEFINE z == [j \in 0 .. 0 |-> <<>>]
  <2>1. Joins(z, s, 0)
    BY DEF Joins
  <2>. QED
    BY <1>1, <2>1
<1>3. k - 1 \in Nat /\ k - 1 \notin Bad
  BY <1>1, <1>2
<1>4. PICK f : Joins(f, s, k - 1)
  BY <1>3
<1>. DEFINE g == [j \in 0 .. k |-> IF j < k THEN f[j] ELSE f[k - 1] \o s[k]]
<1>5. \A j \in 0 .. k - 1 : f[j] = IF j = 0 THEN <<>> ELSE f[j - 1] \o s[j]
  BY <1>4 DEF Joins
<1>6. \A j \in 0 .. k : g[j] = IF j = 0 THEN <<>> ELSE g[j - 1] \o s[j]
  BY <1>1, <1>2, <1>3, <1>5
<1>7. Joins(g, s, k)
  BY <1>6 DEF Joins
<1>. QED
  BY <1>1, <1>7

LEMMA JoinedByStep ==
  ASSUME NEW s, Len(s) \in Nat
  PROVE  \E f : Joins(f, s, Len(s)) /\ Hi!Joined(s) = f[Len(s)]
<1>. DEFINE f == CHOOSE h : Joins(h, s, Len(s))
<1>1. Joins(f, s, Len(s))
  BY JoinsOne
<1>2. Hi!Joined(s) = f[Len(s)]
  BY DEF Hi!Joined, Joins
<1>. QED
  BY <1>1, <1>2

\* One more piece goes to the end.
LEMMA JoinedAndOne ==
  ASSUME NEW S, NEW s \in Seq(Seq(S)), NEW x \in Seq(S)
  PROVE  Hi!Joined(Append(s, x)) = Hi!Joined(s) \o x
<1>. DEFINE t == Append(s, x)
            n == Len(s)
<1>1. /\ n \in Nat /\ Len(t) = n + 1 /\ t[n + 1] = x /\ \A k \in 1 .. n : s[k] = t[k]
  BY AppendProperties
<1>. HIDE DEF t
<1>2. PICK g : Joins(g, t, n + 1) /\ Hi!Joined(t) = g[n + 1]
  BY <1>1, JoinedByStep
<1>3. PICK f : Joins(f, s, n) /\ Hi!Joined(s) = f[n]
  BY <1>1, JoinedByStep
<1>4. f[n] = g[n]
  <2>. DEFINE Bad == {k \in 0 .. n : f[k] # g[k]}
  <2>1. \A k \in 0 .. n : f[k] = IF k = 0 THEN <<>> ELSE f[k - 1] \o s[k]
    BY <1>3 DEF Joins
  <2>2. \A k \in 0 .. n + 1 : g[k] = IF k = 0 THEN <<>> ELSE g[k - 1] \o t[k]
    BY <1>2 DEF Joins
  <2>3. Bad \in SUBSET Nat
    BY <1>1
  <2>4. ASSUME Bad # {} PROVE FALSE
    <3>1. PICK k \in Bad : \A j \in Bad : k <= j
      <4>. HIDE DEF Bad
      <4>. QED
        BY <2>3, <2>4, LeastNumber
    <3>2. k \in 0 .. n /\ k \in 0 .. n + 1 /\ f[k] # g[k]
      BY <1>1, <3>1
    <3>3. k = 0 \/ (k \in 1 .. n /\ k - 1 \in 0 .. n /\ k - 1 \notin Bad)
      BY <1>1, <3>1, <3>2
    <3>. QED
      BY <1>1, <2>1, <2>2, <3>2, <3>3
  <2>5. n \in 0 .. n /\ n \notin Bad
    BY <1>1, <2>4
  <2>. QED
    BY <2>5
<1>5. g[n + 1] = g[n] \o x
  <2>1. \A k \in 0 .. n + 1 : g[k] = IF k = 0 THEN <<>> ELSE g[k - 1] \o t[k]
    BY <1>2 DEF Joins
  <2>2. n + 1 \in 0 .. n + 1 /\ n + 1 # 0 /\ (n + 1) - 1 = n
    BY <1>1
  <2>3. g[n + 1] = g[(n + 1) - 1] \o t[n + 1]
    BY <2>1, <2>2
  <2>. QED
    BY <1>1, <2>2, <2>3
<1>. QED
  BY <1>2, <1>3, <1>4, <1>5 DEF t

LEMMA JoinedNone == Hi!Joined(<<>>) = <<>>
<1>1. PICK f : Joins(f, <<>>, 0) /\ Hi!Joined(<<>>) = f[0]
  <2>1. Len(<<>>) = 0
    OBVIOUS
  <2>. QED
    BY <2>1, JoinedByStep
<1>. QED
  BY <1>1 DEF Joins

\* What is joined of pieces over S is one.
LEMMA JoinedType ==
  ASSUME NEW S, NEW s \in Seq(Seq(S))
  PROVE  Hi!Joined(s) \in Seq(S)
<1>. DEFINE n == Len(s)
<1>1. n \in Nat /\ \A k \in 1 .. n : s[k] \in Seq(S)
  OBVIOUS
<1>2. PICK f : Joins(f, s, n) /\ Hi!Joined(s) = f[n]
  BY <1>1, JoinedByStep
<1>3. \A k \in 0 .. n : f[k] = IF k = 0 THEN <<>> ELSE f[k - 1] \o s[k]
  BY <1>2 DEF Joins
<1>. DEFINE Bad == {k \in 0 .. n : f[k] \notin Seq(S)}
<1>4. Bad \in SUBSET Nat
  OBVIOUS
<1>5. ASSUME Bad # {} PROVE FALSE
  <2>1. PICK k \in Bad : \A j \in Bad : k <= j
    <3>. HIDE DEF Bad
    <3>. QED
      BY <1>4, <1>5, LeastNumber
  <2>2. k \in 0 .. n /\ (k = 0 \/ (k \in 1 .. n /\ k - 1 \in 0 .. n /\ k - 1 \notin Bad))
    BY <1>1, <2>1
  <2>3. k = 0 => f[k] = <<>>
    BY <1>3, <2>2
  <2>4. k # 0 => f[k] = f[k - 1] \o s[k] /\ s[k] \in Seq(S) /\ f[k - 1] \in Seq(S)
    BY <1>1, <1>3, <2>2
  <2>5. k # 0 => f[k] \in Seq(S)
    BY <2>4, ConcatProperties
  <2>6. <<>> \in Seq(S)
    OBVIOUS
  <2>. QED
    BY <2>1, <2>3, <2>5, <2>6
<1>6. n \in 0 .. n /\ n \notin Bad
  BY <1>1, <1>5
<1>. QED
  BY <1>2, <1>6

LEMMA SameJoined == \A s : Frame!Joined(s) = Hi!Joined(s) /\ Lines!Joined(s) = Hi!Joined(s)
BY DEF Hi!Joined, Frame!Joined, Lines!Joined

-----------------------------------------------------------------------------
(* Framing                                                                 *)

FrameByte == [of : Nat, part : Frame!Parts, no : Nat]
Unread    == stream \o remaining
TheByte(m, part, n) == [of |-> m, part |-> part, no |-> n]

\* The byte that comes after b in the messages of chapter16.
NextByte(b, lengths) ==
  LET size == IF b.part = "data" THEN lengths[b.of] ELSE FieldSize IN
  IF b.no < size THEN TheByte(b.of, b.part, b.no + 1)
  ELSE CASE b.part = "length" -> TheByte(b.of, "type", 1)
         [] b.part = "type"   -> TheByte(b.of, "data", 1)
         [] OTHER             -> TheByte(b.of + 1, "length", 1)

\* u goes from byte a to the one before z.
Chained(u, a, z, lengths) ==
  /\ u = <<>> => a = z
  /\ u # <<>> => u[1] = a /\ NextByte(u[Len(u)], lengths) = z
  /\ \A k \in 1 .. Len(u) - 1 : u[k + 1] = NextByte(u[k], lengths)

Current  == Len(delivered) + 1
ReadPart == IF readerAt = "body" THEN "data" ELSE IF readerAt = "type" THEN "type" ELSE "length"
PartSize == IF readerAt = "body" THEN message_length ELSE FieldSize

\* The byte that the reader of chapter16 is to read next.
Upcoming ==
  IF readerAt = "accept" THEN TheByte(1, "length", 1)
  ELSE IF left # 0 THEN TheByte(Current, ReadPart, Len(got) + 1)
  ELSE NextByte(TheByte(Current, ReadPart, PartSize), typedIn)

FrameTypes ==
  /\ course \in {5, 16, 17} /\ senderAt \in {"run", "gone"}
  /\ typedIn \in Seq(Lengths)
  /\ remaining \in Seq(FrameByte) /\ stream \in Seq(FrameByte) /\ got \in Seq(FrameByte)
  /\ left \in Nat /\ ended \in BOOLEAN /\ delivered \in Seq(Seq(FrameByte))
  /\ readerAt \in CASE course = 16 -> {"accept", "length", "type", "body", "closed"}
                    [] course = 5  -> {"accept", "bulk", "spins", "closed"}
                    [] OTHER       -> {"accept", "read", "killed", "closed"}

EndInv ==
  /\ ended => senderAt = "gone" /\ stream = <<>>
  /\ readerAt = "closed" => senderAt = "gone" /\ stream = <<>>
  /\ readerAt = "accept" => got = <<>> /\ delivered = <<>>

MessageInv ==
  /\ \A k \in 1 .. Len(delivered) :
       k <= Len(typedIn) /\ delivered[k] = Frame!Piece(k, "data", typedIn[k])
  /\ readerAt # "closed" =>
       /\ \A n \in 1 .. Len(got) : got[n] = TheByte(Current, ReadPart, n)
       /\ readerAt # "accept" => left + Len(got) = PartSize
       /\ got # <<>> => Current <= Len(typedIn)
       /\ readerAt \in {"type", "body"} =>
            Current <= Len(typedIn) /\ message_length = typedIn[Current]
       /\ \A k \in 1 .. Len(Unread) : Unread[k].of \in 1 .. Len(typedIn)
       /\ Chained(Unread, Upcoming, TheByte(Len(typedIn) + 1, "length", 1), typedIn)

Full(k) == Len(delivered[k]) = BulkSize

BulkInv ==
  /\ \A k \in 1 .. Len(delivered) :
       /\ \A n \in 1 .. Len(delivered[k]) : delivered[k][n].no = (k - 1) * BulkSize + n
       /\ Full(k) \/ (k = Len(delivered) /\ senderAt = "gone" /\ stream = <<>> /\ got = <<>>)
  /\ (\A k \in 1 .. Len(delivered) : Full(k)) =>
       /\ \A n \in 1 .. Len(got) : got[n].no = Len(delivered) * BulkSize + n
       /\ \A n \in 1 .. Len(Unread) :
            Unread[n].no = Len(delivered) * BulkSize + Len(got) + n
  /\ readerAt = "bulk" => left + Len(got) = BulkSize

RawInv == Frame!Joined(delivered) \o stream \o remaining = Frame!Piece(1, "data", MessageSize)

FrameInv ==
  /\ FrameTypes /\ EndInv
  /\ course = 16 => MessageInv
  /\ course = 5  => BulkInv
  /\ course = 17 => RawInv

-----------------------------------------------------------------------------
LEMMA NextSame ==
  ASSUME NEW s \in Seq(Lengths), NEW l, NEW b \in FrameByte, b.of \in 1 .. Len(s)
  PROVE  NextByte(b, Append(s, l)) = NextByte(b, s)
<1>1. Append(s, l)[b.of] = s[b.of]
  OBVIOUS
<1>. QED
  BY <1>1 DEF NextByte

LEMMA ChainConcat ==
  ASSUME NEW u \in Seq(FrameByte), NEW v \in Seq(FrameByte), NEW a, NEW b, NEW z, NEW s,
         Chained(u, a, b, s), Chained(v, b, z, s)
  PROVE  Chained(u \o v, a, z, s)
<1>. DEFINE w == u \o v
<1>1. /\ w \in Seq(FrameByte) /\ Len(w) = Len(u) + Len(v) /\ Len(u) \in Nat /\ Len(v) \in Nat
      /\ \A k \in 1 .. Len(u) : w[k] = u[k]
      /\ \A k \in 1 .. Len(v) : w[Len(u) + k] = v[k]
  <2>1. \A k \in 1 .. Len(u) + Len(v) : w[k] = IF k <= Len(u) THEN u[k] ELSE v[k - Len(u)]
    BY ConcatProperties
  <2>2. Len(u) \in Nat /\ Len(v) \in Nat
    OBVIOUS
  <2>3. \A k \in 1 .. Len(u) : w[k] = u[k]
    BY <2>1, <2>2
  <2>4. ASSUME NEW k \in 1 .. Len(v) PROVE w[Len(u) + k] = v[k]
    <3>1. Len(u) + k \in 1 .. Len(u) + Len(v) /\ ~(Len(u) + k <= Len(u)) /\ (Len(u) + k) - Len(u) = k
      BY <2>2
    <3>. QED
      BY <2>1, <3>1
  <2>. QED
    BY <2>2, <2>3, <2>4, ConcatProperties
<1>2. CASE u = <<>>
  <2>1. w = v /\ a = b
    BY <1>2, ConcatEmptySeq DEF Chained
  <2>. QED
    BY <2>1
<1>3. CASE v = <<>>
  <2>1. w = u /\ z = b
    BY <1>3, ConcatEmptySeq DEF Chained
  <2>. QED
    BY <2>1
<1>4. CASE u # <<>> /\ v # <<>>
  <2>1. Len(u) > 0 /\ Len(v) > 0 /\ w # <<>>
    BY <1>1, <1>4, EmptySeq
  <2>2. w[1] = a
    BY <1>1, <1>4, <2>1 DEF Chained
  <2>3. w[Len(w)] = v[Len(v)]
    BY <1>1, <2>1
  <2>4. NextByte(w[Len(w)], s) = z
    BY <1>4, <2>3 DEF Chained
  <2>5. ASSUME NEW k \in 1 .. Len(w) - 1 PROVE w[k + 1] = NextByte(w[k], s)
    <3>1. CASE k < Len(u)
      BY <1>1, <3>1 DEF Chained
    <3>2. CASE k = Len(u)
      <4>1. w[k + 1] = v[1] /\ w[k] = u[Len(u)]
        BY <1>1, <2>1, <3>2
      <4>. QED
        BY <1>4, <4>1 DEF Chained
    <3>3. CASE k > Len(u)
      <4>1. k - Len(u) \in 1 .. Len(v) - 1 /\ k - Len(u) + 1 \in 1 .. Len(v)
        BY <1>1, <3>3
      <4>2. /\ w[Len(u) + (k - Len(u))] = v[k - Len(u)]
            /\ w[Len(u) + (k - Len(u) + 1)] = v[k - Len(u) + 1]
        BY <1>1, <4>1
      <4>3. w[k] = v[k - Len(u)] /\ w[k + 1] = v[k - Len(u) + 1]
        BY <1>1, <4>2
      <4>4. v[k - Len(u) + 1] = NextByte(v[k - Len(u)], s)
        BY <4>1 DEF Chained
      <4>. QED
        BY <4>3, <4>4
    <3>. QED
      BY <1>1, <3>1, <3>2, <3>3
  <2>. QED
    BY <2>1, <2>2, <2>4, <2>5 DEF Chained
<1>. QED
  BY <1>2, <1>3, <1>4

LEMMA DropProperties ==
  ASSUME NEW S, NEW u \in Seq(S), NEW n \in 1 .. Len(u)
  PROVE  /\ SubSeq(u, n + 1, Len(u)) \in Seq(S)
         /\ Len(SubSeq(u, n + 1, Len(u))) = Len(u) - n
         /\ \A k \in 1 .. Len(u) - n : SubSeq(u, n + 1, Len(u))[k] = u[n + k]
<1>1. n + 1 \in Int /\ Len(u) \in Int /\ \A k \in n + 1 .. Len(u) : u[k] \in S
  OBVIOUS
<1>2. /\ SubSeq(u, n + 1, Len(u)) \in Seq(S)
      /\ Len(SubSeq(u, n + 1, Len(u))) = IF n + 1 <= Len(u) THEN Len(u) - (n + 1) + 1 ELSE 0
      /\ \A k \in 1 .. Len(u) - (n + 1) + 1 : SubSeq(u, n + 1, Len(u))[k] = u[(n + 1) + k - 1]
  BY <1>1, SubSeqProperties
<1>. DEFINE w == SubSeq(u, n + 1, Len(u))
<1>3. w \in Seq(S)
  BY <1>2
<1>4. Len(w) = Len(u) - n
  BY <1>1, <1>2
<1>5. ASSUME NEW k \in 1 .. Len(u) - n PROVE w[k] = u[n + k]
  <2>1. k \in 1 .. Len(u) - (n + 1) + 1 /\ (n + 1) + k - 1 = n + k
    BY <1>1
  <2>2. w[k] = u[(n + 1) + k - 1]
    BY <1>2, <2>1
  <2>. QED
    BY <2>1, <2>2
<1>. QED
  BY <1>3, <1>4, <1>5

LEMMA ChainDrop ==
  ASSUME NEW u \in Seq(FrameByte), NEW a, NEW z, NEW s, NEW n \in 1 .. Len(u),
         Chained(u, a, z, s)
  PROVE  Chained(SubSeq(u, n + 1, Len(u)), NextByte(u[n], s), z, s)
<1>. DEFINE w == SubSeq(u, n + 1, Len(u))
<1>1. w \in Seq(FrameByte) /\ Len(w) = Len(u) - n /\ \A k \in 1 .. Len(u) - n : w[k] = u[n + k]
  BY DropProperties
<1>2. Len(u) \in Nat /\ u # <<>>
  OBVIOUS
<1>. HIDE DEF w
<1>3. CASE n = Len(u)
  <2>1. w = <<>>
    BY <1>1, <1>2, <1>3, EmptySeq
  <2>2. NextByte(u[n], s) = z
    BY <1>2, <1>3 DEF Chained
  <2>3. Len(w) = 0
    BY <1>1, <1>2, <1>3
  <2>4. Chained(w, NextByte(u[n], s), z, s)
    BY <2>1, <2>2, <2>3 DEF Chained
  <2>. QED
    BY <2>4 DEF w
<1>4. CASE n < Len(u)
  <2>1. w # <<>> /\ 1 \in 1 .. Len(u) - n /\ Len(w) \in 1 .. Len(u) - n
    BY <1>1, <1>2, <1>4, EmptySeq
  <2>2. w[1] = u[n + 1] /\ w[Len(w)] = u[Len(u)]
    BY <1>1, <1>2, <2>1
  <2>3. u[n + 1] = NextByte(u[n], s) /\ NextByte(u[Len(u)], s) = z
    BY <1>2, <1>4 DEF Chained
  <2>4. ASSUME NEW k \in 1 .. Len(w) - 1 PROVE w[k + 1] = NextByte(w[k], s)
    <3>1. k \in 1 .. Len(u) - n /\ k + 1 \in 1 .. Len(u) - n /\ n + k \in 1 .. Len(u) - 1
      BY <1>1, <1>2
    <3>2. w[k] = u[n + k] /\ w[k + 1] = u[n + (k + 1)] /\ n + (k + 1) = (n + k) + 1
      BY <1>1, <3>1
    <3>3. u[(n + k) + 1] = NextByte(u[n + k], s)
      BY <3>1 DEF Chained
    <3>. QED
      BY <3>2, <3>3
  <2>5. Chained(w, NextByte(u[n], s), z, s)
    BY <2>1, <2>2, <2>3, <2>4 DEF Chained
  <2>. QED
    BY <2>5 DEF w
<1>. QED
  BY <1>2, <1>3, <1>4

LEMMA PieceProperties ==
  ASSUME NEW m \in Nat, NEW part \in Frame!Parts, NEW size \in Nat
  PROVE  LET p == Frame!Piece(m, part, size) IN
         /\ p \in Seq(FrameByte) /\ Len(p) = size
         /\ \A n \in 1 .. size : p[n] = TheByte(m, part, n)
<1>. DEFINE p == Frame!Piece(m, part, size)
<1>1. p = [n \in 1 .. size |-> TheByte(m, part, n)]
  BY DEF Frame!Piece, TheByte
<1>2. \A n \in 1 .. size : TheByte(m, part, n) \in FrameByte
  BY DEF TheByte, FrameByte
<1>3. p \in [1 .. size -> FrameByte]
  BY <1>1, <1>2
<1>4. p \in Seq(FrameByte) /\ Len(p) = size
  <2>1. p \in Seq(FrameByte)
    BY <1>3, SeqDef
  <2>. QED
    BY <1>3, <2>1, LenProperties
<1>. QED
  BY <1>1, <1>4

LEMMA IsPiece ==
  ASSUME NEW m \in Nat, NEW part \in Frame!Parts, NEW size \in Nat, NEW u \in Seq(FrameByte),
         Len(u) = size, \A n \in 1 .. size : u[n] = TheByte(m, part, n)
  PROVE  u = Frame!Piece(m, part, size)
<1>1. /\ Frame!Piece(m, part, size) \in Seq(FrameByte) /\ Len(Frame!Piece(m, part, size)) = size
      /\ \A n \in 1 .. size : Frame!Piece(m, part, size)[n] = TheByte(m, part, n)
  BY PieceProperties
<1>. QED
  BY <1>1, SeqEqual

SizeOf(m, part, s) == IF part = "data" THEN s[m] ELSE FieldSize

LEMMA ChainPiece ==
  ASSUME NEW m \in Nat, NEW part \in Frame!Parts, NEW size \in Nat \ {0}, NEW s,
         SizeOf(m, part, s) = size
  PROVE  Chained(Frame!Piece(m, part, size), TheByte(m, part, 1),
                 NextByte(TheByte(m, part, size), s), s)
<1>. DEFINE p == Frame!Piece(m, part, size)
<1>1. p \in Seq(FrameByte) /\ Len(p) = size /\ \A n \in 1 .. size : p[n] = TheByte(m, part, n)
  BY PieceProperties
<1>. HIDE DEF p
<1>2. p # <<>>
  BY <1>1, EmptySeq
<1>3. p[1] = TheByte(m, part, 1) /\ p[Len(p)] = TheByte(m, part, size)
  BY <1>1
<1>4. ASSUME NEW k \in 1 .. Len(p) - 1 PROVE p[k + 1] = NextByte(p[k], s)
  <2>1. k \in 1 .. size /\ k + 1 \in 1 .. size /\ k < size
    BY <1>1
  <2>2. p[k] = TheByte(m, part, k) /\ p[k + 1] = TheByte(m, part, k + 1)
    BY <1>1, <2>1
  <2>3. NextByte(TheByte(m, part, k), s) = TheByte(m, part, k + 1)
    BY <2>1 DEF NextByte, TheByte, SizeOf
  <2>. QED
    BY <2>2, <2>3
<1>5. Chained(p, TheByte(m, part, 1), NextByte(TheByte(m, part, size), s), s)
  BY <1>2, <1>3, <1>4 DEF Chained
<1>. QED
  BY <1>5 DEF p

\* What follows a byte of a part is the rest of the part.
LEMMA ChainRun ==
  ASSUME NEW u \in Seq(FrameByte), NEW m \in Nat, NEW part \in Frame!Parts, NEW a \in Nat,
         NEW z, NEW s, NEW n \in 0 .. Len(u), SizeOf(m, part, s) \in Nat,
         Chained(u, TheByte(m, part, a), z, s), a - 1 + n <= SizeOf(m, part, s)
  PROVE  \A k \in 1 .. n : u[k] = TheByte(m, part, a + k - 1)
<1>. DEFINE Bad == {k \in 1 .. n : u[k] # TheByte(m, part, a + k - 1)}
<1>. SUFFICES ASSUME Bad # {} PROVE FALSE
  OBVIOUS
<1>0. Bad \in SUBSET Nat /\ Len(u) \in Nat
  OBVIOUS
<1>1. PICK k \in Bad : \A j \in Bad : k <= j
  <2>. HIDE DEF Bad
  <2>. QED
    BY <1>0, LeastNumber
<1>2. k \in 1 .. n /\ k \in 1 .. Len(u) /\ u # <<>>
  BY <1>0, <1>1, EmptySeq
<1>3. CASE k = 1
  <2>1. a + 1 - 1 = a
    OBVIOUS
  <2>. QED
    BY <1>1, <1>2, <1>3, <2>1 DEF Chained
<1>4. CASE k # 1
  <2>1. k - 1 \in 1 .. n /\ k - 1 \in 1 .. Len(u) - 1 /\ k - 1 \notin Bad
    BY <1>0, <1>1, <1>2, <1>4
  <2>2. u[k - 1] = TheByte(m, part, a + (k - 1) - 1)
    BY <2>1
  <2>3. u[(k - 1) + 1] = NextByte(u[k - 1], s) /\ (k - 1) + 1 = k
    BY <1>2, <2>1 DEF Chained
  <2>4. a + (k - 1) - 1 < SizeOf(m, part, s)
    BY <1>2
  <2>5. NextByte(TheByte(m, part, a + (k - 1) - 1), s) = TheByte(m, part, a + (k - 1) - 1 + 1)
    BY <2>4 DEF NextByte, TheByte, SizeOf
  <2>6. a + (k - 1) - 1 + 1 = a + k - 1
    BY <1>2
  <2>. QED
    BY <1>1, <2>2, <2>3, <2>5, <2>6
<1>. QED
  BY <1>3, <1>4

\* A byte may move from the end of one sequence to the beginning of the next.
LEMMA MoveOver ==
  ASSUME NEW S, NEW u \in Seq(S), NEW v \in Seq(S), NEW n \in 1 .. Len(v)
  PROVE  /\ SubSeq(v, 1, n) \in Seq(S) /\ SubSeq(v, n + 1, Len(v)) \in Seq(S)
         /\ (u \o SubSeq(v, 1, n)) \o SubSeq(v, n + 1, Len(v)) = u \o v
<1>1. SubSeq(v, 1, n) \in Seq(S) /\ SubSeq(v, n + 1, Len(v)) \in Seq(S)
  <2>1. SubSeq(v, n + 1, Len(v)) \in Seq(S)
    BY DropProperties
  <2>2. \A k \in 1 .. n : v[k] \in S
    OBVIOUS
  <2>3. 1 \in Int /\ n \in Int
    OBVIOUS
  <2>4. SubSeq(v, 1, n) \in Seq(S)
    BY <2>2, <2>3, SubSeqProperties
  <2>. QED
    BY <2>1, <2>4
<1>2. SubSeq(v, 1, n) \o SubSeq(v, n + 1, Len(v)) = v
  <2>1. 1 \in 1 .. Len(v) + 1 /\ n \in 1 - 1 .. Len(v) /\ Len(v) \in n .. Len(v)
    OBVIOUS
  <2>2. SubSeq(v, 1, n) \o SubSeq(v, n + 1, Len(v)) = SubSeq(v, 1, Len(v))
    BY <2>1, ConcatAdjacentSubSeq
  <2>. QED
    BY <2>2, SubSeqFull
<1>3. (u \o SubSeq(v, 1, n)) \o SubSeq(v, n + 1, Len(v)) = u \o (SubSeq(v, 1, n) \o SubSeq(v, n + 1, Len(v)))
  <2>. DEFINE x == SubSeq(v, 1, n)
              y == SubSeq(v, n + 1, Len(v))
  <2>1. x \in Seq(S) /\ y \in Seq(S)
    BY <1>1
  <2>. HIDE DEF x, y
  <2>2. (u \o x) \o y = u \o (x \o y)
    BY <2>1, ConcatAssociative, SMTT(30)
  <2>. QED
    BY <2>2 DEF x, y
<1>. QED
  BY <1>1, <1>2, <1>3

LEMMA AllMoveOver ==
  \A S : \A u, v \in Seq(S) : \A n \in 1 .. Len(v) :
    /\ SubSeq(v, 1, n) \in Seq(S) /\ SubSeq(v, n + 1, Len(v)) \in Seq(S)
    /\ (u \o SubSeq(v, 1, n)) \o SubSeq(v, n + 1, Len(v)) = u \o v
BY MoveOver

\* Taking from the front of the stream is taking from the front of all unread bytes.
LEMMA DropFirst ==
  ASSUME NEW S, NEW u \in Seq(S), NEW v \in Seq(S), NEW n \in 1 .. Len(u)
  PROVE  /\ n \in 1 .. Len(u \o v) /\ \A k \in 1 .. n : (u \o v)[k] = u[k]
         /\ SubSeq(u, n + 1, Len(u)) \o v = SubSeq(u \o v, n + 1, Len(u \o v))
<1>. DEFINE w == u \o v
            d == SubSeq(u, n + 1, Len(u))
            e == SubSeq(w, n + 1, Len(w))
<1>1. /\ w \in Seq(S) /\ Len(w) = Len(u) + Len(v) /\ Len(u) \in Nat /\ Len(v) \in Nat
      /\ \A k \in 1 .. Len(u) + Len(v) : w[k] = IF k <= Len(u) THEN u[k] ELSE v[k - Len(u)]
  BY ConcatProperties
<1>2. n \in 1 .. Len(w) /\ \A k \in 1 .. n : w[k] = u[k]
  BY <1>1
<1>3. d \in Seq(S) /\ Len(d) = Len(u) - n /\ \A k \in 1 .. Len(u) - n : d[k] = u[n + k]
  BY DropProperties
<1>. HIDE DEF w
<1>4. e \in Seq(S) /\ Len(e) = Len(w) - n /\ \A k \in 1 .. Len(w) - n : e[k] = w[n + k]
  BY <1>1, <1>2, DropProperties
<1>. HIDE DEF d, e
<1>5. /\ d \o v \in Seq(S) /\ Len(d \o v) = Len(d) + Len(v)
      /\ \A k \in 1 .. Len(d) + Len(v) : (d \o v)[k] = IF k <= Len(d) THEN d[k] ELSE v[k - Len(d)]
  BY <1>3, ConcatProperties
<1>6. Len(d \o v) = Len(e)
  BY <1>1, <1>3, <1>4, <1>5
<1>7. ASSUME NEW k \in 1 .. Len(d \o v) PROVE (d \o v)[k] = e[k]
  <2>1. k \in 1 .. Len(w) - n /\ n + k \in 1 .. Len(u) + Len(v) /\ e[k] = w[n + k]
    BY <1>1, <1>3, <1>4, <1>5
  <2>2. CASE k <= Len(d)
    <3>1. k \in 1 .. Len(u) - n /\ n + k <= Len(u)
      BY <1>1, <1>3, <2>2
    <3>2. (d \o v)[k] = d[k] /\ w[n + k] = u[n + k]
      BY <1>1, <1>5, <2>1, <2>2, <3>1
    <3>. QED
      BY <1>3, <2>1, <3>1, <3>2
  <2>3. CASE ~(k <= Len(d))
    <3>1. (d \o v)[k] = v[k - Len(d)]
      BY <1>5, <2>3
    <3>2. ~(n + k <= Len(u)) /\ (n + k) - Len(u) = k - Len(d)
      BY <1>1, <1>3, <2>3
    <3>3. w[n + k] = v[(n + k) - Len(u)]
      BY <1>1, <2>1, <3>2
    <3>. QED
      BY <2>1, <3>1, <3>2, <3>3
  <2>. QED
    BY <2>2, <2>3
<1>8. d \o v = e
  BY <1>4, <1>5, <1>6, <1>7, SeqEqual
<1>. QED
  BY <1>2, <1>8 DEF d, e, w

LEMMA MessageType ==
  ASSUME NEW m \in Nat \ {0}, NEW length \in Lengths
  PROVE  Frame!Message(m, length) \in Seq(FrameByte)
<1>1. FieldSize \in Nat /\ length \in Nat /\ m \in Nat /\ {"length", "type", "data"} = Frame!Parts
  BY FramingAssumption DEF Frame!Parts
<1>2. /\ Frame!Piece(m, "length", FieldSize) \in Seq(FrameByte)
      /\ Frame!Piece(m, "type", FieldSize) \in Seq(FrameByte)
      /\ Frame!Piece(m, "data", length) \in Seq(FrameByte)
  BY <1>1, PieceProperties
<1>3. Frame!Piece(m, "length", FieldSize) \o Frame!Piece(m, "type", FieldSize) \in Seq(FrameByte)
  BY <1>2, ConcatProperties
<1>4. (Frame!Piece(m, "length", FieldSize) \o Frame!Piece(m, "type", FieldSize)) \o Frame!Piece(m, "data", length)
      \in Seq(FrameByte)
  BY <1>2, <1>3, ConcatProperties
<1>. QED
  BY <1>4 DEF Frame!Message

LEMMA FrameTypesInit == Frame!Init => FrameTypes
<1>. SUFFICES ASSUME Frame!Init PROVE FrameTypes
  OBVIOUS
<1>1. /\ course \in {5, 16, 17} /\ senderAt = "run" /\ typedIn = <<>> /\ stream = <<>>
      /\ remaining = IF course = 16 THEN <<>> ELSE Frame!Piece(1, "data", MessageSize)
      /\ readerAt = "accept" /\ left = 0 /\ ended = FALSE /\ got = <<>>
      /\ message_length = 0 /\ delivered = <<>>
  BY DEF Frame!Init
<1>2. Frame!Piece(1, "data", MessageSize) \in Seq(FrameByte)
  <2>1. "data" \in Frame!Parts /\ MessageSize \in Nat /\ 1 \in Nat
    BY FramingAssumption DEF Frame!Parts
  <2>. QED
    BY <2>1, PieceProperties
<1>3. <<>> \in Seq(FrameByte) /\ <<>> \in Seq(Lengths) /\ <<>> \in Seq(Seq(FrameByte))
  OBVIOUS
<1>4. remaining \in Seq(FrameByte)
  BY <1>1, <1>2, <1>3
<1>. QED
  BY <1>1, <1>3, <1>4 DEF FrameTypes

\* A message that was sent is not refused: its length is one of those that were typed.
LEMMA FrameTypesStep == FrameTypes /\ (course = 16 => MessageInv) /\ [Frame!Next]_frameVars => FrameTypes'
<1>. SUFFICES ASSUME FrameTypes, course = 16 => MessageInv, [Frame!Next]_frameVars PROVE FrameTypes'
  OBVIOUS
<1>. USE FramingAssumption
<1>1. /\ course \in {5, 16, 17} /\ senderAt \in {"run", "gone"}
      /\ typedIn \in Seq(Lengths)
      /\ remaining \in Seq(FrameByte) /\ stream \in Seq(FrameByte) /\ got \in Seq(FrameByte)
      /\ left \in Nat /\ ended \in BOOLEAN /\ delivered \in Seq(Seq(FrameByte))
  BY DEF FrameTypes
<1>2. /\ course = 16 => readerAt \in {"accept", "length", "type", "body", "closed"}
      /\ course = 5  => readerAt \in {"accept", "bulk", "spins", "closed"}
      /\ course = 17 => readerAt \in {"accept", "read", "killed", "closed"}
  BY SMTT(20) DEF FrameTypes
<1>3. \A n \in 1 .. Len(stream) :
        /\ SubSeq(stream, 1, n) \in Seq(FrameByte) /\ SubSeq(stream, n + 1, Len(stream)) \in Seq(FrameByte)
  BY <1>1, MoveOver
<1>0. <<>> \in Seq(FrameByte) /\ FieldSize \in Nat /\ BulkSize \in Nat
  OBVIOUS
<1>4. CASE Frame!ReadSome
  <2>1. PICK n \in 1 .. left : n <= Len(stream) /\ Frame!Take(n)
    BY <1>4 DEF Frame!ReadSome
  <2>2. n \in 1 .. Len(stream) /\ left - n \in Nat
    BY <1>1, <2>1
  <2>3. got' \in Seq(FrameByte) /\ stream' \in Seq(FrameByte)
    <3>1. got \o SubSeq(stream, 1, n) \in Seq(FrameByte)
      BY <1>1, <1>3, <2>2, ConcatProperties
    <3>. QED
      BY <1>3, <2>1, <2>2, <3>1 DEF Frame!Take
  <2>4. left' \in Nat /\ ended' \in BOOLEAN
    BY <1>1, <2>1, <2>2 DEF Frame!Take
  <2>5. UNCHANGED <<course, senderAt, typedIn, remaining, readerAt, delivered>>
    BY <1>4 DEF Frame!ReadSome, Frame!senderVars
  <2>. QED
    BY <1>1, <1>2, <2>3, <2>4, <2>5 DEF FrameTypes
<1>5. CASE Frame!ReadNothing
  <2>1. UNCHANGED <<course, senderAt, typedIn, remaining, stream, readerAt, left, got, delivered>> /\ ended' = TRUE
    BY <1>5 DEF Frame!ReadNothing, Frame!senderVars
  <2>. QED
    BY <1>1, <1>2, <2>1 DEF FrameTypes
<1>6. CASE Frame!Accept
  <2>1. UNCHANGED <<course, senderAt, typedIn, remaining, stream, delivered>>
    BY <1>6 DEF Frame!Accept, Frame!senderVars
  <2>2. left' \in Nat /\ ended' \in BOOLEAN /\ got' \in Seq(FrameByte)
    <3>1. \/ left' \in {FieldSize, BulkSize} /\ ended' = FALSE /\ got' = <<>>
          \/ UNCHANGED <<left, ended, got>>
      BY <1>6 DEF Frame!Accept, Frame!Readn
    <3>. QED
      BY <1>0, <1>1, <3>1
  <2>3. /\ course = 16 => readerAt' = "length"
        /\ course = 5  => readerAt' \in {"bulk", "spins"}
        /\ course = 17 => readerAt' = "read"
    BY <1>6 DEF Frame!Accept, Frame!Readn
  <2>. QED
    BY <1>1, <2>1, <2>2, <2>3 DEF FrameTypes
<1>7. CASE Frame!LengthRead
  <2>1. /\ UNCHANGED <<course, senderAt, typedIn, remaining, stream, delivered>>
        /\ readerAt = "length" /\ readerAt' = "type" /\ left' = FieldSize /\ got' = <<>> /\ ended' = FALSE
    BY <1>7 DEF Frame!LengthRead, Frame!Readn, Frame!senderVars
  <2>2. course = 16
    BY <1>1, <1>2, <2>1
  <2>3. left' \in Nat /\ got' \in Seq(FrameByte) /\ ended' \in BOOLEAN /\ typedIn' \in Seq(Lengths)
    BY <1>0, <1>1, <2>1
  <2>4. delivered' \in Seq(Seq(FrameByte)) /\ remaining' \in Seq(FrameByte) /\ stream' \in Seq(FrameByte)
    BY <1>1, <2>1
  <2>5. senderAt' \in {"run", "gone"} /\ course' = 16 /\ readerAt' = "type"
    BY <1>1, <2>1, <2>2
  <2>. QED
    BY <2>3, <2>4, <2>5 DEF FrameTypes
<1>8. CASE Frame!TypeRead
  <2>1. /\ UNCHANGED <<course, senderAt, typedIn, remaining, stream, delivered>> /\ readerAt = "type"
        /\ IF BufferSize < message_length
           THEN readerAt' = "error" /\ UNCHANGED <<left, ended, got>>
           ELSE readerAt' = "body" /\ left' = message_length /\ got' = <<>> /\ ended' = FALSE
    BY <1>8 DEF Frame!TypeRead, Frame!Readn, Frame!senderVars
  <2>2. course = 16 /\ MessageInv
    BY <1>1, <1>2, <2>1
  <2>3. Len(delivered) + 1 <= Len(typedIn) /\ message_length = typedIn[Len(delivered) + 1]
    <3>1. Current <= Len(typedIn) /\ message_length = typedIn[Current]
      BY <2>1, <2>2 DEF MessageInv
    <3>. QED
      BY <3>1 DEF Current
  <2>4. message_length \in Lengths
    BY <1>1, <2>3
  <2>5. message_length \in Nat /\ message_length <= BufferSize
    BY <2>4
  <2>6. readerAt' = "body" /\ left' = message_length /\ got' = <<>> /\ ended' = FALSE
    BY <2>1, <2>5
  <2>7. got' \in Seq(FrameByte) /\ left' \in Nat
    BY <1>0, <2>5, <2>6
  <2>8. ended' \in BOOLEAN
    BY <2>6
  <2>. QED
    BY <1>1, <2>1, <2>2, <2>6, <2>7, <2>8 DEF FrameTypes
<1>9. CASE Frame!CutOff
  <2>1. /\ UNCHANGED <<course, senderAt, typedIn, remaining, stream, left, ended, got, delivered>>
        /\ readerAt' = "closed"
    BY <1>9 DEF Frame!CutOff, Frame!senderVars
  <2>. QED
    BY <1>1, <2>1 DEF FrameTypes
<1>10. CASE Frame!BodyRead
  <2>1. /\ UNCHANGED <<course, senderAt, typedIn, remaining, stream>> /\ readerAt = "body"
        /\ \/ readerAt' = "closed" /\ UNCHANGED <<left, ended, got, delivered>>
           \/ /\ delivered' = Append(delivered, got) /\ left' = FieldSize /\ got' = <<>>
              /\ ended' = FALSE /\ readerAt' = "length"
    BY <1>10 DEF Frame!BodyRead, Frame!Readn, Frame!senderVars
  <2>2. course = 16 /\ Append(delivered, got) \in Seq(Seq(FrameByte))
    BY <1>1, <1>2, <2>1
  <2>3. delivered' \in Seq(Seq(FrameByte)) /\ left' \in Nat /\ got' \in Seq(FrameByte) /\ ended' \in BOOLEAN
    BY <1>0, <1>1, <2>1, <2>2
  <2>. QED
    BY <1>1, <2>1, <2>2, <2>3 DEF FrameTypes
<1>11. CASE Frame!BulkRead
  <2>1. /\ UNCHANGED <<course, senderAt, typedIn, remaining, stream>> /\ readerAt = "bulk"
        /\ \/ readerAt' = "closed" /\ UNCHANGED <<left, ended, got, delivered>>
           \/ /\ delivered' = Append(delivered, got) /\ left' = BulkSize /\ got' = <<>>
              /\ ended' = FALSE /\ readerAt' = "bulk"
    BY <1>11 DEF Frame!BulkRead, Frame!Readn, Frame!senderVars
  <2>2. course = 5 /\ Append(delivered, got) \in Seq(Seq(FrameByte))
    BY <1>1, <1>2, <2>1
  <2>3. delivered' \in Seq(Seq(FrameByte)) /\ left' \in Nat /\ got' \in Seq(FrameByte) /\ ended' \in BOOLEAN
    BY <1>0, <1>1, <2>1, <2>2
  <2>. QED
    BY <1>1, <2>1, <2>2, <2>3 DEF FrameTypes
<1>12. CASE Frame!ReadRaw
  <2>1. UNCHANGED <<course, senderAt, typedIn, remaining, left, ended, got>> /\ readerAt = "read"
    BY <1>12 DEF Frame!ReadRaw, Frame!senderVars
  <2>2. course = 17
    BY <1>1, <1>2, <2>1
  <2>3. CASE stream = <<>> /\ senderAt = "gone" /\ readerAt' = "closed" /\ UNCHANGED <<stream, delivered>>
    BY <1>1, <2>1, <2>2, <2>3 DEF FrameTypes
  <2>4. CASE \E n \in 1 .. Len(stream) :
               /\ delivered' = Append(delivered, SubSeq(stream, 1, n))
               /\ stream' = SubSeq(stream, n + 1, Len(stream)) /\ UNCHANGED readerAt
    <3>1. PICK n \in 1 .. Len(stream) :
               /\ delivered' = Append(delivered, SubSeq(stream, 1, n))
               /\ stream' = SubSeq(stream, n + 1, Len(stream)) /\ UNCHANGED readerAt
      BY <2>4
    <3>2. stream' \in Seq(FrameByte) /\ delivered' \in Seq(Seq(FrameByte))
      BY <1>1, <1>3, <3>1, AppendProperties
    <3>. QED
      BY <1>1, <1>2, <2>1, <2>2, <3>1, <3>2 DEF FrameTypes
  <2>. QED
    BY <1>12, <2>3, <2>4 DEF Frame!ReadRaw
<1>13. CASE Frame!KillReader
  <2>1. /\ UNCHANGED <<course, senderAt, typedIn, remaining, stream, left, ended, got, delivered>>
        /\ readerAt = "read" /\ readerAt' = "killed"
    BY <1>13 DEF Frame!KillReader, Frame!senderVars
  <2>2. course = 17
    BY <1>1, <1>2, <2>1
  <2>. QED
    BY <1>1, <2>1, <2>2 DEF FrameTypes
<1>14. CASE Frame!Typed
  <2>1. PICK length \in Lengths :
          typedIn' = Append(typedIn, length) /\ remaining' = Frame!Message(Len(typedIn'), length)
    BY <1>14 DEF Frame!Typed
  <2>2. UNCHANGED <<course, senderAt, stream, readerAt, left, ended, got, delivered>>
    BY <1>14 DEF Frame!Typed, Frame!readVars
  <2>3. typedIn' \in Seq(Lengths) /\ Len(typedIn') \in Nat \ {0}
    BY <1>1, <2>1, AppendProperties
  <2>4. remaining' \in Seq(FrameByte)
    BY <2>1, <2>3, MessageType
  <2>. QED
    BY <1>1, <1>2, <2>2, <2>3, <2>4 DEF FrameTypes
<1>15. CASE Frame!Send
  <2>1. PICK n \in 1 .. Len(remaining) :
          /\ stream' = stream \o SubSeq(remaining, 1, n)
          /\ remaining' = SubSeq(remaining, n + 1, Len(remaining))
    BY <1>15 DEF Frame!Send
  <2>2. UNCHANGED <<course, senderAt, typedIn, readerAt, left, ended, got, delivered>>
    BY <1>15 DEF Frame!Send, Frame!readVars
  <2>3. SubSeq(remaining, 1, n) \in Seq(FrameByte) /\ SubSeq(remaining, n + 1, Len(remaining)) \in Seq(FrameByte)
    BY <1>1, MoveOver
  <2>4. stream' \in Seq(FrameByte)
    BY <1>1, <2>1, <2>3, ConcatProperties
  <2>. QED
    BY <1>1, <1>2, <2>1, <2>2, <2>3, <2>4 DEF FrameTypes
<1>16. CASE Frame!Leave
  <2>1. /\ UNCHANGED <<course, typedIn, remaining, stream, readerAt, left, ended, got, delivered>>
        /\ senderAt' = "gone"
    BY <1>16 DEF Frame!Leave, Frame!readVars
  <2>. QED
    BY <1>1, <1>2, <2>1 DEF FrameTypes
<1>17. CASE UNCHANGED frameVars
  <2>1. UNCHANGED <<course, senderAt, typedIn, remaining, stream, readerAt, left, ended, got, delivered>>
    BY <1>17 DEF frameVars
  <2>. QED
    BY <1>1, <1>2, <2>1 DEF FrameTypes
<1>. QED
  BY <1>4, <1>5, <1>6, <1>7, <1>8, <1>9, <1>10, <1>11, <1>12, <1>13, <1>14, <1>15, <1>16, <1>17
  DEF Frame!Next, Frame!Reader

LEMMA EndStep ==
  FrameTypes /\ EndInv /\ (course = 5 => BulkInv) /\ (course = 16 => MessageInv) /\ [Frame!Next]_frameVars => EndInv'
<1>. SUFFICES ASSUME FrameTypes, EndInv, course = 5 => BulkInv, course = 16 => MessageInv, [Frame!Next]_frameVars
              PROVE  EndInv'
  OBVIOUS
<1>. USE FramingAssumption
<1>1. /\ ended => senderAt = "gone" /\ stream = <<>>
      /\ readerAt = "closed" => senderAt = "gone" /\ stream = <<>>
      /\ readerAt = "accept" => got = <<>> /\ delivered = <<>>
  BY DEF EndInv
<1>2. /\ course = 16 => readerAt \in {"accept", "length", "type", "body", "closed"}
      /\ course = 5  => readerAt \in {"accept", "bulk", "spins", "closed"}
      /\ course = 17 => readerAt \in {"accept", "read", "killed", "closed"}
      /\ course \in {5, 16, 17}
  BY SMTT(20) DEF FrameTypes
<1>3. typedIn \in Seq(Lengths) /\ got \in Seq(FrameByte) /\ left \in Nat /\ stream \in Seq(FrameByte)
      /\ remaining \in Seq(FrameByte)
  BY DEF FrameTypes
<1>4. CASE Frame!ReadSome
  <2>1. ~ended /\ readerAt \in {"length", "type", "body", "bulk"} /\ UNCHANGED <<ended, readerAt>>
    BY <1>4 DEF Frame!ReadSome, Frame!Returns, Frame!InReadn, Frame!Take
  <2>. QED
    BY <2>1 DEF EndInv
<1>5. CASE Frame!ReadNothing
  <2>1. /\ stream = <<>> /\ senderAt = "gone" /\ readerAt \in {"length", "type", "body", "bulk"}
        /\ UNCHANGED <<stream, senderAt, readerAt>>
    BY <1>5 DEF Frame!ReadNothing, Frame!InReadn, Frame!senderVars
  <2>. QED
    BY <2>1 DEF EndInv
<1>6. CASE Frame!Accept
  <2>1. /\ readerAt' \in {"length", "bulk", "spins", "read"} /\ (ended' = FALSE \/ ended' = ended)
        /\ UNCHANGED <<stream, senderAt>>
    BY <1>6 DEF Frame!Accept, Frame!Readn, Frame!senderVars
  <2>. QED
    BY <1>1, <2>1 DEF EndInv
<1>7. CASE Frame!LengthRead
  BY <1>7 DEF Frame!LengthRead, Frame!Readn, EndInv
<1>8. CASE Frame!TypeRead
  <2>1. /\ readerAt' \in {"error", "body"} /\ (ended' = FALSE \/ ended' = ended) /\ UNCHANGED <<stream, senderAt>>
    BY <1>8 DEF Frame!TypeRead, Frame!Readn, Frame!senderVars
  <2>. QED
    BY <1>1, <2>1 DEF EndInv
<1>9. CASE Frame!CutOff
  <2>1. ended /\ UNCHANGED <<stream, senderAt, ended>> /\ readerAt' = "closed"
    BY <1>9 DEF Frame!CutOff, Frame!senderVars
  <2>. QED
    BY <1>1, <2>1 DEF EndInv
<1>10. CASE Frame!BodyRead
  <2>1. /\ readerAt = "body" /\ left = 0
        /\ IF got = <<>> THEN readerAt' = "closed" /\ UNCHANGED <<left, ended, got, delivered>>
           ELSE readerAt' = "length" /\ ended' = FALSE
        /\ UNCHANGED <<stream, senderAt>>
    BY <1>10 DEF Frame!BodyRead, Frame!Readn, Frame!senderVars
  <2>2. course = 16 /\ MessageInv
    BY <1>2, <2>1
  <2>3. /\ Len(delivered) + 1 <= Len(typedIn) /\ message_length = typedIn[Len(delivered) + 1]
        /\ left + Len(got) = message_length
    <3>1. Current <= Len(typedIn) /\ message_length = typedIn[Current] /\ left + Len(got) = PartSize
      BY <2>1, <2>2 DEF MessageInv
    <3>. QED
      BY <2>1, <3>1 DEF Current, PartSize
  <2>4. message_length \in Lengths
    <3>1. delivered \in Seq(Seq(FrameByte))
      BY DEF FrameTypes
    <3>. QED
      BY <1>3, <2>3, <3>1
  <2>5. message_length \in Nat \ {0}
    BY <2>4
  <2>6. got # <<>>
    BY <1>3, <2>1, <2>3, <2>5, EmptySeq
  <2>. QED
    BY <2>1, <2>6 DEF EndInv
<1>11. CASE Frame!BulkRead
  <2>1. /\ readerAt = "bulk" /\ (left = 0 \/ ended)
        /\ IF got = <<>> THEN readerAt' = "closed" /\ UNCHANGED <<left, ended, got, delivered>>
           ELSE readerAt' = "bulk" /\ ended' = FALSE
        /\ UNCHANGED <<stream, senderAt>>
    BY <1>11 DEF Frame!BulkRead, Frame!Returns, Frame!Readn, Frame!senderVars
  <2>2. left + Len(got) = BulkSize
    BY <1>2, <2>1 DEF BulkInv
  <2>3. got = <<>> => ended
    BY <1>3, <2>1, <2>2, EmptySeq
  <2>. QED
    BY <1>1, <2>1, <2>3 DEF EndInv
<1>12. CASE Frame!ReadRaw
  <2>1. readerAt = "read" /\ UNCHANGED <<senderAt, ended>>
    BY <1>12 DEF Frame!ReadRaw, Frame!senderVars
  <2>2. CASE stream = <<>> /\ senderAt = "gone" /\ readerAt' = "closed" /\ UNCHANGED <<stream, delivered>>
    BY <2>1, <2>2 DEF EndInv
  <2>3. CASE \E n \in 1 .. Len(stream) :
               /\ delivered' = Append(delivered, SubSeq(stream, 1, n))
               /\ stream' = SubSeq(stream, n + 1, Len(stream)) /\ UNCHANGED readerAt
    <3>1. stream # <<>> /\ readerAt' = readerAt
      BY <1>3, <2>3, EmptySeq
    <3>. QED
      BY <1>1, <2>1, <3>1 DEF EndInv
  <2>. QED
    BY <1>12, <2>2, <2>3 DEF Frame!ReadRaw
<1>13. CASE Frame!KillReader
  <2>1. readerAt' = "killed" /\ UNCHANGED <<stream, senderAt, ended>>
    BY <1>13 DEF Frame!KillReader, Frame!senderVars
  <2>. QED
    BY <1>1, <2>1 DEF EndInv
<1>14. CASE Frame!Typed
  <2>1. UNCHANGED <<stream, senderAt, ended, readerAt, got, delivered>>
    BY <1>14 DEF Frame!Typed, Frame!readVars
  <2>. QED
    BY <1>1, <2>1 DEF EndInv
<1>15. CASE Frame!Send
  <2>1. senderAt = "run" /\ UNCHANGED <<senderAt, ended, readerAt, got, delivered>>
    BY <1>15 DEF Frame!Send, Frame!readVars
  <2>. QED
    BY <1>1, <2>1 DEF EndInv
<1>16. CASE Frame!Leave
  <2>1. senderAt' = "gone" /\ UNCHANGED <<stream, ended, readerAt, got, delivered>>
    BY <1>16 DEF Frame!Leave, Frame!readVars
  <2>. QED
    BY <1>1, <2>1 DEF EndInv
<1>17. CASE UNCHANGED frameVars
  <2>1. UNCHANGED <<senderAt, stream, readerAt, ended, got, delivered>>
    BY <1>17 DEF frameVars
  <2>. QED
    BY <1>1, <2>1 DEF EndInv
<1>. QED
  BY <1>4, <1>5, <1>6, <1>7, <1>8, <1>9, <1>10, <1>11, <1>12, <1>13, <1>14, <1>15, <1>16, <1>17
  DEF Frame!Next, Frame!Reader

-----------------------------------------------------------------------------
LEMMA JoinedSame == ASSUME NEW e, delivered' = e PROVE Frame!Joined(delivered)' = Frame!Joined(e)
OBVIOUS

LEMMA BytesAssociative ==
  ASSUME NEW a \in Seq(FrameByte), NEW b \in Seq(FrameByte), NEW c \in Seq(FrameByte)
  PROVE  (a \o b) \o c = a \o (b \o c)
BY ConcatAssociative

LEMMA BytesMoveOver ==
  ASSUME NEW a \in Seq(FrameByte), NEW b \in Seq(FrameByte), NEW n \in 1 .. Len(b)
  PROVE  /\ SubSeq(b, 1, n) \in Seq(FrameByte) /\ SubSeq(b, n + 1, Len(b)) \in Seq(FrameByte)
         /\ (a \o SubSeq(b, 1, n)) \o SubSeq(b, n + 1, Len(b)) = a \o b
<1>1. \A u, v \in Seq(FrameByte) : \A k \in 1 .. Len(v) :
        /\ SubSeq(v, 1, k) \in Seq(FrameByte) /\ SubSeq(v, k + 1, Len(v)) \in Seq(FrameByte)
        /\ (u \o SubSeq(v, 1, k)) \o SubSeq(v, k + 1, Len(v)) = u \o v
  BY AllMoveOver, Zenon
<1>. QED
  BY <1>1, Zenon

\* What send() takes is in the stream.
LEMMA SendKeeps ==
  FrameTypes /\ Frame!Send =>
    /\ stream' \in Seq(FrameByte) /\ remaining' \in Seq(FrameByte)
    /\ stream' \o remaining' = stream \o remaining
<1>. SUFFICES ASSUME FrameTypes, Frame!Send
              PROVE  /\ stream' \in Seq(FrameByte) /\ remaining' \in Seq(FrameByte)
                     /\ stream' \o remaining' = stream \o remaining
  OBVIOUS
<1>1. stream \in Seq(FrameByte) /\ remaining \in Seq(FrameByte)
  BY DEF FrameTypes
<1>2. PICK n \in 1 .. Len(remaining) :
        /\ stream' = stream \o SubSeq(remaining, 1, n)
        /\ remaining' = SubSeq(remaining, n + 1, Len(remaining))
  BY DEF Frame!Send
<1>3. /\ SubSeq(remaining, 1, n) \in Seq(FrameByte) /\ SubSeq(remaining, n + 1, Len(remaining)) \in Seq(FrameByte)
      /\ (stream \o SubSeq(remaining, 1, n)) \o SubSeq(remaining, n + 1, Len(remaining)) = stream \o remaining
  BY <1>1, BytesMoveOver
<1>4. stream \o SubSeq(remaining, 1, n) \in Seq(FrameByte)
  BY <1>1, <1>3, ConcatProperties
<1>. QED
  BY <1>2, <1>3, <1>4

LEMMA RawStep ==
  FrameTypes /\ course = 17 /\ RawInv /\ [Frame!Next]_frameVars => RawInv'
<1>. SUFFICES ASSUME FrameTypes, course = 17, RawInv, [Frame!Next]_frameVars
              PROVE  RawInv'
  OBVIOUS
<1>1. /\ readerAt \in {"accept", "read", "killed", "closed"}
      /\ stream \in Seq(FrameByte) /\ remaining \in Seq(FrameByte) /\ delivered \in Seq(Seq(FrameByte))
  BY DEF FrameTypes
<1>2. PICK F : F = Frame!Joined(delivered)
  OBVIOUS
<1>3. F \in Seq(FrameByte)
  <2>1. Hi!Joined(delivered) \in Seq(FrameByte)
    BY <1>1, JoinedType
  <2>. QED
    BY <1>2, <2>1, SameJoined
<1>4. F \o stream \o remaining = Frame!Piece(1, "data", MessageSize)
  BY <1>2 DEF RawInv
<1>5. ASSUME NEW e, delivered' = e,
             Frame!Joined(e) \o stream' \o remaining' = Frame!Piece(1, "data", MessageSize)
      PROVE  RawInv'
  <2>1. Frame!Joined(delivered)' = Frame!Joined(e)
    BY <1>5, JoinedSame
  <2>. QED
    BY <1>5, <2>1 DEF RawInv, Frame!Piece
<1>6. CASE UNCHANGED <<stream, remaining, delivered>>
  BY <1>2, <1>4, <1>5, <1>6
<1>7. CASE Frame!ReadRaw
  <2>1. CASE UNCHANGED <<stream, delivered>>
    BY <1>6, <1>7, <2>1 DEF Frame!ReadRaw, Frame!senderVars
  <2>2. CASE \E n \in 1 .. Len(stream) :
               /\ delivered' = Append(delivered, SubSeq(stream, 1, n))
               /\ stream' = SubSeq(stream, n + 1, Len(stream)) /\ UNCHANGED readerAt
    <3>1. PICK n \in 1 .. Len(stream) :
               /\ delivered' = Append(delivered, SubSeq(stream, 1, n))
               /\ stream' = SubSeq(stream, n + 1, Len(stream)) /\ UNCHANGED readerAt
      BY <2>2
    <3>2. PICK x : x = SubSeq(stream, 1, n)
      OBVIOUS
    <3>3. /\ SubSeq(stream, 1, n) \in Seq(FrameByte)
          /\ (F \o SubSeq(stream, 1, n)) \o SubSeq(stream, n + 1, Len(stream)) = F \o stream
      BY <1>1, <1>3, BytesMoveOver
    <3>4. x \in Seq(FrameByte) /\ (F \o x) \o stream' = F \o stream
      BY <3>1, <3>2, <3>3
    <3>5. Hi!Joined(Append(delivered, x)) = Hi!Joined(delivered) \o x
      BY <1>1, <3>4, JoinedAndOne
    <3>6. Frame!Joined(Append(delivered, x)) = F \o x
      <4>1. /\ Frame!Joined(Append(delivered, x)) = Hi!Joined(Append(delivered, x))
            /\ Frame!Joined(delivered) = Hi!Joined(delivered)
        BY SameJoined
      <4>. QED
        BY <1>2, <3>5, <4>1
    <3>7. delivered' = Append(delivered, x) /\ remaining' = remaining
      BY <1>7, <3>1, <3>2 DEF Frame!ReadRaw, Frame!senderVars
    <3>8. Frame!Joined(Append(delivered, x)) \o stream' \o remaining' = Frame!Piece(1, "data", MessageSize)
      BY <1>4, <3>4, <3>6, <3>7
    <3>. QED
      BY <1>5, <3>7, <3>8
  <2>. QED
    BY <1>7, <2>1, <2>2 DEF Frame!ReadRaw
<1>8. CASE Frame!Send
  <2>1. /\ stream' \o remaining' = stream \o remaining
        /\ stream' \in Seq(FrameByte) /\ remaining' \in Seq(FrameByte)
    BY <1>8, SendKeeps
  <2>2. (F \o stream') \o remaining' = F \o (stream' \o remaining')
    BY <1>3, <2>1, BytesAssociative
  <2>3. (F \o stream) \o remaining = F \o (stream \o remaining)
    BY <1>1, <1>3, BytesAssociative
  <2>4. delivered' = delivered
    BY <1>8 DEF Frame!Send, Frame!readVars
  <2>. QED
    BY <1>2, <1>4, <1>5, <2>1, <2>2, <2>3, <2>4
<1>9. CASE Frame!Accept \/ Frame!KillReader \/ Frame!Leave \/ UNCHANGED frameVars
  BY <1>6, <1>9 DEF Frame!Accept, Frame!KillReader, Frame!Leave, Frame!senderVars, Frame!readVars, frameVars
<1>10. CASE \/ Frame!ReadSome \/ Frame!ReadNothing \/ Frame!LengthRead \/ Frame!TypeRead \/ Frame!BodyRead
            \/ Frame!CutOff \/ Frame!BulkRead \/ Frame!Typed
  BY <1>1, <1>10 DEF Frame!ReadSome, Frame!ReadNothing, Frame!InReadn, Frame!LengthRead, Frame!TypeRead,
                     Frame!BodyRead, Frame!CutOff, Frame!BulkRead, Frame!Typed
<1>. QED
  BY <1>6, <1>7, <1>8, <1>9, <1>10 DEF Frame!Next, Frame!Reader

\* Reading n bytes takes them off the bytes that are unread.
LEMMA ReadTakes ==
  FrameTypes /\ Frame!ReadSome =>
    \E n \in 1 .. left :
      /\ n <= Len(Unread) /\ left' = left - n /\ Len(got') = Len(got) + n
      /\ \A k \in 1 .. Len(got) : got'[k] = got[k]
      /\ \A k \in 1 .. n : got'[Len(got) + k] = Unread[k]
      /\ Unread' = SubSeq(Unread, n + 1, Len(Unread))
<1>. SUFFICES ASSUME FrameTypes, Frame!ReadSome
              PROVE  \E n \in 1 .. left :
                       /\ n <= Len(Unread) /\ left' = left - n /\ Len(got') = Len(got) + n
                       /\ \A k \in 1 .. Len(got) : got'[k] = got[k]
                       /\ \A k \in 1 .. n : got'[Len(got) + k] = Unread[k]
                       /\ Unread' = SubSeq(Unread, n + 1, Len(Unread))
  OBVIOUS
<1>1. /\ stream \in Seq(FrameByte) /\ remaining \in Seq(FrameByte) /\ got \in Seq(FrameByte) /\ left \in Nat
  BY DEF FrameTypes
<1>2. PICK n \in 1 .. left : n <= Len(stream) /\ Frame!Take(n)
  BY DEF Frame!ReadSome
<1>3. /\ got' = got \o SubSeq(stream, 1, n) /\ stream' = SubSeq(stream, n + 1, Len(stream))
      /\ left' = left - n /\ remaining' = remaining
  BY <1>2 DEF Frame!Take, Frame!ReadSome, Frame!senderVars
<1>4. n \in 1 .. Len(stream) /\ n \in Nat
  BY <1>1, <1>2
<1>5. /\ n \in 1 .. Len(stream \o remaining) /\ \A k \in 1 .. n : (stream \o remaining)[k] = stream[k]
      /\ SubSeq(stream, n + 1, Len(stream)) \o remaining
         = SubSeq(stream \o remaining, n + 1, Len(stream \o remaining))
  BY <1>1, <1>4, DropFirst
<1>6. n <= Len(Unread) /\ (\A k \in 1 .. n : Unread[k] = stream[k]) /\ Unread' = SubSeq(Unread, n + 1, Len(Unread))
  <2>1. Unread = stream \o remaining /\ Unread' = stream' \o remaining
    BY <1>3 DEF Unread
  <2>2. n \in 1 .. Len(Unread) /\ \A k \in 1 .. n : Unread[k] = stream[k]
    BY <1>5, <2>1
  <2>3. Unread' = SubSeq(Unread, n + 1, Len(Unread))
    BY <1>3, <1>5, <2>1
  <2>. QED
    BY <2>2, <2>3
<1>7. PICK x : x = SubSeq(stream, 1, n)
  OBVIOUS
<1>8. x \in Seq(FrameByte) /\ Len(x) = n /\ \A k \in 1 .. n : x[k] = stream[k]
  <2>1. \A k \in 1 .. n : stream[k] \in FrameByte
    BY <1>1, <1>4
  <2>2. 1 \in Int /\ n \in Int
    BY <1>4
  <2>3. /\ SubSeq(stream, 1, n) \in Seq(FrameByte)
        /\ Len(SubSeq(stream, 1, n)) = IF 1 <= n THEN n - 1 + 1 ELSE 0
        /\ \A k \in 1 .. n - 1 + 1 : SubSeq(stream, 1, n)[k] = stream[1 + k - 1]
    BY <2>1, <2>2, SubSeqProperties
  <2>4. Len(x) = n
    BY <1>4, <1>7, <2>3
  <2>5. ASSUME NEW k \in 1 .. n PROVE x[k] = stream[k]
    <3>1. k \in 1 .. n - 1 + 1 /\ 1 + k - 1 = k
      BY <1>4
    <3>2. x[k] = stream[1 + k - 1]
      BY <1>7, <2>3, <3>1
    <3>. QED
      BY <3>1, <3>2
  <2>. QED
    BY <1>7, <2>3, <2>4, <2>5
<1>9. /\ Len(got \o x) = Len(got) + Len(x)
      /\ \A k \in 1 .. Len(got) + Len(x) : (got \o x)[k] = IF k <= Len(got) THEN got[k] ELSE x[k - Len(got)]
  BY <1>1, <1>8, ConcatProperties
<1>10. got' = got \o x /\ Len(got) \in Nat
  BY <1>1, <1>3, <1>7
<1>11. Len(got') = Len(got) + n
  BY <1>8, <1>9, <1>10
<1>12. \A k \in 1 .. Len(got) : got'[k] = got[k]
  BY <1>4, <1>8, <1>9, <1>10
<1>13. ASSUME NEW k \in 1 .. n PROVE got'[Len(got) + k] = Unread[k]
  <2>1. Len(got) + k \in 1 .. Len(got) + Len(x) /\ ~(Len(got) + k <= Len(got)) /\ (Len(got) + k) - Len(got) = k
    BY <1>4, <1>8, <1>10
  <2>2. (got \o x)[Len(got) + k] = x[(Len(got) + k) - Len(got)]
    BY <1>9, <2>1
  <2>. QED
    BY <1>6, <1>8, <1>10, <2>1, <2>2
<1>. QED
  BY <1>3, <1>6, <1>11, <1>12, <1>13

LEMMA BulkStep ==
  FrameTypes /\ EndInv /\ course = 5 /\ BulkInv /\ [Frame!Next]_frameVars => BulkInv'
<1>. SUFFICES ASSUME FrameTypes, EndInv, course = 5, BulkInv, [Frame!Next]_frameVars
              PROVE  BulkInv'
  OBVIOUS
<1>1. /\ readerAt \in {"accept", "bulk", "spins", "closed"} /\ senderAt \in {"run", "gone"}
      /\ stream \in Seq(FrameByte) /\ remaining \in Seq(FrameByte) /\ delivered \in Seq(Seq(FrameByte))
      /\ got \in Seq(FrameByte) /\ left \in Nat
  BY DEF FrameTypes
<1>2. BulkSize \in Nat \ {0}
  BY FramingAssumption
<1>3. Len(delivered) \in Nat /\ Len(got) \in Nat /\ \A k \in 1 .. Len(delivered) : Len(delivered[k]) \in Nat
  BY <1>1
<1>4. \A k \in 1 .. Len(delivered) :
        /\ \A n \in 1 .. Len(delivered[k]) : delivered[k][n].no = (k - 1) * BulkSize + n
        /\ Full(k) \/ (k = Len(delivered) /\ senderAt = "gone" /\ stream = <<>> /\ got = <<>>)
  BY DEF BulkInv
<1>5. (\A k \in 1 .. Len(delivered) : Full(k)) =>
        /\ \A n \in 1 .. Len(got) : got[n].no = Len(delivered) * BulkSize + n
        /\ \A n \in 1 .. Len(Unread) : Unread[n].no = Len(delivered) * BulkSize + Len(got) + n
  BY DEF BulkInv
<1>6. readerAt = "bulk" => left + Len(got) = BulkSize
  BY DEF BulkInv
<1>7. /\ ended => senderAt = "gone" /\ stream = <<>>
      /\ readerAt = "accept" => got = <<>>
  BY DEF EndInv
<1>8. ASSUME delivered' = delivered, got' = got, Unread' = Unread,
             readerAt' = "bulk" => left' + Len(got') = BulkSize,
             senderAt = "run" \/ UNCHANGED <<senderAt, stream>>
      PROVE  BulkInv'
  <2>1. \A k \in 1 .. Len(delivered') :
          /\ \A n \in 1 .. Len(delivered'[k]) : delivered'[k][n].no = (k - 1) * BulkSize + n
          /\ Len(delivered'[k]) = BulkSize
             \/ (k = Len(delivered') /\ senderAt' = "gone" /\ stream' = <<>> /\ got' = <<>>)
    BY <1>4, <1>8 DEF Full
  <2>2. (\A k \in 1 .. Len(delivered') : Len(delivered'[k]) = BulkSize) =>
          /\ \A n \in 1 .. Len(got') : got'[n].no = Len(delivered') * BulkSize + n
          /\ \A n \in 1 .. Len(Unread') : Unread'[n].no = Len(delivered') * BulkSize + Len(got') + n
    BY <1>5, <1>8 DEF Full
  <2>. QED
    BY <1>8, <2>1, <2>2 DEF BulkInv, Full
<1>9. CASE Frame!ReadSome
  <2>1. PICK n \in 1 .. left :
          /\ n <= Len(Unread) /\ left' = left - n /\ Len(got') = Len(got) + n
          /\ \A k \in 1 .. Len(got) : got'[k] = got[k]
          /\ \A k \in 1 .. n : got'[Len(got) + k] = Unread[k]
          /\ Unread' = SubSeq(Unread, n + 1, Len(Unread))
    BY <1>9, ReadTakes
  <2>2. UNCHANGED <<readerAt, delivered>> /\ stream # <<>> /\ readerAt = "bulk"
    <3>1. PICK m \in 1 .. left : m <= Len(stream)
      BY <1>9 DEF Frame!ReadSome
    <3>2. stream # <<>>
      BY <1>1, <3>1, EmptySeq
    <3>. QED
      BY <1>1, <1>9, <3>2 DEF Frame!ReadSome, Frame!InReadn
  <2>3. \A k \in 1 .. Len(delivered) : Full(k)
    BY <1>4, <2>2
  <2>4. Unread \in Seq(FrameByte)
    BY <1>1, ConcatProperties DEF Unread
  <2>5. Len(Unread) \in Nat /\ n \in 1 .. Len(Unread)
    BY <2>1, <2>4
  <2>6. /\ Len(Unread') = Len(Unread) - n
        /\ \A k \in 1 .. Len(Unread) - n : Unread'[k] = Unread[n + k]
    BY <2>1, <2>4, <2>5, DropProperties
  <2>7. PICK base \in Nat : base = Len(delivered) * BulkSize
    BY <1>2, <1>3
  <2>8. /\ \A k \in 1 .. Len(got) : got[k].no = base + k
        /\ \A k \in 1 .. Len(Unread) : Unread[k].no = base + Len(got) + k
    BY <1>5, <2>3, <2>7
  <2>9. ASSUME NEW k \in 1 .. Len(got') PROVE got'[k].no = base + k
    <3>1. CASE k <= Len(got)
      <4>1. k \in 1 .. Len(got)
        BY <1>3, <3>1
      <4>2. got'[k] = got[k] /\ got[k].no = base + k
        BY <2>1, <2>8, <4>1
      <4>. QED
        BY <4>2
    <3>2. CASE ~(k <= Len(got))
      <4>1. k - Len(got) \in 1 .. n /\ k - Len(got) \in 1 .. Len(Unread)
        BY <1>3, <2>1, <2>5, <3>2
      <4>2. Len(got) + (k - Len(got)) = k /\ base + Len(got) + (k - Len(got)) = base + k
        <5>1. Len(got) \in Nat /\ k \in Int
          BY <1>3, <4>1
        <5>. QED
          BY <5>1
      <4>3. got'[Len(got) + (k - Len(got))] = Unread[k - Len(got)]
        BY <2>1, <4>1
      <4>4. Unread[k - Len(got)].no = base + Len(got) + (k - Len(got))
        BY <2>8, <4>1
      <4>. QED
        BY <4>2, <4>3, <4>4
    <3>. QED
      BY <3>1, <3>2
  <2>10. ASSUME NEW k \in 1 .. Len(Unread') PROVE Unread'[k].no = base + Len(got') + k
    <3>1. k \in 1 .. Len(Unread) - n /\ n + k \in 1 .. Len(Unread)
      BY <2>5, <2>6
    <3>2. Unread'[k] = Unread[n + k] /\ Unread[n + k].no = base + Len(got) + (n + k)
      BY <2>6, <2>8, <3>1
    <3>3. base + Len(got) + (n + k) = base + Len(got') + k
      BY <1>3, <2>1
    <3>. QED
      BY <3>2, <3>3
  <2>11. readerAt' = "bulk" => left' + Len(got') = BulkSize
    BY <1>1, <1>3, <1>6, <2>1, <2>2
  <2>12. \A k \in 1 .. Len(delivered') :
           /\ \A j \in 1 .. Len(delivered'[k]) : delivered'[k][j].no = (k - 1) * BulkSize + j
           /\ Len(delivered'[k]) = BulkSize
    BY <1>4, <2>2, <2>3 DEF Full
  <2>. QED
    BY <2>2, <2>7, <2>9, <2>10, <2>11, <2>12 DEF BulkInv, Full
<1>10. CASE Frame!BulkRead
  <2>1. UNCHANGED <<senderAt, stream, remaining>> /\ (left = 0 \/ ended) /\ readerAt = "bulk"
    BY <1>10 DEF Frame!BulkRead, Frame!Returns, Frame!senderVars
  <2>2. Unread' = Unread
    BY <2>1 DEF Unread
  <2>3. CASE got = <<>>
    <3>1. readerAt' = "closed" /\ UNCHANGED <<got, delivered>>
      BY <1>10, <2>3 DEF Frame!BulkRead
    <3>. QED
      BY <1>8, <2>1, <2>2, <3>1
  <2>4. CASE got # <<>>
    <3>1. /\ delivered' = Append(delivered, got) /\ readerAt' = "bulk" /\ left' = BulkSize /\ got' = <<>>
      BY <1>10, <2>4 DEF Frame!BulkRead, Frame!Readn
    <3>2. \A k \in 1 .. Len(delivered) : Full(k)
      BY <1>4, <2>4
    <3>3. /\ Len(delivered') = Len(delivered) + 1
          /\ \A k \in 1 .. Len(delivered) : delivered'[k] = delivered[k]
          /\ delivered'[Len(delivered) + 1] = got
      BY <1>1, <3>1, AppendProperties
    <3>4. /\ \A n \in 1 .. Len(got) : got[n].no = Len(delivered) * BulkSize + n
          /\ \A n \in 1 .. Len(Unread) : Unread[n].no = Len(delivered) * BulkSize + Len(got) + n
      BY <1>5, <3>2
    <3>5. Len(got') = 0 /\ left' + Len(got') = BulkSize
      BY <1>2, <3>1, EmptySeq
    <3>6. ASSUME NEW k \in 1 .. Len(delivered')
          PROVE  /\ \A n \in 1 .. Len(delivered'[k]) : delivered'[k][n].no = (k - 1) * BulkSize + n
                 /\ Len(delivered'[k]) = BulkSize
                    \/ (k = Len(delivered') /\ senderAt' = "gone" /\ stream' = <<>> /\ got' = <<>>)
      <4>1. CASE k \in 1 .. Len(delivered)
        BY <1>4, <3>2, <3>3, <4>1 DEF Full
      <4>2. CASE k = Len(delivered) + 1
        <5>1. delivered'[k] = got /\ k - 1 = Len(delivered)
          BY <1>3, <3>3, <4>2
        <5>2. \A n \in 1 .. Len(delivered'[k]) : delivered'[k][n].no = (k - 1) * BulkSize + n
          BY <3>4, <5>1
        <5>3. Len(got) = BulkSize \/ (senderAt = "gone" /\ stream = <<>>)
          BY <1>3, <1>6, <1>7, <2>1
        <5>. QED
          BY <2>1, <3>1, <3>3, <4>2, <5>1, <5>2, <5>3
      <4>. QED
        BY <1>3, <3>3, <4>1, <4>2
    <3>7. ASSUME \A k \in 1 .. Len(delivered') : Len(delivered'[k]) = BulkSize
          PROVE  \A n \in 1 .. Len(Unread') : Unread'[n].no = Len(delivered') * BulkSize + Len(got') + n
      <4>1. Len(got) = BulkSize
        <5>1. Len(delivered) + 1 \in 1 .. Len(delivered')
          BY <1>3, <3>3
        <5>. QED
          BY <3>3, <3>7, <5>1
      <4>2. Len(delivered) * BulkSize + Len(got) = Len(delivered') * BulkSize + Len(got')
        <5>1. (Len(delivered) + 1) * BulkSize = Len(delivered) * BulkSize + BulkSize
          BY <1>2, <1>3
        <5>2. Len(delivered) * BulkSize \in Nat
          BY <1>2, <1>3
        <5>. QED
          BY <1>2, <3>3, <3>5, <4>1, <5>1, <5>2
      <4>. QED
        BY <2>2, <3>4, <4>2
    <3>8. \A n \in 1 .. Len(got') : got'[n].no = Len(delivered') * BulkSize + n
      BY <3>5
    <3>. QED
      BY <3>5, <3>6, <3>7, <3>8 DEF BulkInv, Full
  <2>. QED
    BY <2>3, <2>4
<1>11. CASE Frame!Accept
  <2>1. UNCHANGED <<senderAt, stream, remaining, delivered>> /\ readerAt = "accept"
    BY <1>11 DEF Frame!Accept, Frame!senderVars
  <2>2. \/ readerAt' = "bulk" /\ left' = BulkSize /\ got' = <<>>
        \/ readerAt' = "spins" /\ got' = got
    BY <1>11 DEF Frame!Accept, Frame!Readn
  <2>3. got' = got /\ (readerAt' = "bulk" => left' + Len(got') = BulkSize)
    BY <1>2, <1>7, <2>1, <2>2, EmptySeq
  <2>4. Unread' = Unread
    BY <2>1 DEF Unread
  <2>. QED
    BY <1>8, <2>1, <2>3, <2>4
<1>12. CASE Frame!Send
  <2>1. UNCHANGED <<left, delivered, got, readerAt>> /\ senderAt = "run"
    BY <1>12 DEF Frame!Send, Frame!readVars
  <2>2. Unread' = Unread
    BY <1>12, SendKeeps DEF Unread
  <2>. QED
    BY <1>6, <1>8, <2>1, <2>2
<1>13. CASE Frame!ReadNothing \/ Frame!Leave \/ UNCHANGED frameVars
  <2>1. UNCHANGED <<left, delivered, got, readerAt, stream, remaining>> /\ (senderAt = "run" \/ senderAt' = senderAt)
    BY <1>13 DEF Frame!ReadNothing, Frame!Leave, Frame!senderVars, Frame!readVars, frameVars
  <2>2. Unread' = Unread
    BY <2>1 DEF Unread
  <2>. QED
    BY <1>6, <1>8, <2>1, <2>2
<1>14. CASE \/ Frame!LengthRead \/ Frame!TypeRead \/ Frame!BodyRead \/ Frame!CutOff \/ Frame!Typed
            \/ Frame!ReadRaw \/ Frame!KillReader
  BY <1>1, <1>14 DEF Frame!LengthRead, Frame!TypeRead, Frame!BodyRead, Frame!CutOff, Frame!Typed,
                     Frame!ReadRaw, Frame!KillReader
<1>. QED
  BY <1>9, <1>10, <1>11, <1>12, <1>13, <1>14 DEF Frame!Next, Frame!Reader

\* What the reader of chapter16 has of the part it reads.
LEMMA ReadingPart ==
  ASSUME FrameTypes, course = 16, MessageInv, readerAt \in {"length", "type", "body"}
  PROVE  /\ Current \in Nat \ {0} /\ ReadPart \in Frame!Parts /\ PartSize \in Nat \ {0}
         /\ left + Len(got) = PartSize
         /\ SizeOf(Current, ReadPart, typedIn) = PartSize
         /\ left = 0 => got = Frame!Piece(Current, ReadPart, PartSize) /\ got # <<>> /\ Current \in 1 .. Len(typedIn)
<1>1. /\ typedIn \in Seq(Lengths) /\ got \in Seq(FrameByte) /\ left \in Nat
      /\ delivered \in Seq(Seq(FrameByte))
  BY DEF FrameTypes
<1>2. /\ \A n \in 1 .. Len(got) : got[n] = TheByte(Current, ReadPart, n)
      /\ left + Len(got) = PartSize
      /\ got # <<>> => Current <= Len(typedIn)
      /\ readerAt \in {"type", "body"} => Current <= Len(typedIn) /\ message_length = typedIn[Current]
  BY DEF MessageInv
<1>3. Current \in Nat \ {0} /\ Len(typedIn) \in Nat /\ Len(got) \in Nat
  BY <1>1 DEF Current
<1>4. ReadPart \in Frame!Parts
  BY DEF ReadPart, Frame!Parts
<1>5. PartSize \in Nat \ {0} /\ SizeOf(Current, ReadPart, typedIn) = PartSize
  <2>1. CASE readerAt = "body"
    <3>1. message_length = typedIn[Current] /\ Current \in 1 .. Len(typedIn)
      BY <1>2, <1>3, <2>1
    <3>2. typedIn[Current] \in Lengths
      BY <1>1, <3>1
    <3>3. message_length \in Nat \ {0}
      <4>1. Lengths \subseteq 1 .. BufferSize
        BY FramingAssumption
      <4>2. message_length \in 1 .. BufferSize
        BY <3>1, <3>2, <4>1
      <4>. QED
        BY <4>2
    <3>. QED
      BY <2>1, <3>1, <3>3 DEF PartSize, ReadPart, SizeOf
  <2>2. CASE readerAt \in {"length", "type"}
    BY <2>2, FramingAssumption DEF PartSize, ReadPart, SizeOf
  <2>. QED
    BY <2>1, <2>2
<1>6. ASSUME left = 0
      PROVE  got = Frame!Piece(Current, ReadPart, PartSize) /\ got # <<>> /\ Current \in 1 .. Len(typedIn)
  <2>1. Len(got) = PartSize /\ got # <<>>
    BY <1>2, <1>3, <1>5, <1>6, EmptySeq
  <2>2. \A n \in 1 .. PartSize : got[n] = TheByte(Current, ReadPart, n)
    BY <1>2, <2>1
  <2>3. got = Frame!Piece(Current, ReadPart, PartSize)
    BY <1>1, <1>3, <1>4, <1>5, <2>1, <2>2, IsPiece
  <2>4. Current \in 1 .. Len(typedIn)
    BY <1>2, <1>3, <2>1
  <2>. QED
    BY <2>1, <2>3, <2>4
<1>. QED
  BY <1>2, <1>3, <1>4, <1>5, <1>6

LEMMA MessageRead ==
  ASSUME FrameTypes, course = 16, MessageInv, Frame!ReadSome
  PROVE  MessageInv'
<1>1. UNCHANGED <<typedIn, readerAt, delivered, message_length>> /\ readerAt \in {"length", "type", "body"}
  BY DEF Frame!ReadSome, Frame!InReadn, Frame!senderVars, FrameTypes
<1>2. /\ typedIn \in Seq(Lengths) /\ got \in Seq(FrameByte) /\ left \in Nat
      /\ stream \in Seq(FrameByte) /\ remaining \in Seq(FrameByte)
  BY DEF FrameTypes
<1>3. /\ Current \in Nat \ {0} /\ ReadPart \in Frame!Parts /\ PartSize \in Nat \ {0}
      /\ left + Len(got) = PartSize
      /\ SizeOf(Current, ReadPart, typedIn) = PartSize
  BY <1>1, ReadingPart
<1>4. PICK n \in 1 .. left :
        /\ n <= Len(Unread) /\ left' = left - n /\ Len(got') = Len(got) + n
        /\ \A k \in 1 .. Len(got) : got'[k] = got[k]
        /\ \A k \in 1 .. n : got'[Len(got) + k] = Unread[k]
        /\ Unread' = SubSeq(Unread, n + 1, Len(Unread))
  BY ReadTakes
<1>5. Current' = Current /\ ReadPart' = ReadPart /\ PartSize' = PartSize
  BY <1>1 DEF Current, ReadPart, PartSize
<1>6. PICK z : z = TheByte(Len(typedIn) + 1, "length", 1)
  OBVIOUS
<1>7. /\ \A k \in 1 .. Len(got) : got[k] = TheByte(Current, ReadPart, k)
      /\ \A k \in 1 .. Len(Unread) : Unread[k].of \in 1 .. Len(typedIn)
      /\ Chained(Unread, Upcoming, z, typedIn)
  BY <1>1, <1>6 DEF MessageInv
<1>8. Unread \in Seq(FrameByte)
  BY <1>2, ConcatProperties DEF Unread
<1>9. Len(Unread) \in Nat /\ Len(got) \in Nat /\ n \in 1 .. Len(Unread) /\ n \in 0 .. Len(Unread)
  BY <1>2, <1>4, <1>8
<1>19. left' = left - n /\ Len(got') = Len(got) + n /\ n \in Nat \ {0} /\ n <= left
  BY <1>2, <1>4
<1>20. left' \in Nat /\ left' + Len(got') = PartSize /\ (left' = 0 => Len(got) + n = PartSize)
  <2>1. left \in Nat /\ Len(got) \in Nat /\ left + Len(got) = PartSize
    BY <1>2, <1>3, <1>9
  <2>2. left - n \in Nat /\ (left - n) + (Len(got) + n) = PartSize
    BY <1>19, <2>1
  <2>3. left - n = 0 => Len(got) + n = PartSize
    BY <1>19, <2>1
  <2>. QED
    BY <1>19, <2>2, <2>3
<1>10. Upcoming = TheByte(Current, ReadPart, Len(got) + 1)
  <2>1. left # 0
    BY <1>4
  <2>. QED
    BY <1>1, <2>1 DEF Upcoming
<1>11. \A k \in 1 .. n : Unread[k] = TheByte(Current, ReadPart, Len(got) + k)
  <2>1. PICK a \in Nat : a = Len(got) + 1
    BY <1>9
  <2>2. a - 1 + n <= SizeOf(Current, ReadPart, typedIn) /\ SizeOf(Current, ReadPart, typedIn) \in Nat
    BY <1>2, <1>3, <1>4, <1>9, <2>1
  <2>3. Chained(Unread, TheByte(Current, ReadPart, a), z, typedIn)
    BY <1>7, <1>10, <2>1
  <2>4. \A k \in 1 .. n : Unread[k] = TheByte(Current, ReadPart, a + k - 1)
    BY <1>3, <1>8, <1>9, <2>2, <2>3, ChainRun
  <2>5. \A k \in 1 .. n : a + k - 1 = Len(got) + k
    BY <1>9, <2>1
  <2>. QED
    BY <2>4, <2>5
<1>12. \A k \in 1 .. Len(got') : got'[k] = TheByte(Current', ReadPart', k)
  <2>. SUFFICES ASSUME NEW k \in 1 .. Len(got') PROVE got'[k] = TheByte(Current, ReadPart, k)
    BY <1>5
  <2>1. CASE k \in 1 .. Len(got)
    BY <1>4, <1>7, <2>1
  <2>2. CASE k \notin 1 .. Len(got)
    <3>1. k - Len(got) \in 1 .. n /\ Len(got) + (k - Len(got)) = k
      BY <1>4, <1>9, <2>2
    <3>2. got'[Len(got) + (k - Len(got))] = Unread[k - Len(got)]
      BY <1>4, <3>1
    <3>3. Unread[k - Len(got)] = TheByte(Current, ReadPart, Len(got) + (k - Len(got)))
      BY <1>11, <3>1
    <3>. QED
      BY <3>1, <3>2, <3>3
  <2>. QED
    BY <2>1, <2>2
<1>13. left' + Len(got') = PartSize' /\ left' \in Nat
  BY <1>5, <1>20
<1>14. Current' <= Len(typedIn')
  <2>1. 1 \in 1 .. n /\ 1 \in 1 .. Len(Unread)
    BY <1>9, <1>19
  <2>2. Unread[1] = TheByte(Current, ReadPart, Len(got) + 1)
    BY <1>11, <2>1
  <2>3. Unread[1].of = Current
    BY <2>2 DEF TheByte
  <2>4. Current \in 1 .. Len(typedIn)
    BY <1>7, <2>1, <2>3
  <2>. QED
    BY <1>1, <1>5, <2>4
<1>15. \A k \in 1 .. Len(Unread') : Unread'[k].of \in 1 .. Len(typedIn')
  <2>1. /\ Len(Unread') = Len(Unread) - n
        /\ \A k \in 1 .. Len(Unread) - n : Unread'[k] = Unread[n + k]
    BY <1>4, <1>8, <1>9, DropProperties
  <2>2. \A k \in 1 .. Len(Unread) - n : n + k \in 1 .. Len(Unread)
    BY <1>9
  <2>. QED
    BY <1>1, <1>7, <2>1, <2>2
<1>16. Chained(Unread', Upcoming', TheByte(Len(typedIn') + 1, "length", 1), typedIn')
  <2>1. Chained(Unread', NextByte(Unread[n], typedIn), z, typedIn)
    <3>1. Chained(SubSeq(Unread, n + 1, Len(Unread)), NextByte(Unread[n], typedIn), z, typedIn)
      BY <1>7, <1>8, <1>9, ChainDrop
    <3>. QED
      BY <1>4, <3>1
  <2>2. Unread[n] = TheByte(Current, ReadPart, Len(got) + n)
    BY <1>9, <1>11
  <2>3. Upcoming' = NextByte(TheByte(Current, ReadPart, Len(got) + n), typedIn)
    <3>1. CASE left' = 0
      <4>1. Len(got) + n = PartSize
        BY <1>20, <3>1
      <4>2. Upcoming' = NextByte(TheByte(Current', ReadPart', PartSize'), typedIn')
        BY <1>1, <3>1 DEF Upcoming
      <4>. QED
        BY <1>1, <1>5, <4>1, <4>2
    <3>2. CASE left' # 0
      <4>1. Len(got) + n < SizeOf(Current, ReadPart, typedIn)
        BY <1>3, <1>9, <1>19, <1>20, <3>2
      <4>2. NextByte(TheByte(Current, ReadPart, Len(got) + n), typedIn)
            = TheByte(Current, ReadPart, Len(got) + n + 1)
        BY <4>1 DEF NextByte, TheByte, SizeOf
      <4>3. Upcoming' = TheByte(Current', ReadPart', Len(got') + 1)
        BY <1>1, <3>2 DEF Upcoming
      <4>. QED
        BY <1>4, <1>5, <4>2, <4>3
    <3>. QED
      BY <3>1, <3>2
  <2>. QED
    BY <1>1, <1>6, <2>1, <2>2, <2>3
<1>17. \A k \in 1 .. Len(delivered') : k <= Len(typedIn') /\ delivered'[k] = Frame!Piece(k, "data", typedIn'[k])
  BY <1>1 DEF MessageInv
<1>18. readerAt' \in {"type", "body"} => message_length' = typedIn'[Current']
  BY <1>1, <1>5 DEF MessageInv
<1>. QED
  BY <1>12, <1>13, <1>14, <1>15, <1>16, <1>17, <1>18 DEF MessageInv, Frame!Piece

LEMMA AfterField ==
  ASSUME NEW m, NEW s
  PROVE  /\ NextByte(TheByte(m, "length", FieldSize), s) = TheByte(m, "type", 1)
         /\ NextByte(TheByte(m, "type", FieldSize), s) = TheByte(m, "data", 1)
BY FramingAssumption DEF NextByte, TheByte

LEMMA BothOf ==
  ASSUME NEW u \in Seq(FrameByte), NEW v \in Seq(FrameByte), NEW M,
         \A k \in 1 .. Len(u) : u[k].of \in M, \A k \in 1 .. Len(v) : v[k].of \in M
  PROVE  \A k \in 1 .. Len(u \o v) : (u \o v)[k].of \in M
<1>1. /\ Len(u \o v) = Len(u) + Len(v) /\ Len(u) \in Nat /\ Len(v) \in Nat
      /\ \A k \in 1 .. Len(u) + Len(v) : (u \o v)[k] = IF k <= Len(u) THEN u[k] ELSE v[k - Len(u)]
  BY ConcatProperties
<1>. SUFFICES ASSUME NEW k \in 1 .. Len(u) + Len(v) PROVE (u \o v)[k].of \in M
  BY <1>1
<1>2. CASE k <= Len(u)
  <2>1. k \in 1 .. Len(u) /\ (u \o v)[k] = u[k]
    BY <1>1, <1>2
  <2>. QED
    BY <2>1
<1>3. CASE ~(k <= Len(u))
  <2>1. k - Len(u) \in 1 .. Len(v) /\ (u \o v)[k] = v[k - Len(u)]
    BY <1>1, <1>3
  <2>. QED
    BY <2>1
<1>. QED
  BY <1>2, <1>3

\* The next part of a message is read: nothing is got of it, and the bytes unread stay.
LEMMA NextPart ==
  ASSUME FrameTypes, course = 16, MessageInv, readerAt # "closed",
         UNCHANGED <<typedIn, stream, remaining>>, got' = <<>>, left' \in Nat \ {0},
         readerAt' \in {"length", "type", "body"}, left' = PartSize',
         Upcoming = TheByte(Current', ReadPart', 1),
         readerAt' \in {"type", "body"} => Current' <= Len(typedIn) /\ message_length' = typedIn[Current'],
         \A k \in 1 .. Len(delivered') : k <= Len(typedIn) /\ delivered'[k] = Frame!Piece(k, "data", typedIn[k])
  PROVE  MessageInv'
<1>1. /\ \A k \in 1 .. Len(Unread) : Unread[k].of \in 1 .. Len(typedIn)
      /\ Chained(Unread, Upcoming, TheByte(Len(typedIn) + 1, "length", 1), typedIn)
  BY DEF MessageInv
<1>2. Unread' = Unread
  BY DEF Unread
<1>3. Len(got') = 0 /\ Len(got') + 1 = 1
  BY ONLY Len(<<>>) = 0, got' = <<>>
<1>10. left' + Len(got') = PartSize'
  <2>1. \A n \in Nat : n + Len(got') = n
    BY ONLY <1>3
  <2>2. left' \in Nat
    OBVIOUS
  <2>3. left' + Len(got') = left'
    BY Zenon, <2>1, <2>2
  <2>. QED
    BY Zenon, <2>3
<1>4. Upcoming' = Upcoming
  BY <1>3 DEF Upcoming
<1>5. Chained(Unread', Upcoming', TheByte(Len(typedIn') + 1, "length", 1), typedIn')
  BY <1>1, <1>2, <1>4
<1>6. \A k \in 1 .. Len(Unread') : Unread'[k].of \in 1 .. Len(typedIn')
  BY <1>1, <1>2
<1>7. \A k \in 1 .. Len(got') : got'[k] = TheByte(Current', ReadPart', k)
  BY <1>3
<1>8. \A k \in 1 .. Len(delivered') : k <= Len(typedIn') /\ delivered'[k] = Frame!Piece(k, "data", typedIn'[k])
  OBVIOUS
<1>9. readerAt' \in {"type", "body"} => Current' <= Len(typedIn') /\ message_length' = typedIn'[Current']
  OBVIOUS
<1>. QED
  BY <1>10, <1>5, <1>6, <1>7, <1>8, <1>9 DEF MessageInv, Frame!Piece

LEMMA MessageDecode ==
  ASSUME FrameTypes, course = 16, MessageInv,
         Frame!LengthRead \/ Frame!TypeRead \/ Frame!BodyRead
  PROVE  MessageInv'
<1>1. /\ UNCHANGED <<typedIn, stream, remaining>> /\ readerAt \in {"length", "type", "body"} /\ left = 0
  BY DEF Frame!LengthRead, Frame!TypeRead, Frame!BodyRead, Frame!senderVars
<1>2. /\ Current \in Nat \ {0} /\ ReadPart \in Frame!Parts /\ PartSize \in Nat \ {0}
      /\ SizeOf(Current, ReadPart, typedIn) = PartSize
      /\ got = Frame!Piece(Current, ReadPart, PartSize) /\ got # <<>> /\ Current \in 1 .. Len(typedIn)
  BY <1>1, ReadingPart
<1>3. Upcoming = NextByte(TheByte(Current, ReadPart, PartSize), typedIn)
  BY <1>1 DEF Upcoming
<1>4. FieldSize \in Nat \ {0} /\ Lengths \subseteq 1 .. BufferSize /\ BufferSize \in Nat
  BY FramingAssumption
<1>5. typedIn \in Seq(Lengths) /\ typedIn[Current] \in Lengths
  BY <1>2 DEF FrameTypes
<1>6. \A k \in 1 .. Len(delivered) : k <= Len(typedIn) /\ delivered[k] = Frame!Piece(k, "data", typedIn[k])
  BY DEF MessageInv
<1>7. CASE Frame!LengthRead
  <2>1. /\ readerAt = "length" /\ message_length' \in Frame!Decoded(got) /\ UNCHANGED delivered
        /\ readerAt' = "type" /\ left' = FieldSize /\ got' = <<>>
    BY <1>7 DEF Frame!LengthRead, Frame!Readn
  <2>2. Current' = Current /\ ReadPart = "length" /\ ReadPart' = "type" /\ PartSize = FieldSize /\ PartSize' = FieldSize
    BY <2>1 DEF Current, ReadPart, PartSize
  <2>3. message_length' = typedIn[Current]
    <3>1. Frame!Decoded(got) = {typedIn[got[1].of]}
      BY <1>2, <2>2 DEF Frame!Decoded
    <3>2. got[1].of = Current
      BY <1>2, <1>4, <2>2 DEF Frame!Piece
    <3>. QED
      BY <2>1, <3>1, <3>2
  <2>4. Upcoming = TheByte(Current', ReadPart', 1)
    BY <1>3, <2>2, AfterField
  <2>5. /\ left' \in Nat \ {0} /\ left' = PartSize' /\ readerAt' \in {"length", "type", "body"}
        /\ Current' <= Len(typedIn) /\ message_length' = typedIn[Current'] /\ readerAt # "closed"
    BY <1>1, <1>2, <1>4, <2>1, <2>2, <2>3
  <2>. QED
    BY <1>1, <1>6, <2>1, <2>4, <2>5, NextPart
<1>8. CASE Frame!TypeRead
  <2>1. /\ readerAt = "type" /\ UNCHANGED <<delivered, message_length>>
        /\ ~(BufferSize < message_length) => readerAt' = "body" /\ left' = message_length /\ got' = <<>>
    BY <1>8 DEF Frame!TypeRead, Frame!Readn
  <2>2. message_length = typedIn[Current]
    BY <2>1 DEF MessageInv
  <2>3. message_length \in Nat \ {0} /\ ~(BufferSize < message_length)
    <3>1. message_length \in 1 .. BufferSize
      BY <1>4, <1>5, <2>2
    <3>. QED
      BY <1>4, <3>1
  <2>4. readerAt' = "body" /\ left' = message_length /\ got' = <<>>
    BY <2>1, <2>3
  <2>5. Current' = Current /\ ReadPart = "type" /\ ReadPart' = "data" /\ PartSize = FieldSize /\ PartSize' = message_length
    BY <2>1, <2>4 DEF Current, ReadPart, PartSize
  <2>6. Upcoming = TheByte(Current', ReadPart', 1)
    BY <1>3, <2>5, AfterField
  <2>7. /\ left' \in Nat \ {0} /\ left' = PartSize' /\ readerAt' \in {"length", "type", "body"}
        /\ Current' <= Len(typedIn) /\ message_length' = typedIn[Current'] /\ readerAt # "closed"
    BY <1>1, <1>2, <2>1, <2>2, <2>3, <2>4, <2>5
  <2>. QED
    BY <1>1, <1>6, <2>1, <2>4, <2>6, <2>7, NextPart
<1>9. CASE Frame!BodyRead
  <2>1. /\ readerAt = "body" /\ UNCHANGED message_length
        /\ readerAt' = "length" /\ left' = FieldSize /\ got' = <<>> /\ delivered' = Append(delivered, got)
    BY <1>2, <1>9 DEF Frame!BodyRead, Frame!Readn
  <2>2. /\ Len(delivered') = Len(delivered) + 1 /\ Len(delivered) \in Nat
        /\ \A k \in 1 .. Len(delivered) : delivered'[k] = delivered[k]
        /\ delivered'[Len(delivered) + 1] = got
    <3>1. delivered \in Seq(Seq(FrameByte)) /\ got \in Seq(FrameByte)
      BY DEF FrameTypes
    <3>. QED
      BY <2>1, <3>1, AppendProperties
  <2>3. Current' = Current + 1 /\ Current = Len(delivered) + 1
    BY <2>2 DEF Current
  <2>4. ReadPart = "data" /\ ReadPart' = "length" /\ PartSize = message_length /\ PartSize' = FieldSize
    BY <2>1 DEF ReadPart, PartSize
  <2>5. message_length = typedIn[Current]
    BY <2>1 DEF MessageInv
  <2>6. Upcoming = TheByte(Current', ReadPart', 1)
    BY <1>3, <1>5, <2>3, <2>4, <2>5, <1>2 DEF NextByte, TheByte
  <2>7. ASSUME NEW k \in 1 .. Len(delivered')
        PROVE  k <= Len(typedIn) /\ delivered'[k] = Frame!Piece(k, "data", typedIn[k])
    <3>1. CASE k \in 1 .. Len(delivered)
      BY <1>6, <2>2, <3>1
    <3>2. CASE k \notin 1 .. Len(delivered)
      <4>1. k = Current /\ k = Len(delivered) + 1
        BY <2>2, <2>3, <3>2
      <4>. QED
        BY <1>2, <2>2, <2>4, <2>5, <4>1
    <3>. QED
      BY <3>1, <3>2
  <2>8. /\ left' \in Nat \ {0} /\ left' = PartSize' /\ readerAt' \in {"length", "type", "body"}
        /\ readerAt' \notin {"type", "body"} /\ readerAt # "closed"
    BY <1>1, <1>4, <2>1, <2>4
  <2>. QED
    BY <1>1, <2>1, <2>6, <2>7, <2>8, NextPart
<1>. QED
  BY <1>7, <1>8, <1>9

LEMMA MessageTyped ==
  ASSUME FrameTypes, course = 16, MessageInv, Frame!Typed, EndInv
  PROVE  MessageInv'
<1>1. /\ UNCHANGED <<stream, readerAt, left, got, message_length, delivered>> /\ remaining = <<>>
  BY DEF Frame!Typed, Frame!readVars
<1>2. PICK length \in Lengths :
        typedIn' = Append(typedIn, length) /\ remaining' = Frame!Message(Len(typedIn'), length)
  BY DEF Frame!Typed
<1>3. /\ typedIn \in Seq(Lengths) /\ got \in Seq(FrameByte) /\ left \in Nat /\ stream \in Seq(FrameByte)
      /\ remaining \in Seq(FrameByte) /\ delivered \in Seq(Seq(FrameByte))
      /\ readerAt \in {"accept", "length", "type", "body", "closed"}
  BY DEF FrameTypes
<1>4. PICK m \in Nat \ {0} : m = Len(typedIn) + 1
  BY <1>3
<1>5. /\ typedIn' \in Seq(Lengths) /\ Len(typedIn') = m /\ Len(typedIn) \in Nat /\ typedIn'[m] = length
      /\ \A k \in 1 .. Len(typedIn) : typedIn'[k] = typedIn[k]
  BY <1>2, <1>3, <1>4, AppendProperties
<1>6. \A k \in 1 .. Len(delivered') : k <= Len(typedIn') /\ delivered'[k] = Frame!Piece(k, "data", typedIn'[k])
  <2>. SUFFICES ASSUME NEW k \in 1 .. Len(delivered)
                PROVE  k <= Len(typedIn') /\ delivered[k] = Frame!Piece(k, "data", typedIn'[k])
    BY <1>1
  <2>1. k <= Len(typedIn) /\ delivered[k] = Frame!Piece(k, "data", typedIn[k])
    BY DEF MessageInv
  <2>2. k \in 1 .. Len(typedIn)
    BY <1>5, <2>1
  <2>. QED
    BY <1>4, <1>5, <2>1, <2>2
<1>7. CASE readerAt = "closed"
  BY <1>1, <1>6, <1>7 DEF MessageInv, Frame!Piece
<1>8. CASE readerAt # "closed"
  <2>1. /\ \A n \in 1 .. Len(got) : got[n] = TheByte(Current, ReadPart, n)
        /\ readerAt # "accept" => left + Len(got) = PartSize
        /\ got # <<>> => Current <= Len(typedIn)
        /\ readerAt \in {"type", "body"} => Current <= Len(typedIn) /\ message_length = typedIn[Current]
        /\ \A k \in 1 .. Len(Unread) : Unread[k].of \in 1 .. Len(typedIn)
        /\ Chained(Unread, Upcoming, TheByte(Len(typedIn) + 1, "length", 1), typedIn)
    BY <1>8 DEF MessageInv
  <2>2. Current' = Current /\ ReadPart' = ReadPart /\ PartSize' = PartSize /\ Current \in Nat \ {0}
    BY <1>1, <1>3 DEF Current, ReadPart, PartSize
  <2>3. Unread = stream /\ Unread \in Seq(FrameByte)
    BY <1>1, <1>3, ConcatEmptySeq DEF Unread
  <2>4. PICK message : message = Frame!Message(m, length)
    OBVIOUS
  <2>5. Unread' = stream \o message
    BY <1>1, <1>2, <1>5, <2>4 DEF Unread
  <2>6. message \in Seq(FrameByte)
    BY <2>4, MessageType
  <2>7. Chained(stream, Upcoming, TheByte(m, "length", 1), typedIn')
    <3>1. ASSUME NEW k \in 1 .. Len(stream) PROVE NextByte(stream[k], typedIn') = NextByte(stream[k], typedIn)
      <4>1. stream[k] \in FrameByte /\ stream[k].of \in 1 .. Len(typedIn)
        BY <1>3, <2>1, <2>3
      <4>. QED
        BY <1>2, <1>3, <4>1, NextSame
    <3>2. Len(stream) \in Nat /\ (stream # <<>> => Len(stream) \in 1 .. Len(stream))
      BY <1>3, EmptySeq
    <3>3. Chained(stream, Upcoming, TheByte(m, "length", 1), typedIn)
      BY <1>4, <2>1, <2>3
    <3>. QED
      BY <3>1, <3>2, <3>3 DEF Chained
  <2>8. Upcoming' = Upcoming
    <3>1. CASE readerAt = "accept" \/ left # 0
      BY <1>1, <2>2, <3>1 DEF Upcoming
    <3>2. CASE readerAt # "accept" /\ left = 0
      <4>1. readerAt \in {"length", "type", "body"}
        BY <1>3, <1>8, <3>2
      <4>2. Current \in 1 .. Len(typedIn) /\ ReadPart \in Frame!Parts /\ PartSize \in Nat \ {0}
        BY <3>2, <4>1, ReadingPart
      <4>3. TheByte(Current, ReadPart, PartSize) \in FrameByte
            /\ TheByte(Current, ReadPart, PartSize).of \in 1 .. Len(typedIn)
        BY <2>2, <4>2 DEF TheByte, FrameByte
      <4>4. NextByte(TheByte(Current, ReadPart, PartSize), typedIn')
            = NextByte(TheByte(Current, ReadPart, PartSize), typedIn)
        BY <1>2, <1>3, <4>3, NextSame
      <4>. QED
        BY <1>1, <2>2, <3>2, <4>4 DEF Upcoming
    <3>. QED
      BY <3>1, <3>2
  <2>9. /\ Chained(message, TheByte(m, "length", 1), TheByte(m + 1, "length", 1), typedIn')
        /\ \A k \in 1 .. Len(message) : message[k].of = m
    <3>1. /\ FieldSize \in Nat \ {0} /\ length \in Nat \ {0} /\ m \in Nat
          /\ "length" \in Frame!Parts /\ "type" \in Frame!Parts /\ "data" \in Frame!Parts
      <4>1. length \in 1 .. BufferSize
        BY FramingAssumption
      <4>. QED
        BY <4>1, FramingAssumption DEF Frame!Parts
    <3>2. PICK p : p = Frame!Piece(m, "length", FieldSize)
      OBVIOUS
    <3>3. PICK q : q = Frame!Piece(m, "type", FieldSize)
      OBVIOUS
    <3>4. PICK r : r = Frame!Piece(m, "data", length)
      OBVIOUS
    <3>5. /\ p \in Seq(FrameByte) /\ Len(p) = FieldSize
          /\ \A n \in 1 .. FieldSize : p[n] = TheByte(m, "length", n)
      BY <3>1, <3>2, PieceProperties
    <3>6. /\ q \in Seq(FrameByte) /\ Len(q) = FieldSize
          /\ \A n \in 1 .. FieldSize : q[n] = TheByte(m, "type", n)
      BY <3>1, <3>3, PieceProperties
    <3>7. /\ r \in Seq(FrameByte) /\ Len(r) = length
          /\ \A n \in 1 .. length : r[n] = TheByte(m, "data", n)
      BY <3>1, <3>4, PieceProperties
    <3>8. Chained(p, TheByte(m, "length", 1), TheByte(m, "type", 1), typedIn')
      <4>1. SizeOf(m, "length", typedIn') = FieldSize
        BY DEF SizeOf
      <4>2. NextByte(TheByte(m, "length", FieldSize), typedIn') = TheByte(m, "type", 1)
        BY AfterField
      <4>3. Chained(Frame!Piece(m, "length", FieldSize), TheByte(m, "length", 1),
                    NextByte(TheByte(m, "length", FieldSize), typedIn'), typedIn')
        BY <3>1, <4>1, ChainPiece
      <4>. QED
        BY <3>2, <4>2, <4>3
    <3>9. Chained(q, TheByte(m, "type", 1), TheByte(m, "data", 1), typedIn')
      <4>1. SizeOf(m, "type", typedIn') = FieldSize
        BY DEF SizeOf
      <4>2. NextByte(TheByte(m, "type", FieldSize), typedIn') = TheByte(m, "data", 1)
        BY AfterField
      <4>3. Chained(Frame!Piece(m, "type", FieldSize), TheByte(m, "type", 1),
                    NextByte(TheByte(m, "type", FieldSize), typedIn'), typedIn')
        BY <3>1, <4>1, ChainPiece
      <4>. QED
        BY <3>3, <4>2, <4>3
    <3>10. Chained(r, TheByte(m, "data", 1), TheByte(m + 1, "length", 1), typedIn')
      <4>1. SizeOf(m, "data", typedIn') = length
        BY <1>5 DEF SizeOf
      <4>2. NextByte(TheByte(m, "data", length), typedIn') = TheByte(m + 1, "length", 1)
        BY <1>5, <3>1 DEF NextByte, TheByte
      <4>3. Chained(Frame!Piece(m, "data", length), TheByte(m, "data", 1),
                    NextByte(TheByte(m, "data", length), typedIn'), typedIn')
        BY <3>1, <4>1, ChainPiece
      <4>. QED
        BY <3>4, <4>2, <4>3
    <3>11. p \o q \in Seq(FrameByte) /\ Chained(p \o q, TheByte(m, "length", 1), TheByte(m, "data", 1), typedIn')
      BY <3>5, <3>6, <3>8, <3>9, ChainConcat, ConcatProperties
    <3>12. PICK pq : pq = p \o q
      OBVIOUS
    <3>13. message = pq \o r
      BY <2>4, <3>2, <3>3, <3>4, <3>12 DEF Frame!Message
    <3>14. Chained(pq \o r, TheByte(m, "length", 1), TheByte(m + 1, "length", 1), typedIn')
      BY <3>7, <3>10, <3>11, <3>12, ChainConcat
    <3>15. /\ \A k \in 1 .. Len(p) : p[k].of \in {m}
           /\ \A k \in 1 .. Len(q) : q[k].of \in {m}
           /\ \A k \in 1 .. Len(r) : r[k].of \in {m}
      BY <3>5, <3>6, <3>7 DEF TheByte
    <3>16. PICK M : M = {m}
      OBVIOUS
    <3>17. \A k \in 1 .. Len(pq) : pq[k].of \in M
      BY <3>5, <3>6, <3>12, <3>15, <3>16, BothOf
    <3>18. \A k \in 1 .. Len(message) : message[k].of \in M
      BY <3>7, <3>11, <3>12, <3>13, <3>15, <3>16, <3>17, BothOf
    <3>. QED
      BY <3>13, <3>14, <3>16, <3>18
  <2>10. Chained(Unread', Upcoming', TheByte(Len(typedIn') + 1, "length", 1), typedIn')
    <3>1. Chained(stream \o message, Upcoming, TheByte(m + 1, "length", 1), typedIn')
      BY <1>3, <2>6, <2>7, <2>9, ChainConcat
    <3>. QED
      BY <1>5, <2>5, <2>8, <3>1
  <2>11. \A k \in 1 .. Len(Unread') : Unread'[k].of \in 1 .. Len(typedIn')
    <3>1. PICK M : M = 1 .. Len(typedIn')
      OBVIOUS
    <3>2. \A k \in 1 .. Len(stream) : stream[k].of \in M
      BY <1>4, <1>5, <2>1, <2>3, <3>1
    <3>3. \A k \in 1 .. Len(message) : message[k].of \in M
      BY <1>4, <1>5, <2>9, <3>1
    <3>4. \A k \in 1 .. Len(stream \o message) : (stream \o message)[k].of \in M
      BY <1>3, <2>6, <3>2, <3>3, BothOf
    <3>. QED
      BY <2>5, <3>1, <3>4
  <2>12. /\ got # <<>> => Current <= Len(typedIn')
         /\ readerAt \in {"type", "body"} => Current <= Len(typedIn') /\ message_length = typedIn'[Current]
    BY <1>4, <1>5, <2>1, <2>2
  <2>. QED
    BY <1>1, <1>6, <1>8, <2>1, <2>2, <2>10, <2>11, <2>12 DEF MessageInv, Frame!Piece
<1>. QED
  BY <1>7, <1>8

LEMMA MessageStep ==
  FrameTypes /\ EndInv /\ course = 16 /\ MessageInv /\ [Frame!Next]_frameVars => MessageInv'
<1>. SUFFICES ASSUME FrameTypes, EndInv, course = 16, MessageInv, [Frame!Next]_frameVars
              PROVE  MessageInv'
  OBVIOUS
<1>1. readerAt \in {"accept", "length", "type", "body", "closed"}
  BY DEF FrameTypes
<1>2. \A k \in 1 .. Len(delivered) : k <= Len(typedIn) /\ delivered[k] = Frame!Piece(k, "data", typedIn[k])
  BY DEF MessageInv
<1>3. CASE Frame!ReadSome
  BY <1>3, MessageRead
<1>4. CASE Frame!LengthRead \/ Frame!TypeRead \/ Frame!BodyRead
  BY <1>4, MessageDecode
<1>5. CASE Frame!Typed
  BY <1>5, MessageTyped
<1>6. ASSUME UNCHANGED <<typedIn, delivered, got, left, readerAt, message_length>>, Unread' = Unread
      PROVE  MessageInv'
  <2>1. Current' = Current /\ ReadPart' = ReadPart /\ PartSize' = PartSize /\ Upcoming' = Upcoming
    BY <1>6 DEF Current, ReadPart, PartSize, Upcoming
  <2>2. CASE readerAt = "closed"
    BY <1>2, <1>6, <2>2 DEF MessageInv, Frame!Piece
  <2>3. CASE readerAt # "closed"
    <3>1. /\ \A n \in 1 .. Len(got) : got[n] = TheByte(Current, ReadPart, n)
          /\ readerAt # "accept" => left + Len(got) = PartSize
          /\ got # <<>> => Current <= Len(typedIn)
          /\ readerAt \in {"type", "body"} => Current <= Len(typedIn) /\ message_length = typedIn[Current]
          /\ \A k \in 1 .. Len(Unread) : Unread[k].of \in 1 .. Len(typedIn)
          /\ Chained(Unread, Upcoming, TheByte(Len(typedIn) + 1, "length", 1), typedIn)
      BY <2>3 DEF MessageInv
    <3>. QED
      BY <1>2, <1>6, <2>1, <3>1 DEF MessageInv, Frame!Piece
  <2>. QED
    BY <2>2, <2>3
<1>7. CASE Frame!Send
  <2>1. UNCHANGED <<typedIn, delivered, got, left, readerAt, message_length>>
    BY <1>7 DEF Frame!Send, Frame!readVars
  <2>2. Unread' = Unread
    BY <1>7, SendKeeps DEF Unread
  <2>. QED
    BY <1>6, <2>1, <2>2
<1>8. CASE Frame!ReadNothing \/ Frame!Leave \/ UNCHANGED frameVars
  <2>1. UNCHANGED <<typedIn, delivered, got, left, readerAt, message_length, stream, remaining>>
    BY <1>8 DEF Frame!ReadNothing, Frame!Leave, Frame!readVars, Frame!senderVars, frameVars
  <2>. QED
    BY <1>6, <2>1 DEF Unread
<1>9. CASE Frame!CutOff
  <2>1. UNCHANGED <<typedIn, delivered>> /\ readerAt' = "closed"
    BY <1>9 DEF Frame!CutOff, Frame!senderVars
  <2>. QED
    BY <1>2, <2>1 DEF MessageInv, Frame!Piece
<1>10. CASE Frame!Accept
  <2>1. /\ readerAt = "accept" /\ UNCHANGED <<typedIn, delivered, stream, remaining, message_length>>
        /\ readerAt' = "length" /\ left' = FieldSize /\ got' = <<>>
    BY <1>10 DEF Frame!Accept, Frame!Readn, Frame!senderVars
  <2>2. Current = 1 /\ Current' = 1 /\ ReadPart' = "length" /\ PartSize' = FieldSize
    BY <2>1, EmptySeq DEF Current, ReadPart, PartSize, EndInv
  <2>3. Upcoming = TheByte(1, "length", 1)
    BY <2>1 DEF Upcoming
  <2>4. left' \in Nat \ {0} /\ readerAt' \notin {"type", "body"} /\ readerAt # "closed"
    BY <2>1, FramingAssumption
  <2>5. \A k \in 1 .. Len(delivered') : k <= Len(typedIn) /\ delivered'[k] = Frame!Piece(k, "data", typedIn[k])
    BY <1>2, <2>1
  <2>. QED
    BY <2>1, <2>2, <2>3, <2>4, <2>5, NextPart
<1>11. CASE Frame!BulkRead \/ Frame!ReadRaw \/ Frame!KillReader
  BY <1>1, <1>11 DEF Frame!BulkRead, Frame!ReadRaw, Frame!KillReader
<1>. QED
  BY <1>3, <1>4, <1>5, <1>7, <1>8, <1>9, <1>10, <1>11 DEF Frame!Next, Frame!Reader

LEMMA FrameInit == Frame!Init => FrameInv
<1>. SUFFICES ASSUME Frame!Init PROVE FrameInv
  OBVIOUS
<1>1. /\ senderAt = "run" /\ typedIn = <<>> /\ stream = <<>>
      /\ remaining = IF course = 16 THEN <<>> ELSE Frame!Piece(1, "data", MessageSize)
      /\ readerAt = "accept" /\ left = 0 /\ ended = FALSE /\ got = <<>> /\ delivered = <<>>
  BY DEF Frame!Init
<1>2. FrameTypes
  BY FrameTypesInit
<1>3. EndInv
  BY <1>1 DEF EndInv
<1>4. Len(<<>>) = 0 /\ 1 .. 0 = {} /\ 0 + 1 = 1
  OBVIOUS
<1>5. remaining \in Seq(FrameByte)
  BY <1>2 DEF FrameTypes
<1>6. Unread = remaining
  <2>1. <<>> \o remaining = remaining
    BY <1>5, ConcatEmptySeq
  <2>. QED
    BY <1>1, <2>1 DEF Unread
<1>7. ASSUME course = 16 PROVE MessageInv
  <2>1. Unread = <<>>
    BY <1>1, <1>6, <1>7
  <2>2. Upcoming = TheByte(1, "length", 1)
    BY <1>1 DEF Upcoming
  <2>3. Chained(<<>>, TheByte(1, "length", 1), TheByte(1, "length", 1), <<>>)
    BY <1>4 DEF Chained
  <2>4. Chained(Unread, Upcoming, TheByte(Len(typedIn) + 1, "length", 1), typedIn)
    BY <1>1, <1>4, <2>1, <2>2, <2>3
  <2>5. /\ \A k \in 1 .. Len(delivered) : FALSE
        /\ \A k \in 1 .. Len(got) : FALSE
        /\ \A k \in 1 .. Len(Unread) : FALSE
    BY <1>1, <1>4, <2>1
  <2>. QED
    BY <1>1, <2>4, <2>5 DEF MessageInv
<1>8. ASSUME course = 5 PROVE BulkInv
  <2>1. Unread = Frame!Piece(1, "data", MessageSize)
    BY <1>1, <1>6, <1>8
  <2>2. Len(Unread) = MessageSize /\ \A n \in 1 .. MessageSize : Unread[n] = TheByte(1, "data", n)
    <3>1. 1 \in Nat /\ "data" \in Frame!Parts /\ MessageSize \in Nat
      BY FramingAssumption DEF Frame!Parts
    <3>. QED
      BY <2>1, <3>1, PieceProperties
  <2>3. \A n \in 1 .. Len(Unread) : Unread[n].no = n
    BY <2>2 DEF TheByte
  <2>4. \A k \in 1 .. Len(delivered) : FALSE
    BY <1>1, <1>4
  <2>5. \A k \in 1 .. Len(got) : FALSE
    BY <1>1, <1>4
  <2>6. \A n \in 1 .. Len(Unread) : n = Len(delivered) * BulkSize + Len(got) + n
    <3>1. Len(delivered) = 0 /\ Len(got) = 0
      BY <1>1, <1>4
    <3>2. BulkSize \in Nat
      BY FramingAssumption
    <3>3. \A n \in Nat : 0 * BulkSize + 0 + n = n
      BY <3>2
    <3>. QED
      BY <3>1, <3>3
  <2>. QED
    BY <1>1, <2>3, <2>4, <2>5, <2>6 DEF BulkInv
<1>9. ASSUME course = 17 PROVE RawInv
  <2>1. Frame!Joined(delivered) = <<>>
    <3>1. Frame!Joined(<<>>) = <<>>
      BY JoinedNone, SameJoined
    <3>. QED
      BY <1>1, <3>1
  <2>2. <<>> \o <<>> \o remaining = remaining
    <3>1. <<>> \in Seq(FrameByte)
      OBVIOUS
    <3>2. <<>> \o <<>> = <<>>
      BY <3>1, ConcatEmptySeq
    <3>. QED
      BY <1>5, <3>2, ConcatEmptySeq
  <2>3. Frame!Joined(delivered) \o stream \o remaining = remaining
    BY <1>1, <2>1, <2>2
  <2>. QED
    BY <1>1, <1>9, <2>3 DEF RawInv
<1>. QED
  BY <1>2, <1>3, <1>7, <1>8, <1>9 DEF FrameInv

LEMMA FrameStep == FrameInv /\ [Frame!Next]_frameVars => FrameInv'
<1>. SUFFICES ASSUME FrameInv, [Frame!Next]_frameVars PROVE FrameInv'
  OBVIOUS
<1>1. /\ FrameTypes /\ EndInv /\ (course = 16 => MessageInv) /\ (course = 5 => BulkInv)
      /\ (course = 17 => RawInv)
  BY DEF FrameInv
<1>2. FrameTypes' /\ EndInv'
  BY <1>1, FrameTypesStep, EndStep
<1>3. course' = course
  BY DEF Frame!Next, Frame!Reader, Frame!ReadSome, Frame!ReadNothing, Frame!Accept, Frame!LengthRead,
         Frame!TypeRead, Frame!BodyRead, Frame!CutOff, Frame!BulkRead, Frame!ReadRaw, Frame!KillReader,
         Frame!Typed, Frame!Send, Frame!Leave, frameVars
<1>4. (course' = 16 => MessageInv') /\ (course' = 5 => BulkInv') /\ (course' = 17 => RawInv')
  BY <1>1, <1>3, MessageStep, BulkStep, RawStep
<1>. QED
  BY <1>2, <1>4 DEF FrameInv

-----------------------------------------------------------------------------
(* HiServer                                                                *)

\* 1, 2, ..., n
Upto(n) == [k \in 1 .. n |-> k]

Answers == Len(answered)
InTurn == lesson \in {7, 17}
InHand  == IF hiServer = "write" THEN handed ELSE <<>>
Joined  == Hi!Joined(answered)
HiOpen  == hiClient \notin {"asleep", "exited"}

HiTypes ==
  /\ lesson \in {7, 11, 13, 17} /\ hiServer \in {"read", "write", "exited"}
  /\ typedLines \in Nat /\ reset \in {"no", "untold", "told"}
  /\ questions \in Seq(Nat) /\ handed \in Seq(Nat) /\ replies \in Seq(Nat) /\ printed \in Seq(Nat)
  /\ answered \in Seq(Seq(Nat))

\* How a client of each kind goes on and ends.
WaysInv ==
  /\ InTurn => /\ hiClient \in {"type", "wait", "terminated", "exited"}
                /\ command \in {"none", "quit", "kill"}
  /\ lesson = 11 => /\ hiClient \in {"type", "quiet", "asleep", "terminated"}
                    /\ command \in {"none", "shutdown", "close"}
  /\ lesson = 13 => hiClient \in {"type", "exited"} /\ command \in {"none", "quit"}

\* A client that is there is answered with lines it has sent, and its connection
\* has not been reset.
OpenInv == HiOpen => reset = "no" /\ (hiServer = "write" => handed # <<>>)

\* chapter07 and chapter17: one line is under way, if any, and what has been read
\* and printed is what was sent before it.
WaitingInv ==
  /\ \A k \in 1 .. Len(printed) : printed[k] = k
  /\ \A k \in 1 .. Answers : answered[k] = <<k>>
  /\ Joined = Upto(Answers) /\ Answers <= typedLines
  /\ hiClient = "type" =>
       /\ typedLines = Len(printed) /\ Answers = typedLines
       /\ replies = <<>> /\ questions = <<>> /\ hiServer # "write"
  /\ hiClient = "wait" => typedLines = Len(printed) + 1 /\ Answers = Len(printed) + Len(replies)
  /\ hiClient \in {"terminated", "exited"} => Len(printed) \in {typedLines, typedLines - 1}
  /\ hiClient = "terminated" => command = "kill"
  /\ hiClient = "exited" /\ command # "kill" =>
       /\ Answers = typedLines /\ questions = <<>> /\ hiServer # "write"
       /\ replies = <<>> /\ Len(printed) = typedLines
  /\ questions # <<>> =>
       /\ questions = <<typedLines>> /\ replies = <<>> /\ hiServer # "write"
       /\ Answers + 1 = typedLines
  /\ hiServer = "write" =>
       handed = <<typedLines>> /\ replies = <<>> /\ questions = <<>> /\ Answers + 1 = typedLines
  /\ replies # <<>> => replies = <<typedLines>>
  /\ command = "none" =>
       /\ hiServer # "exited" /\ hiClient \in {"type", "wait"}
       /\ hiClient = "wait" => questions # <<>> \/ hiServer = "write" \/ replies # <<>>
  /\ command = "quit" => hiClient = "exited"
  /\ hiServer = "exited" /\ HiOpen => command = "kill"

\* The lines that were read, are in hand and have not been read.
Reading == Joined \o InHand \o questions

\* They are the first that were sent, and all of them unless there was a reset.
ReadingInv == \E m \in 0 .. typedLines : Reading = Upto(m) /\ (reset = "no" => m = typedLines)

\* chapter11 and chapter13: several lines may be under way.
RunningInv ==
  /\ command = "close" => hiClient = "asleep"
  /\ hiServer = "exited" => questions = <<>>
  /\ hiClient = "terminated" => hiServer = "exited" /\ Len(printed) = Answers
  /\ ReadingInv
  /\ lesson = 11 /\ command # "close" =>
       /\ HiOpen
       /\ printed \o replies = [k \in 1 .. Answers |-> answered[k][1]]

HiInv ==
  /\ HiTypes /\ WaysInv /\ OpenInv
  /\ InTurn => WaitingInv
  /\ ~InTurn => RunningInv

LEMMA UptoProperties ==
  ASSUME NEW n \in Nat
  PROVE  /\ Upto(n) \in Seq(Nat) /\ Len(Upto(n)) = n
         /\ \A k \in 1 .. n : Upto(n)[k] = k
         /\ Append(Upto(n), n + 1) = Upto(n + 1)
<1>1. \A m \in Nat : /\ Upto(m) \in Seq(Nat) /\ Len(Upto(m)) = m
                     /\ \A k \in 1 .. m : Upto(m)[k] = k
  BY DEF Upto
<1>2. PICK a, b : a = Append(Upto(n), n + 1) /\ b = Upto(n + 1)
  OBVIOUS
<1>3. /\ b \in Seq(Nat) /\ Len(b) = n + 1 /\ \A k \in 1 .. n + 1 : b[k] = k
  BY <1>1, <1>2
<1>4. /\ a \in Seq(Nat) /\ Len(a) = n + 1 /\ a[n + 1] = n + 1
      /\ \A k \in 1 .. n : a[k] = k
  <2>1. PICK u : u = Upto(n)
    OBVIOUS
  <2>2. u \in Seq(Nat) /\ Len(u) = n /\ (\A k \in 1 .. n : u[k] = k) /\ n + 1 \in Nat
    BY <1>1, <2>1
  <2>3. /\ Append(u, n + 1) \in Seq(Nat) /\ Len(Append(u, n + 1)) = Len(u) + 1
        /\ \A k \in 1 .. Len(u) : Append(u, n + 1)[k] = u[k]
        /\ Append(u, n + 1)[Len(u) + 1] = n + 1
    BY <2>2, AppendProperties
  <2>. QED
    BY <1>2, <2>1, <2>2, <2>3
<1>5. \A k \in 1 .. Len(a) : a[k] = b[k]
  BY <1>3, <1>4
<1>6. a = b
  BY <1>3, <1>4, <1>5, SeqEqual
<1>. QED
  BY <1>1, <1>2, <1>6

LEMMA Concatenated ==
  ASSUME NEW s \in Seq(Nat), NEW t \in Seq(Nat), NEW r, r = s \o t
  PROVE  /\ r \in Seq(Nat) /\ Len(r) = Len(s) + Len(t)
         /\ \A k \in 1 .. Len(s) : r[k] = s[k]
         /\ \A k \in 1 .. Len(t) : r[Len(s) + k] = t[k]
OBVIOUS

\* What is left of the first numbers when the end is cut off.
LEMMA UptoCut ==
  ASSUME NEW j \in Seq(Nat), NEW q \in Seq(Nat), NEW m \in Nat, NEW n \in 0 .. Len(q),
         j \o q = Upto(m)
  PROVE  SubSeq(q, 1, n) \in Seq(Nat) /\ \E p \in 0 .. m : j \o SubSeq(q, 1, n) = Upto(p)
<1>1. PICK c : c = SubSeq(q, 1, n)
  OBVIOUS
<1>2. c \in Seq(Nat) /\ Len(c) = n /\ \A k \in 1 .. n : c[k] = q[k]
  BY <1>1
<1>3. PICK p : p = Len(j) + n
  OBVIOUS
<1>4. PICK u : u = j \o q
  OBVIOUS
<1>5. /\ Len(u) = Len(j) + Len(q) /\ \A k \in 1 .. Len(j) : u[k] = j[k]
      /\ \A k \in 1 .. Len(q) : u[Len(j) + k] = q[k]
  BY <1>4, Concatenated
<1>6. Len(u) = m /\ \A k \in 1 .. m : u[k] = k
  BY <1>4, UptoProperties
<1>7. p \in 0 .. m /\ p \in Nat
  BY <1>3, <1>5, <1>6
<1>8. PICK v : v = j \o c
  OBVIOUS
<1>9. /\ v \in Seq(Nat) /\ Len(v) = p /\ \A k \in 1 .. Len(j) : v[k] = j[k]
      /\ \A k \in 1 .. n : v[Len(j) + k] = c[k]
  <2>. c \in Seq(Nat)
    BY <1>2
  <2>1. /\ v \in Seq(Nat) /\ Len(v) = Len(j) + Len(c)
        /\ \A k \in 1 .. Len(j) : v[k] = j[k]
        /\ \A k \in 1 .. Len(c) : v[Len(j) + k] = c[k]
    BY <1>8, Concatenated
  <2>2. Len(c) = n
    BY <1>2
  <2>3. Len(v) = Len(j) + n
    BY <2>1, <2>2
  <2>4. \A k \in 1 .. n : v[Len(j) + k] = c[k]
    BY <2>1, <2>2
  <2>. QED
    BY <1>3, <2>1, <2>3, <2>4
<1>10. \A k \in 1 .. p : v[k] = k
  <2>. SUFFICES ASSUME NEW k \in 1 .. p PROVE v[k] = k
    OBVIOUS
  <2>1. CASE k \in 1 .. Len(j)
    BY <1>5, <1>6, <1>7, <1>9, <2>1
  <2>2. CASE k \notin 1 .. Len(j)
    <3>1. PICK i0 \in 1 .. n : k = Len(j) + i0
      <4>1. k - Len(j) \in 1 .. n /\ k = Len(j) + (k - Len(j))
        BY <1>3, <2>2
      <4>. QED
        BY <4>1
    <3>2. v[k] = q[i0]
      BY <1>2, <1>9, <3>1
    <3>3. u[k] = q[i0] /\ k \in 1 .. m
      BY <1>5, <1>7, <3>1
    <3>. QED
      BY <1>6, <3>2, <3>3
  <2>. QED
    BY <2>1, <2>2
<1>11. v = Upto(p)
  <2>1. PICK w : w = Upto(p)
    OBVIOUS
  <2>2. w \in Seq(Nat) /\ Len(w) = p /\ \A k \in 1 .. p : w[k] = k
    BY <1>7, <2>1, UptoProperties
  <2>3. v = w
    BY <1>9, <1>10, <2>2, SeqEqual
  <2>. QED
    BY <2>1, <2>3
<1>. QED
  BY <1>1, <1>2, <1>7, <1>8, <1>11

LEMMA JoinedIs == ASSUME NEW e, answered' = e PROVE Joined' = Hi!Joined(e)
BY DEF Joined

LEMMA NumbersAppend ==
  ASSUME NEW s \in Seq(Nat), NEW n \in Nat
  PROVE  /\ Append(s, n) \in Seq(Nat) /\ Len(Append(s, n)) = Len(s) + 1
         /\ \A k \in 1 .. Len(s) : Append(s, n)[k] = s[k]
         /\ Append(s, n)[Len(s) + 1] = n
         /\ Append(s, n) = s \o <<n>> /\ <<n>> \in Seq(Nat)
BY AppendProperties, AppendIsConcat

LEMMA NumbersConcat ==
  /\ \A s, t \in Seq(Nat) : s \o t \in Seq(Nat) /\ Len(s \o t) = Len(s) + Len(t)
  /\ \A s \in Seq(Nat) : s \o <<>> = s /\ <<>> \o s = s
  /\ \A s, t, u \in Seq(Nat) : (s \o t) \o u = s \o (t \o u)
<1>1. ASSUME NEW s \in Seq(Nat), NEW t \in Seq(Nat)
      PROVE  s \o t \in Seq(Nat) /\ Len(s \o t) = Len(s) + Len(t)
  BY <1>1, ConcatProperties
<1>2. ASSUME NEW s \in Seq(Nat)
      PROVE  s \o <<>> = s /\ <<>> \o s = s
  BY <1>2, ConcatEmptySeq
<1>3. ASSUME NEW s \in Seq(Nat), NEW t \in Seq(Nat), NEW u \in Seq(Nat)
      PROVE  (s \o t) \o u = s \o (t \o u)
  BY <1>3, ConcatAssociative, SMTT(20)
<1>. QED
  BY <1>1, <1>2, <1>3

\* The server that has answered has read what it answered.
LEMMA Answering ==
  ASSUME answered \in Seq(Seq(Nat)), NEW x \in Seq(Nat)
  PROVE  /\ Append(answered, x) \in Seq(Seq(Nat))
         /\ Len(Append(answered, x)) = Answers + 1
         /\ \A k \in 1 .. Answers : Append(answered, x)[k] = answered[k]
         /\ Append(answered, x)[Answers + 1] = x
         /\ Hi!Joined(Append(answered, x)) = Joined \o x
         /\ Joined \in Seq(Nat)
<1>1. /\ Append(answered, x) \in Seq(Seq(Nat))
      /\ Len(Append(answered, x)) = Answers + 1
      /\ \A k \in 1 .. Answers : Append(answered, x)[k] = answered[k]
      /\ Append(answered, x)[Answers + 1] = x
  BY AppendProperties DEF Answers
<1>2. Hi!Joined(Append(answered, x)) = Joined \o x
  BY JoinedAndOne DEF Joined
<1>3. Joined \in Seq(Nat)
  BY JoinedType DEF Joined
<1>. QED
  BY <1>1, <1>2, <1>3

LineNumber == Nat

LEMMA LinesMoveOver ==
  ASSUME NEW a \in Seq(LineNumber), NEW b \in Seq(LineNumber), NEW n \in 1 .. Len(b)
  PROVE  /\ SubSeq(b, 1, n) \in Seq(LineNumber) /\ SubSeq(b, n + 1, Len(b)) \in Seq(LineNumber)
         /\ (a \o SubSeq(b, 1, n)) \o SubSeq(b, n + 1, Len(b)) = a \o b
<1>1. \A u, v \in Seq(LineNumber) : \A k \in 1 .. Len(v) :
        /\ SubSeq(v, 1, k) \in Seq(LineNumber) /\ SubSeq(v, k + 1, Len(v)) \in Seq(LineNumber)
        /\ (u \o SubSeq(v, 1, k)) \o SubSeq(v, k + 1, Len(v)) = u \o v
  BY AllMoveOver, Zenon
<1>. QED
  BY <1>1, Zenon

LEMMA ReadLinesTakes ==
  HiTypes /\ Hi!ReadLines =>
    /\ handed' \in Seq(Nat) /\ questions' \in Seq(Nat) /\ handed' # <<>> /\ questions # <<>>
    /\ hiServer = "read" /\ hiServer' = "write"
    /\ \A j \in Seq(Nat) : j \o handed' \o questions' = j \o questions
    /\ Len(questions) = 1 => handed' = questions /\ questions' = <<>>
    /\ UNCHANGED <<lesson, hiClient, typedLines, replies, command, reset, answered, printed>>
<1>. SUFFICES ASSUME HiTypes, Hi!ReadLines
     PROVE  /\ handed' \in Seq(Nat) /\ questions' \in Seq(Nat) /\ handed' # <<>> /\ questions # <<>>
            /\ \A j \in Seq(Nat) : j \o handed' \o questions' = j \o questions
            /\ Len(questions) = 1 => handed' = questions /\ questions' = <<>>
  BY DEF Hi!ReadLines
<1>1. questions \in Seq(Nat)
  BY DEF HiTypes
<1>2. PICK n \in 1 .. Len(questions) :
        /\ handed' = SubSeq(questions, 1, n)
        /\ questions' = SubSeq(questions, n + 1, Len(questions))
  BY DEF Hi!ReadLines
<1>3. /\ SubSeq(questions, 1, n) \in Seq(Nat) /\ SubSeq(questions, n + 1, Len(questions)) \in Seq(Nat)
      /\ \A j \in Seq(Nat) :
           (j \o SubSeq(questions, 1, n)) \o SubSeq(questions, n + 1, Len(questions)) = j \o questions
  <2>1. questions \in Seq(LineNumber)
    BY <1>1 DEF LineNumber
  <2>2. /\ SubSeq(questions, 1, n) \in Seq(LineNumber)
        /\ SubSeq(questions, n + 1, Len(questions)) \in Seq(LineNumber)
        /\ \A j \in Seq(LineNumber) :
             (j \o SubSeq(questions, 1, n)) \o SubSeq(questions, n + 1, Len(questions)) = j \o questions
    BY <2>1, LinesMoveOver
  <2>. QED
    BY <2>2 DEF LineNumber
<1>4. Len(SubSeq(questions, 1, n)) = n /\ n # 0
  BY <1>1
<1>5. ASSUME Len(questions) = 1 PROVE handed' = questions /\ questions' = <<>>
  <2>1. n = 1 /\ Len(questions) = n
    BY <1>2, <1>5
  <2>2. SubSeq(questions, 1, Len(questions)) = questions
    BY <1>1, SubSeqFull
  <2>3. SubSeq(questions, n + 1, Len(questions)) = <<>>
    BY <2>1, SubSeqEmpty
  <2>. QED
    BY <1>2, <2>1, <2>2, <2>3
<1>6. handed' # <<>> /\ questions # <<>>
  BY <1>1, <1>2, <1>3, <1>4, EmptySeq
<1>. QED
  BY <1>2, <1>3, <1>5, <1>6

LEMMA NumbersAtEnd ==
  ASSUME NEW s \in Seq(Nat), NEW t \in Seq(Nat), NEW n \in Nat
  PROVE  s \o Append(t, n) = Append(s \o t, n)
BY AppendAtEnd

\* A reset leaves the first lines that have not been read.
LEMMA CutOffLeaves ==
  HiTypes /\ Hi!CutOff =>
    /\ questions' \in Seq(Nat) /\ (questions = <<>> => questions' = <<>>)
    /\ \A j \in Seq(Nat), m \in Nat : j \o questions = Upto(m) =>
         \E p \in 0 .. m : j \o questions' = Upto(p)
<1>. SUFFICES ASSUME HiTypes, Hi!CutOff
     PROVE  /\ questions' \in Seq(Nat) /\ (questions = <<>> => questions' = <<>>)
            /\ \A j \in Seq(Nat), m \in Nat : j \o questions = Upto(m) =>
                 \E p \in 0 .. m : j \o questions' = Upto(p)
  OBVIOUS
<1>1. questions \in Seq(Nat)
  BY DEF HiTypes
<1>2. PICK n \in 0 .. Len(questions) : questions' = SubSeq(questions, 1, n)
  BY DEF Hi!CutOff
<1>3. questions' \in Seq(Nat)
  BY <1>1, <1>2
<1>4. questions = <<>> => questions' = <<>>
  <2>1. questions = <<>> => n = 0
    BY <1>1, <1>2
  <2>2. SubSeq(questions, 1, 0) = <<>>
    BY SubSeqEmpty
  <2>. QED
    BY <1>2, <2>1, <2>2
<1>5. ASSUME NEW j \in Seq(Nat), NEW m \in Nat, j \o questions = Upto(m)
      PROVE  \E p \in 0 .. m : j \o questions' = Upto(p)
  BY <1>1, <1>2, <1>5, UptoCut
<1>. QED
  BY <1>3, <1>4, <1>5

\* What an answer or an echo does to the client and the history.
LEMMA ReplyEffect ==
  HiTypes /\ OpenInv /\ (Hi!Reply \/ Hi!Echo) =>
    /\ hiServer = "write" /\ hiServer' = "read"
    /\ answered' = Append(answered, handed) /\ replies' \in Seq(Nat)
    /\ HiOpen => UNCHANGED <<questions, reset>>
    /\ ~HiOpen => /\ replies' = replies /\ reset' \in {"untold", "told"}
                  /\ UNCHANGED questions \/ Hi!CutOff
    /\ HiOpen /\ (~InTurn \/ Len(handed) = 1) =>
         handed # <<>> /\ handed[1] \in Nat /\ replies' = Append(replies, handed[1])
    /\ UNCHANGED <<lesson, hiClient, typedLines, handed, command, printed>>
<1>. SUFFICES ASSUME HiTypes, OpenInv, Hi!Reply \/ Hi!Echo
     PROVE  /\ hiServer = "write" /\ hiServer' = "read"
            /\ answered' = Append(answered, handed) /\ replies' \in Seq(Nat)
            /\ HiOpen => UNCHANGED <<questions, reset>>
            /\ ~HiOpen => /\ replies' = replies /\ reset' \in {"untold", "told"}
                          /\ UNCHANGED questions \/ Hi!CutOff
            /\ HiOpen /\ (~InTurn \/ Len(handed) = 1) =>
                 handed # <<>> /\ handed[1] \in Nat /\ replies' = Append(replies, handed[1])
            /\ UNCHANGED <<lesson, hiClient, typedLines, handed, command, printed>>
  OBVIOUS
<1>1. handed \in Seq(Nat) /\ replies \in Seq(Nat)
  BY DEF HiTypes
<1>2. /\ hiServer = "write" /\ hiServer' = "read"
      /\ answered' = Append(answered, handed)
      /\ UNCHANGED <<lesson, hiClient, typedLines, handed, command, printed>>
      /\ HiOpen => UNCHANGED <<questions, reset>>
      /\ ~HiOpen => Hi!Refused
  BY DEF Hi!Reply, Hi!Echo, Hi!ClientOpen, HiOpen
<1>3. HiOpen => handed # <<>> /\ handed[1] \in Nat
  BY <1>1, <1>2, EmptySeq DEF OpenInv
<1>4. ~HiOpen => /\ replies' = replies /\ reset' \in {"untold", "told"}
                 /\ UNCHANGED questions \/ Hi!CutOff
  BY <1>2 DEF Hi!Refused
<1>5. HiOpen => \/ lesson # 17 /\ replies' = Append(replies, handed[1])
                \/ lesson = 17 /\ replies' = replies \o handed
  BY DEF Hi!Reply, Hi!Echo, Hi!ClientOpen, HiOpen
<1>6. ASSUME Len(handed) = 1 PROVE replies \o handed = Append(replies, handed[1])
  <2>1. handed[1] \in Nat /\ handed = <<handed[1]>>
    <3>1. handed[1] \in Nat
      <4>1. 1 \in 1 .. Len(handed)
        BY <1>6
      <4>. QED
        BY <1>1, <4>1, ElementOfSeq
    <3>2. PICK x : x = <<handed[1]>>
      OBVIOUS
    <3>3. x \in Seq(Nat) /\ Len(x) = 1 /\ x[1] = handed[1]
      BY <3>1, <3>2
    <3>4. \A k \in 1 .. Len(handed) : handed[k] = x[k]
      BY <1>6, <3>3
    <3>5. handed = x
      BY <1>1, <1>6, <3>3, <3>4, SeqEqual
    <3>. QED
      BY <3>1, <3>2, <3>5
  <2>2. Append(replies, handed[1]) = replies \o <<handed[1]>>
    BY <1>1, <2>1, NumbersAppend
  <2>. QED
    BY <2>1, <2>2
<1>7. replies' \in Seq(Nat)
  <2>1. replies \o handed \in Seq(Nat)
    BY <1>1, NumbersConcat
  <2>2. HiOpen => Append(replies, handed[1]) \in Seq(Nat)
    BY <1>1, <1>3, NumbersAppend
  <2>. QED
    BY <1>1, <1>4, <1>5, <2>1, <2>2
<1>8. HiOpen /\ (~InTurn \/ Len(handed) = 1) => replies' = Append(replies, handed[1])
  BY <1>5, <1>6 DEF InTurn
<1>. QED
  BY <1>2, <1>3, <1>4, <1>7, <1>8

LEMMA SendLineAdds ==
  HiTypes /\ Hi!SendLine =>
    /\ hiClient = "type" /\ (hiServer # "exited" \/ lesson = 17)
    /\ typedLines' = typedLines + 1 /\ typedLines' \in Nat
    /\ questions' = Append(questions, typedLines + 1) /\ questions' \in Seq(Nat)
    /\ hiClient' = IF InTurn THEN "wait" ELSE "type"
    /\ UNCHANGED <<lesson, hiServer, handed, replies, command, reset, answered, printed>>
<1>. SUFFICES ASSUME HiTypes, Hi!SendLine
     PROVE  /\ typedLines' = typedLines + 1 /\ typedLines' \in Nat
            /\ questions' = Append(questions, typedLines + 1) /\ questions' \in Seq(Nat)
  BY DEF Hi!SendLine, Hi!WaitsEach, InTurn
<1>1. typedLines' = typedLines + 1 /\ questions' = Append(questions, typedLines')
  BY DEF Hi!SendLine
<1>2. typedLines' \in Nat /\ questions \in Seq(Nat)
  BY <1>1 DEF HiTypes
<1>3. Append(questions, typedLines') \in Seq(Nat)
  BY <1>2, NumbersAppend
<1>. QED
  BY <1>1, <1>2, <1>3

LEMMA PrintAnswerMoves ==
  HiTypes /\ Hi!PrintAnswer =>
    /\ lesson # 13 /\ replies # <<>> /\ hiClient \in {"type", "quiet", "wait"}
    /\ InTurn => hiClient = "wait"
    /\ Head(replies) \in Nat /\ replies' = Tail(replies) /\ replies' \in Seq(Nat)
    /\ printed' = Append(printed, Head(replies)) /\ printed' \in Seq(Nat)
    /\ printed' \o replies' = printed \o replies
    /\ hiClient' = IF InTurn THEN "type" ELSE hiClient
    /\ UNCHANGED <<lesson, typedLines, questions, hiServer, handed, command, reset, answered>>
<1>. SUFFICES ASSUME HiTypes, Hi!PrintAnswer
     PROVE  /\ replies # <<>>
            /\ Head(replies) \in Nat /\ replies' = Tail(replies) /\ replies' \in Seq(Nat)
            /\ printed' = Append(printed, Head(replies)) /\ printed' \in Seq(Nat)
            /\ printed' \o replies' = printed \o replies
  BY DEF Hi!PrintAnswer, Hi!Reads, Hi!NeverReads, Hi!WaitsEach, InTurn
<1>1. /\ replies # <<>> /\ printed' = Append(printed, Head(replies)) /\ replies' = Tail(replies)
  BY DEF Hi!PrintAnswer
<1>2. replies \in Seq(Nat) /\ printed \in Seq(Nat)
  BY DEF HiTypes
<1>3. Head(replies) \in Nat /\ Tail(replies) \in Seq(Nat)
  BY <1>1, <1>2, HeadTailProperties
<1>4. Append(printed, Head(replies)) \in Seq(Nat)
  BY <1>2, <1>3, NumbersAppend
<1>5. Append(printed, Head(replies)) \o Tail(replies) = printed \o replies
  BY <1>1, <1>2, ByteMoves
<1>. QED
  BY <1>1, <1>3, <1>4, <1>5

\* The client leaves.
HiLeaves == Hi!Close \/ Hi!Quit \/ Hi!KillClient

LEMMA LeavesMove ==
  HiTypes /\ HiLeaves =>
    /\ ~HiOpen' /\ replies' = <<>>
    /\ replies = <<>> => UNCHANGED <<questions, reset>>
    /\ replies # <<>> => reset' = "untold" /\ Hi!CutOff
    /\ \/ lesson = 11 /\ hiClient = "type" /\ hiClient' = "asleep" /\ command' = "close"
       \/ lesson # 11 /\ hiClient = "type" /\ hiClient' = "exited" /\ command' = "quit"
       \/ /\ lesson = 17 /\ hiClient \in {"type", "wait"} /\ hiClient' = "exited"
          /\ command' = "kill"
    /\ UNCHANGED <<lesson, typedLines, hiServer, handed, answered, printed>>
BY DEF HiLeaves, Hi!Close, Hi!Quit, Hi!KillClient, Hi!Departs, HiOpen

\* The steps that move no line.
HiEnds == Hi!ReadEnd \/ Hi!ReadClosed \/ Hi!ServerTerminated \/ Hi!Shutdown \/ Hi!KillServer

LEMMA EndsMoveNothing ==
  HiEnds => UNCHANGED <<lesson, typedLines, questions, handed, replies, reset, answered, printed>>
BY DEF HiEnds, Hi!ReadEnd, Hi!ReadClosed, Hi!ServerTerminated, Hi!Shutdown, Hi!KillServer

LEMMA HiCases ==
  Hi!Next => \/ Hi!ReadLines \/ Hi!ReadError \/ Hi!Reply \/ Hi!Echo \/ Hi!SendLine \/ Hi!PrintAnswer
             \/ HiLeaves \/ HiEnds
BY DEF Hi!Next, Hi!HiServerStep, Hi!HiClientStep, HiEnds, HiLeaves

LEMMA HiTypesStep == HiTypes /\ WaysInv /\ OpenInv /\ Hi!Next => HiTypes' /\ WaysInv' /\ OpenInv'
<1>. SUFFICES ASSUME HiTypes, WaysInv, OpenInv, Hi!Next PROVE HiTypes' /\ WaysInv' /\ OpenInv'
  OBVIOUS
<1>1. CASE Hi!ReadLines
  <2>1. /\ handed' \in Seq(Nat) /\ questions' \in Seq(Nat) /\ handed' # <<>> /\ hiServer' = "write"
        /\ UNCHANGED <<lesson, hiClient, typedLines, replies, command, reset, answered, printed>>
    BY <1>1, ReadLinesTakes
  <2>. QED
    BY <2>1 DEF HiTypes, WaysInv, OpenInv, InTurn, HiOpen
<1>2. CASE Hi!ReadError
  <2>1. /\ reset = "untold" /\ handed' = <<>> /\ hiServer' = "write" /\ reset' = "told"
        /\ UNCHANGED <<lesson, hiClient, typedLines, questions, replies, command, answered, printed>>
    BY <1>2 DEF Hi!ReadError
  <2>2. ~HiOpen
    BY <2>1 DEF OpenInv
  <2>3. <<>> \in Seq(Nat)
    OBVIOUS
  <2>. QED
    BY <2>1, <2>2, <2>3 DEF HiTypes, WaysInv, OpenInv, InTurn, HiOpen
<1>3. CASE Hi!Reply \/ Hi!Echo
  <2>1. /\ hiServer' = "read"
        /\ answered' = Append(answered, handed) /\ replies' \in Seq(Nat)
        /\ HiOpen => UNCHANGED <<questions, reset>>
        /\ ~HiOpen => reset' \in {"untold", "told"} /\ (UNCHANGED questions \/ Hi!CutOff)
        /\ UNCHANGED <<lesson, hiClient, typedLines, handed, command, printed>>
    BY <1>3, ReplyEffect
  <2>2. Append(answered, handed) \in Seq(Seq(Nat))
    BY Answering DEF HiTypes
  <2>3. questions' \in Seq(Nat) /\ reset' \in {"no", "untold", "told"}
    BY <2>1, CutOffLeaves DEF HiTypes
  <2>4. HiTypes' /\ WaysInv'
    BY <2>1, <2>2, <2>3 DEF HiTypes, WaysInv, InTurn
  <2>5. OpenInv'
    BY <2>1 DEF OpenInv, HiOpen
  <2>. QED
    BY <2>4, <2>5
<1>4. CASE Hi!SendLine
  <2>1. /\ hiClient = "type" /\ typedLines' \in Nat /\ questions' \in Seq(Nat)
        /\ hiClient' = IF InTurn THEN "wait" ELSE "type"
        /\ UNCHANGED <<lesson, hiServer, handed, replies, command, reset, answered, printed>>
    BY <1>4, SendLineAdds
  <2>. QED
    BY <2>1 DEF HiTypes, WaysInv, OpenInv, InTurn, HiOpen
<1>5. CASE Hi!PrintAnswer
  <2>1. /\ lesson # 13 /\ hiClient \in {"type", "quiet", "wait"} /\ replies' \in Seq(Nat)
        /\ printed' \in Seq(Nat) /\ hiClient' = IF InTurn THEN "type" ELSE hiClient
        /\ UNCHANGED <<lesson, typedLines, questions, hiServer, handed, command, reset, answered>>
    BY <1>5, PrintAnswerMoves
  <2>. QED
    BY <2>1 DEF HiTypes, WaysInv, OpenInv, InTurn, HiOpen
<1>6. CASE HiLeaves
  <2>1. /\ ~HiOpen' /\ replies' = <<>>
        /\ replies = <<>> => UNCHANGED <<questions, reset>>
        /\ replies # <<>> => reset' = "untold" /\ Hi!CutOff
        /\ \/ lesson = 11 /\ hiClient' = "asleep" /\ command' = "close"
           \/ lesson # 11 /\ hiClient' = "exited" /\ command' = "quit"
           \/ lesson = 17 /\ hiClient' = "exited" /\ command' = "kill"
        /\ UNCHANGED <<lesson, typedLines, hiServer, handed, answered, printed>>
    BY <1>6, LeavesMove
  <2>2. <<>> \in Seq(Nat)
    OBVIOUS
  <2>3. questions' \in Seq(Nat) /\ reset' \in {"no", "untold", "told"}
    BY <2>1, CutOffLeaves DEF HiTypes
  <2>. QED
    BY <2>1, <2>2, <2>3 DEF HiTypes, WaysInv, OpenInv, InTurn, HiOpen
<1>7. CASE HiEnds
  <2>1. UNCHANGED <<lesson, typedLines, questions, handed, replies, reset, answered, printed>>
    BY <1>7, EndsMoveNothing
  <2>2. hiServer' \in {hiServer, "exited"}
    BY <1>7 DEF HiEnds, Hi!ReadEnd, Hi!ReadClosed, Hi!ServerTerminated, Hi!Shutdown, Hi!KillServer
  <2>3. \/ UNCHANGED <<hiClient, command>>
        \/ lesson # 13 /\ hiClient # "asleep" /\ hiClient' = "terminated" /\ UNCHANGED command
        \/ lesson = 11 /\ hiClient = "type" /\ hiClient' = "quiet" /\ command' = "shutdown"
        \/ lesson = 17 /\ hiClient' = hiClient /\ command' = "kill"
    BY <1>7 DEF HiEnds, Hi!ReadEnd, Hi!ReadClosed, Hi!ServerTerminated, Hi!Reads, Hi!NeverReads,
                Hi!Shutdown, Hi!Stays, Hi!KillServer
  <2>4. HiTypes'
    BY <2>1, <2>2 DEF HiTypes
  <2>5. WaysInv'
    BY <2>1, <2>3 DEF WaysInv, InTurn
  <2>6. HiOpen' => HiOpen
    BY <1>7, <2>3 DEF HiOpen, HiEnds, Hi!ReadEnd, Hi!ReadClosed, Hi!ServerTerminated, Hi!Reads,
                Hi!Shutdown, Hi!KillServer
  <2>7. OpenInv'
    BY <2>1, <2>2, <2>6 DEF OpenInv, InTurn
  <2>. QED
    BY <2>4, <2>5, <2>7
<1>. QED
  BY <1>1, <1>2, <1>3, <1>4, <1>5, <1>6, <1>7, HiCases

\* What moves on is the same lines; and a reset takes the last of those that have
\* not been read.
LEMMA ReadingGoesOn ==
  ASSUME ReadingInv, Reading' = Reading, typedLines' = typedLines, reset' = "no" => reset = "no"
  PROVE  ReadingInv'
BY DEF ReadingInv, Upto

LEMMA ReadingCutOff ==
  ASSUME HiTypes, ReadingInv, Joined' \o InHand' = Joined \o InHand, Joined \o InHand \in Seq(Nat),
         typedLines' = typedLines, reset' # "no", Hi!CutOff
  PROVE  ReadingInv'
<1>1. PICK j \in Seq(Nat) : j = Joined \o InHand
  OBVIOUS
<1>2. PICK m \in 0 .. typedLines : j \o questions = Upto(m)
  BY <1>1 DEF ReadingInv, Reading
<1>3. typedLines \in Nat /\ m \in Nat
  BY DEF HiTypes
<1>4. PICK p \in 0 .. m : j \o questions' = Upto(p)
  BY <1>2, <1>3, CutOffLeaves
<1>5. p \in 0 .. typedLines'
  BY <1>3
<1>6. Reading' = Upto(p)
  BY <1>1, <1>4 DEF Reading
<1>. QED
  BY <1>5, <1>6 DEF ReadingInv, Upto

\* chapter11 and chapter13: the lines stay in order as they move on.
LEMMA RunningStep ==
  HiTypes /\ WaysInv /\ OpenInv /\ ~InTurn /\ RunningInv /\ Hi!Next => RunningInv'
<1>. SUFFICES ASSUME HiTypes, WaysInv, OpenInv, ~InTurn, RunningInv, Hi!Next PROVE RunningInv'
  OBVIOUS
<1>1. /\ questions \in Seq(Nat) /\ handed \in Seq(Nat) /\ replies \in Seq(Nat) /\ printed \in Seq(Nat)
      /\ answered \in Seq(Seq(Nat)) /\ Joined \in Seq(Nat) /\ typedLines \in Nat
  <2>1. answered \in Seq(Seq(Nat)) /\ questions \in Seq(Nat)
    BY DEF HiTypes
  <2>2. Joined \in Seq(Nat)
    BY <2>1, Answering
  <2>. QED
    BY <2>2 DEF HiTypes
<1>2. InHand \in Seq(Nat)
  <2>1. <<>> \in Seq(Nat)
    OBVIOUS
  <2>. QED
    BY <1>1, <2>1 DEF InHand
<1>3. ASSUME answered' = answered
      PROVE  /\ Joined' = Joined /\ Answers' = Answers
             /\ [k \in 1 .. Answers |-> answered[k][1]]' = [k \in 1 .. Answers |-> answered[k][1]]
  BY <1>3 DEF Joined, Answers
<1>4. CASE Hi!ReadLines
  <2>1. /\ handed' \in Seq(Nat) /\ hiServer = "read" /\ hiServer' = "write"
        /\ \A j \in Seq(Nat) : j \o handed' \o questions' = j \o questions
        /\ UNCHANGED <<lesson, hiClient, typedLines, replies, command, reset, answered, printed>>
    BY <1>4, ReadLinesTakes
  <2>2. InHand' = handed' /\ InHand = <<>>
    BY <2>1 DEF InHand
  <2>3. Joined' \o InHand' \o questions' = Joined \o InHand \o questions
    <3>1. Joined \o handed' \o questions' = Joined \o questions
      BY <1>1, <2>1
    <3>2. Joined \o <<>> = Joined
      BY <1>1, NumbersConcat
    <3>. QED
      BY <1>3, <2>1, <2>2, <3>1, <3>2
  <2>4. hiClient # "terminated"
    BY <2>1 DEF RunningInv
  <2>5. ReadingInv'
    BY <2>1, <2>3, ReadingGoesOn DEF Reading, RunningInv
  <2>. QED
    BY <1>3, <2>1, <2>4, <2>5 DEF RunningInv, HiOpen
<1>5. CASE Hi!ReadError
  <2>1. /\ reset' # "no" /\ hiServer = "read" /\ handed' = <<>> /\ hiServer' = "write"
        /\ UNCHANGED <<lesson, hiClient, typedLines, questions, replies, command, answered, printed>>
    BY <1>5 DEF Hi!ReadError
  <2>2. InHand' = InHand
    BY <2>1 DEF InHand
  <2>3. ReadingInv'
    BY <1>3, <2>1, <2>2, ReadingGoesOn DEF Reading, RunningInv
  <2>. QED
    BY <1>3, <2>1, <2>3 DEF RunningInv, HiOpen
<1>6. CASE Hi!Reply \/ Hi!Echo
  <2>1. /\ hiServer = "write" /\ hiServer' = "read" /\ answered' = Append(answered, handed)
        /\ HiOpen => handed # <<>> /\ handed[1] \in Nat /\ replies' = Append(replies, handed[1])
        /\ HiOpen => UNCHANGED <<questions, reset>>
        /\ ~HiOpen => reset' \in {"untold", "told"} /\ (UNCHANGED questions \/ Hi!CutOff)
        /\ UNCHANGED <<lesson, hiClient, typedLines, handed, command, printed>>
    BY <1>6, ReplyEffect
  <2>2. /\ Len(Append(answered, handed)) = Answers + 1
        /\ \A k \in 1 .. Answers : Append(answered, handed)[k] = answered[k]
        /\ Append(answered, handed)[Answers + 1] = handed
        /\ Hi!Joined(Append(answered, handed)) = Joined \o handed
    BY <1>1, Answering
  <2>3. Joined' = Joined \o handed
    BY <2>1, <2>2, JoinedIs
  <2>4. ReadingInv'
    <3>1. InHand = handed /\ InHand' = <<>>
      BY <2>1 DEF InHand
    <3>2. Joined \o handed \in Seq(Nat)
      BY <1>1, NumbersConcat
    <3>3. (Joined \o handed) \o <<>> = Joined \o handed
      BY <3>2, NumbersConcat
    <3>4. Joined' \o InHand' = Joined \o InHand /\ Joined \o InHand \in Seq(Nat)
      BY <2>3, <3>1, <3>2, <3>3
    <3>5. ReadingInv
      BY DEF RunningInv
    <3>6. CASE UNCHANGED questions
      <4>1. Reading' = Reading
        BY <3>4, <3>6 DEF Reading
      <4>2. reset' = "no" => reset = "no"
        BY <2>1
      <4>. QED
        BY <2>1, <3>5, <4>1, <4>2, ReadingGoesOn
    <3>7. CASE Hi!CutOff /\ ~HiOpen
      BY <2>1, <3>4, <3>5, <3>7, ReadingCutOff
    <3>. QED
      BY <2>1, <3>6, <3>7
  <2>5. hiClient # "terminated"
    BY <2>1 DEF RunningInv
  <2>6. ASSUME lesson = 11, command # "close"
        PROVE  printed' \o replies' = [k \in 1 .. Answers |-> answered[k][1]]'
    <3>1. HiOpen /\ printed \o replies = [k \in 1 .. Answers |-> answered[k][1]]
      BY <2>6 DEF RunningInv
    <3>2. PICK h \in Nat : h = handed[1] /\ replies' = Append(replies, h) /\ printed' = printed
      BY <2>1, <3>1
    <3>3. printed' \o replies' = Append(printed \o replies, h)
      BY <1>1, <3>2, NumbersAtEnd
    <3>4. PICK a : a = Append(answered, handed)
      OBVIOUS
    <3>5. Len(a) = Answers + 1 /\ a[Answers + 1][1] = h /\ \A k \in 1 .. Answers : a[k][1] = answered[k][1]
      BY <2>2, <3>2, <3>4
    <3>6. PICK s, t : s = printed \o replies /\ t = [k \in 1 .. Len(a) |-> a[k][1]]
      OBVIOUS
    <3>7. Answers \in Nat
      BY <1>1 DEF Answers
    <3>8. /\ s \in Seq(Nat) /\ Len(s) = Answers /\ \A k \in 1 .. Answers : s[k] = answered[k][1]
      <4>1. s \in Seq(Nat)
        BY <1>1, <3>6, NumbersConcat
      <4>. QED
        BY <3>1, <3>6, <3>7, <4>1
    <3>9. /\ Append(s, h) \in Seq(Nat) /\ Len(Append(s, h)) = Len(s) + 1
          /\ \A k \in 1 .. Len(s) : Append(s, h)[k] = s[k]
          /\ Append(s, h)[Len(s) + 1] = h
      BY <3>2, <3>8, NumbersAppend
    <3>10. \A k \in 1 .. Answers + 1 : Append(s, h)[k] = a[k][1] /\ Append(s, h)[k] \in Nat
      <4>1. \A k \in 1 .. Answers + 1 : k \in 1 .. Answers \/ k = Answers + 1
        BY <3>7
      <4>2. \A k \in 1 .. Answers + 1 : Append(s, h)[k] = a[k][1]
        BY <3>5, <3>8, <3>9, <4>1
      <4>3. \A k \in 1 .. Answers + 1 : Append(s, h)[k] \in Nat
        BY <3>8, <3>9
      <4>. QED
        BY <4>2, <4>3
    <3>11. Append(s, h) = t
      <4>1. PICK u : u = Append(s, h)
        OBVIOUS
      <4>2. u \in Seq(Nat) /\ Len(u) = Answers + 1 /\ \A k \in 1 .. Answers + 1 : u[k] = a[k][1] /\ a[k][1] \in Nat
        BY <3>8, <3>9, <3>10, <4>1
      <4>3. t \in Seq(Nat) /\ Len(t) = Answers + 1 /\ \A k \in 1 .. Answers + 1 : t[k] = a[k][1]
        BY <3>5, <3>6, <3>7, <4>2
      <4>4. Len(u) = Len(t) /\ \A k \in 1 .. Len(u) : u[k] = t[k]
        BY <4>2, <4>3
      <4>5. u = t
        BY <4>2, <4>3, <4>4, SeqEqual
      <4>. QED
        BY <4>1, <4>5
    <3>12. [k \in 1 .. Answers |-> answered[k][1]]' = t
      BY <2>1, <3>4, <3>6 DEF Answers
    <3>. QED
      BY <3>3, <3>6, <3>11, <3>12
  <2>. QED
    BY <2>1, <2>4, <2>5, <2>6 DEF RunningInv, HiOpen
<1>7. CASE Hi!SendLine
  <2>1. /\ hiClient = "type" /\ hiClient' = "type" /\ hiServer # "exited"
        /\ typedLines' = typedLines + 1 /\ questions' = Append(questions, typedLines + 1)
        /\ UNCHANGED <<lesson, hiServer, handed, replies, command, reset, answered, printed>>
    BY <1>7, SendLineAdds DEF InTurn
  <2>2. Reading' = Upto(typedLines')
    <3>1. reset = "no"
      BY <2>1 DEF OpenInv, HiOpen
    <3>2. Joined \o InHand \o questions = Upto(typedLines) /\ InHand' = InHand
      BY <2>1, <3>1 DEF RunningInv, ReadingInv, Reading, InHand
    <3>3. PICK j : j = Joined \o InHand
      OBVIOUS
    <3>4. j \in Seq(Nat) /\ typedLines + 1 \in Nat
      BY <1>1, <1>2, <3>3, NumbersConcat
    <3>5. j \o Append(questions, typedLines + 1) = Append(j \o questions, typedLines + 1)
      BY <1>1, <3>4, NumbersAtEnd
    <3>6. Append(Upto(typedLines), typedLines + 1) = Upto(typedLines + 1)
      BY <1>1, UptoProperties
    <3>7. Reading' = j \o Append(questions, typedLines + 1)
      BY <1>3, <2>1, <3>2, <3>3 DEF Reading
    <3>. QED
      BY <2>1, <3>2, <3>3, <3>5, <3>6, <3>7
  <2>3. ReadingInv'
    <3>1. typedLines' \in 0 .. typedLines'
      BY <1>1, <2>1
    <3>. QED
      BY <2>2, <3>1 DEF ReadingInv, Upto
  <2>. QED
    BY <1>3, <2>1, <2>3 DEF RunningInv, HiOpen
<1>8. CASE Hi!PrintAnswer
  <2>1. /\ lesson # 13 /\ hiClient \in {"type", "quiet", "wait"}
        /\ printed' \o replies' = printed \o replies /\ hiClient' = hiClient
        /\ UNCHANGED <<lesson, typedLines, questions, hiServer, handed, command, reset, answered>>
    BY <1>8, PrintAnswerMoves
  <2>2. InHand' = InHand
    BY <2>1 DEF InHand
  <2>3. ReadingInv'
    BY <1>3, <2>1, <2>2, ReadingGoesOn DEF Reading, RunningInv
  <2>. QED
    BY <1>3, <2>1, <2>3 DEF RunningInv, HiOpen
<1>9. CASE HiLeaves
  <2>1. /\ ~HiOpen' /\ replies' = <<>> /\ hiClient' # "terminated"
        /\ replies = <<>> => UNCHANGED <<questions, reset>>
        /\ replies # <<>> => reset' = "untold" /\ Hi!CutOff
        /\ \/ lesson = 11 /\ hiClient' = "asleep" /\ command' = "close"
           \/ lesson # 11 /\ command' # "close"
        /\ UNCHANGED <<lesson, typedLines, hiServer, handed, answered, printed>>
    BY <1>9, LeavesMove
  <2>2. InHand' = InHand
    BY <2>1 DEF InHand
  <2>3. Joined' \o InHand' = Joined \o InHand /\ Joined \o InHand \in Seq(Nat)
    BY <1>1, <1>2, <1>3, <2>1, <2>2, NumbersConcat
  <2>4. ReadingInv
    BY DEF RunningInv
  <2>5. ReadingInv'
    <3>1. CASE replies = <<>>
      <4>1. Reading' = Reading
        BY <2>1, <2>3, <3>1 DEF Reading
      <4>. QED
        BY <2>1, <2>4, <3>1, <4>1, ReadingGoesOn
    <3>2. CASE replies # <<>>
      BY <2>1, <2>3, <2>4, <3>2, ReadingCutOff
    <3>. QED
      BY <3>1, <3>2
  <2>6. questions = <<>> => questions' = <<>>
    BY <2>1, CutOffLeaves
  <2>. QED
    BY <1>3, <2>1, <2>5, <2>6 DEF RunningInv, HiOpen
<1>10. CASE HiEnds
  <2>1. UNCHANGED <<lesson, typedLines, questions, handed, replies, reset, answered, printed>>
    BY <1>10, EndsMoveNothing
  <2>2. \/ hiServer = "read" /\ hiServer' = "exited" /\ questions = <<>> /\ UNCHANGED <<hiClient, command>>
        \/ /\ hiServer = "exited" /\ hiClient \in {"type", "quiet", "wait"} /\ replies = <<>>
           /\ hiClient' = "terminated" /\ lesson # 13 /\ UNCHANGED <<hiServer, command>>
        \/ /\ lesson = 11 /\ hiClient = "type" /\ hiClient' = "quiet" /\ command' = "shutdown"
           /\ UNCHANGED hiServer
    BY <1>10 DEF HiEnds, Hi!ReadEnd, Hi!ReadClosed, Hi!ServerTerminated, Hi!Reads, Hi!NeverReads,
                 Hi!Shutdown, Hi!Stays, Hi!KillServer, InTurn
  <2>3. InHand' = InHand
    BY <2>1, <2>2 DEF InHand
  <2>4. hiClient' = "terminated" /\ hiClient # "terminated" => Len(printed) = Answers
    <3>. SUFFICES ASSUME hiClient' = "terminated", hiClient # "terminated" PROVE Len(printed) = Answers
      OBVIOUS
    <3>1. replies = <<>> /\ lesson = 11 /\ hiClient # "asleep"
      BY <2>2 DEF HiTypes, InTurn
    <3>2. printed \o replies = [k \in 1 .. Answers |-> answered[k][1]]
      BY <3>1 DEF RunningInv
    <3>3. printed \o <<>> = printed
      BY <1>1, NumbersConcat
    <3>4. Answers \in Nat
      BY <1>1 DEF Answers
    <3>5. printed = [k \in 1 .. Answers |-> answered[k][1]]
      BY <3>1, <3>2, <3>3
    <3>6. DOMAIN printed = 1 .. Answers
      BY <3>5
    <3>7. DOMAIN printed = 1 .. Len(printed) /\ Len(printed) \in Nat
      BY <1>1
    <3>. QED
      BY <3>4, <3>6, <3>7
  <2>5. ReadingInv'
    BY <1>3, <2>1, <2>3, ReadingGoesOn DEF Reading, RunningInv
  <2>. QED
    BY <1>3, <2>1, <2>2, <2>4, <2>5 DEF RunningInv, HiOpen
<1>. QED
  BY <1>4, <1>5, <1>6, <1>7, <1>8, <1>9, <1>10, HiCases

\* chapter07 and chapter17: what the one line under way does to the history.
WaitingHistory ==
  /\ \A k \in 1 .. Len(printed) : printed[k] = k
  /\ \A k \in 1 .. Answers : answered[k] = <<k>>
  /\ Joined = Upto(Answers)

LEMMA OneLine ==
  ASSUME NEW n \in Nat
  PROVE  /\ <<n>> \in Seq(Nat) /\ Len(<<n>>) = 1 /\ <<n>>[1] = n /\ <<n>> # <<>>
         /\ Head(<<n>>) = n /\ Tail(<<n>>) = <<>> /\ Append(<<>>, n) = <<n>>
BY NumbersAppend, EmptySeq

LEMMA WaitingStep ==
  HiTypes /\ WaysInv /\ OpenInv /\ InTurn /\ WaitingInv /\ Hi!Next => WaitingInv'
<1>. SUFFICES ASSUME HiTypes, WaysInv, OpenInv, InTurn, WaitingInv, Hi!Next PROVE WaitingInv'
  OBVIOUS
<1>1. /\ questions \in Seq(Nat) /\ handed \in Seq(Nat) /\ replies \in Seq(Nat) /\ printed \in Seq(Nat)
      /\ answered \in Seq(Seq(Nat)) /\ typedLines \in Nat /\ Answers \in Nat /\ Len(printed) \in Nat
  BY DEF HiTypes, Answers
<1>2. ASSUME answered' = answered PROVE Joined' = Joined /\ Answers' = Answers /\ Upto(Answers)' = Upto(Answers)
  BY <1>2 DEF Joined, Answers, Upto
<1>3. /\ hiClient \in {"type", "wait", "terminated", "exited"} /\ command \in {"none", "quit", "kill"}
      /\ hiServer \in {"read", "write", "exited"} /\ lesson \in {7, 17}
  BY DEF WaysInv, HiTypes, InTurn
<1>4. CASE Hi!ReadLines
  <2>1. /\ questions # <<>> /\ hiServer = "read" /\ hiServer' = "write"
        /\ Len(questions) = 1 => handed' = questions /\ questions' = <<>>
        /\ UNCHANGED <<lesson, hiClient, typedLines, replies, command, reset, answered, printed>>
    BY <1>4, ReadLinesTakes
  <2>2. questions = <<typedLines>> /\ replies = <<>> /\ Answers + 1 = typedLines
    BY <2>1 DEF WaitingInv
  <2>3. Len(questions) = 1
    BY <1>1, <2>2, OneLine
  <2>4. handed' = <<typedLines>> /\ questions' = <<>>
    BY <2>1, <2>2, <2>3
  <2>5. hiClient # "type" /\ ~(hiClient = "exited" /\ command # "kill")
    BY <2>1 DEF WaitingInv
  <2>. QED
    BY <1>2, <2>1, <2>2, <2>4, <2>5 DEF WaitingInv, HiOpen
<1>5. CASE Hi!ReadError
  BY <1>3, <1>5 DEF Hi!ReadError
<1>6. CASE Hi!Reply \/ Hi!Echo
  <2>1. /\ hiServer = "write" /\ hiServer' = "read" /\ answered' = Append(answered, handed)
        /\ ~HiOpen => replies' = replies /\ (UNCHANGED questions \/ Hi!CutOff)
        /\ HiOpen => UNCHANGED questions
        /\ HiOpen /\ Len(handed) = 1 => replies' = Append(replies, handed[1])
        /\ UNCHANGED <<lesson, hiClient, typedLines, handed, command, printed>>
    BY <1>6, ReplyEffect
  <2>2. handed = <<typedLines>> /\ replies = <<>> /\ questions = <<>> /\ Answers + 1 = typedLines
    BY <2>1 DEF WaitingInv
  <2>3. Len(handed) = 1 /\ handed[1] = typedLines /\ Append(<<>>, typedLines) = <<typedLines>>
        /\ <<typedLines>> # <<>> /\ Len(<<typedLines>>) = 1
    BY <1>1, <2>2, OneLine
  <2>4. replies' = IF HiOpen THEN <<typedLines>> ELSE <<>>
    BY <2>1, <2>2, <2>3
  <2>5. /\ Len(Append(answered, handed)) = Answers + 1
        /\ \A k \in 1 .. Answers : Append(answered, handed)[k] = answered[k]
        /\ Append(answered, handed)[Answers + 1] = handed
        /\ Hi!Joined(Append(answered, handed)) = Joined \o handed
    BY <1>1, Answering
  <2>6. Answers' = Answers + 1 /\ Answers' = typedLines
    BY <2>1, <2>2, <2>5 DEF Answers
  <2>7. \A k \in 1 .. Answers' : answered'[k] = <<k>>
    <3>1. \A k \in 1 .. Answers + 1 : k \in 1 .. Answers \/ k = Answers + 1
      BY <1>1
    <3>2. \A k \in 1 .. Answers : answered[k] = <<k>>
      BY DEF WaitingInv
    <3>. QED
      BY <2>1, <2>2, <2>5, <2>6, <3>1, <3>2
  <2>8. Joined' = Upto(Answers')
    <3>1. Joined' = Joined \o handed
      BY <2>1, <2>5, JoinedIs
    <3>2. Joined = Upto(Answers)
      BY DEF WaitingInv
    <3>3. /\ Upto(Answers) \in Seq(Nat)
          /\ Append(Upto(Answers), Answers + 1) = Upto(Answers + 1)
      BY <1>1, UptoProperties
    <3>4. Append(Upto(Answers), Answers + 1) = Upto(Answers) \o <<Answers + 1>>
      BY <1>1, <3>3, NumbersAppend
    <3>. QED
      BY <2>2, <2>6, <3>1, <3>2, <3>3, <3>4
  <2>9. hiClient # "type" /\ ~(hiClient = "exited" /\ command # "kill")
    BY <2>1 DEF WaitingInv
  <2>10. hiClient = "wait" => typedLines = Len(printed) + 1 /\ HiOpen
    BY DEF WaitingInv, HiOpen
  <2>11. Upto(Answers)' = Upto(Answers')
    BY DEF Upto
  <2>12. hiClient' = "wait" => typedLines' = Len(printed') + 1 /\ Answers' = Len(printed') + Len(replies')
    <3>1. Len(replies') = 1 \/ ~HiOpen
      BY <2>3, <2>4
    <3>. QED
      BY <1>1, <2>1, <2>6, <2>10, <3>1
  <2>. QED
    <3>1. WaitingHistory'
      BY <2>1, <2>7, <2>8, <2>11 DEF WaitingInv, WaitingHistory
    <3>2. hiClient' # "type" /\ hiServer' = "read" /\ questions' = <<>> /\ typedLines' = typedLines
      BY <2>1, <2>2, <2>9, CutOffLeaves
    <3>3. hiClient' \in {"terminated", "exited"} => Len(printed') \in {typedLines', typedLines' - 1}
      BY <2>1 DEF WaitingInv
    <3>4. replies' # <<>> => replies' = <<typedLines'>>
      BY <2>1, <2>4
    <3>5. command' = "none" => hiClient' \in {"type", "wait"} /\ (hiClient' = "wait" => replies' # <<>>)
      BY <2>1, <2>3, <2>4, <2>10 DEF WaitingInv
    <3>6. hiClient' = "terminated" => command' = "kill"
      BY <2>1 DEF WaitingInv
    <3>7. command' = "quit" => hiClient' = "exited"
      BY <2>1 DEF WaitingInv
    <3>8. ~(hiClient' = "exited" /\ command' # "kill")
      BY <2>1, <2>9
    <3>. QED
      BY <1>1, <2>6, <2>12, <3>1, <3>2, <3>3, <3>4, <3>5, <3>6, <3>7, <3>8
      DEF WaitingInv, WaitingHistory
<1>7. CASE Hi!SendLine
  <2>1. /\ hiClient = "type" /\ hiClient' = "wait"
        /\ typedLines' = typedLines + 1 /\ questions' = Append(questions, typedLines + 1)
        /\ UNCHANGED <<lesson, hiServer, handed, replies, command, reset, answered, printed>>
    BY <1>7, SendLineAdds
  <2>2. /\ typedLines = Len(printed) /\ Answers = typedLines
        /\ replies = <<>> /\ questions = <<>> /\ hiServer # "write"
    BY <2>1 DEF WaitingInv
  <2>3. questions' = <<typedLines + 1>> /\ questions' # <<>>
    BY <1>1, <2>1, <2>2, OneLine
  <2>4. Answers' + 1 = typedLines' /\ typedLines' = Len(printed') + 1 /\ Answers' = Len(printed') + Len(replies')
    <3>1. Len(replies') = 0
      BY <2>1, <2>2
    <3>. QED
      BY <1>1, <1>2, <2>1, <2>2, <3>1
  <2>5. WaitingHistory' /\ Answers' <= typedLines'
    BY <1>1, <1>2, <2>1, <2>2 DEF WaitingInv, WaitingHistory
  <2>6. questions' = <<typedLines'>> /\ replies' = <<>> /\ hiServer' # "write" /\ hiClient' = "wait"
    BY <2>1, <2>2, <2>3
  <2>7. command' = "none" => hiServer' # "exited"
    BY <2>1 DEF WaitingInv
  <2>8. command' # "quit" /\ (hiServer' = "exited" => command' = "kill")
    BY <2>1 DEF WaitingInv, HiOpen
  <2>. QED
    BY <2>3, <2>4, <2>5, <2>6, <2>7, <2>8 DEF WaitingInv, WaitingHistory
<1>8. CASE Hi!PrintAnswer
  <2>1. /\ replies # <<>> /\ hiClient = "wait" /\ hiClient' = "type"
        /\ replies' = Tail(replies) /\ printed' = Append(printed, Head(replies))
        /\ UNCHANGED <<lesson, typedLines, questions, hiServer, handed, command, reset, answered>>
    BY <1>8, PrintAnswerMoves
  <2>2. replies = <<typedLines>> /\ typedLines = Len(printed) + 1
    BY <2>1 DEF WaitingInv
  <2>3. Answers = Len(printed) + Len(replies)
    BY <2>1 DEF WaitingInv
  <2>4. /\ Head(replies) = typedLines /\ Tail(replies) = <<>> /\ Len(replies) = 1
    BY <1>1, <2>2, OneLine
  <2>5. printed' = Append(printed, typedLines) /\ replies' = <<>>
    BY <2>1, <2>4
  <2>6. /\ Len(Append(printed, typedLines)) = Len(printed) + 1
        /\ \A k \in 1 .. Len(printed) : Append(printed, typedLines)[k] = printed[k]
        /\ Append(printed, typedLines)[Len(printed) + 1] = typedLines
    BY <1>1, NumbersAppend
  <2>7. typedLines' = Len(printed') /\ Answers' = typedLines'
    BY <1>1, <1>2, <2>1, <2>2, <2>3, <2>4, <2>5, <2>6
  <2>8. \A k \in 1 .. Len(printed') : printed'[k] = k
    <3>1. \A k \in 1 .. Len(printed) + 1 : k \in 1 .. Len(printed) \/ k = Len(printed) + 1
      BY <1>1
    <3>2. \A k \in 1 .. Len(printed) : printed[k] = k
      BY DEF WaitingInv
    <3>. QED
      BY <2>2, <2>5, <2>6, <3>1, <3>2
  <2>9. questions = <<>> /\ hiServer # "write"
    BY <2>1 DEF WaitingInv
  <2>10. WaitingHistory' /\ Answers' <= typedLines'
    BY <1>2, <2>1, <2>8 DEF WaitingInv, WaitingHistory
  <2>11. command' # "quit" /\ (hiServer' = "exited" => command' = "kill") /\ (command' = "none" => hiServer' # "exited")
    BY <2>1 DEF WaitingInv, HiOpen
  <2>12. hiClient' = "type" /\ replies' = <<>> /\ questions' = <<>> /\ hiServer' # "write"
    BY <2>1, <2>5, <2>9
  <2>. QED
    BY <2>7, <2>10, <2>11, <2>12 DEF WaitingInv, WaitingHistory
<1>9. CASE HiLeaves
  <2>1. /\ replies' = <<>>
        /\ replies = <<>> => UNCHANGED questions
        /\ replies # <<>> => Hi!CutOff
        /\ \/ hiClient = "type" /\ hiClient' = "exited" /\ command' = "quit"
           \/ hiClient \in {"type", "wait"} /\ hiClient' = "exited" /\ command' = "kill"
        /\ UNCHANGED <<lesson, typedLines, hiServer, handed, answered, printed>>
    BY <1>3, <1>9, LeavesMove
  <2>2. replies # <<>> => questions = <<>>
    BY DEF WaitingInv
  <2>3. questions' = questions
    BY <2>1, <2>2, CutOffLeaves
  <2>4. WaitingHistory' /\ Answers' <= typedLines'
    BY <1>2, <2>1 DEF WaitingInv, WaitingHistory
  <2>5. CASE hiClient = "type" /\ command' = "quit"
    <3>1. /\ typedLines = Len(printed) /\ Answers = typedLines /\ questions = <<>> /\ hiServer # "write"
      BY <2>5 DEF WaitingInv
    <3>. QED
      BY <1>2, <2>1, <2>3, <2>4, <2>5, <3>1 DEF WaitingInv, WaitingHistory, HiOpen
  <2>6. CASE command' = "kill"
    <3>1. Len(printed) \in {typedLines, typedLines - 1}
      <4>1. typedLines = Len(printed) \/ typedLines = Len(printed) + 1
        BY <2>1 DEF WaitingInv
      <4>. QED
        BY <1>1, <4>1
    <3>. QED
      BY <1>2, <2>1, <2>3, <2>4, <2>6, <3>1 DEF WaitingInv, WaitingHistory, HiOpen
  <2>. QED
    BY <2>1, <2>5, <2>6
<1>10. CASE HiEnds
  <2>1. UNCHANGED <<lesson, typedLines, questions, handed, replies, reset, answered, printed>>
    BY <1>10, EndsMoveNothing
  <2>2. WaitingHistory' /\ Answers' <= typedLines'
    BY <1>2, <2>1 DEF WaitingInv, WaitingHistory
  <2>3. CASE Hi!ReadEnd \/ Hi!ReadClosed
    <3>1. /\ hiServer = "read" /\ hiServer' = "exited" /\ questions = <<>> /\ UNCHANGED <<hiClient, command>>
      BY <2>3 DEF Hi!ReadEnd, Hi!ReadClosed
    <3>2. command # "none" /\ (HiOpen => command = "kill")
      <4>1. CASE Hi!ReadEnd
        BY <1>3, <4>1 DEF Hi!ReadEnd, WaitingInv, HiOpen
      <4>2. CASE Hi!ReadClosed
        BY <4>2 DEF Hi!ReadClosed, Hi!ClientOpen, WaitingInv, HiOpen
      <4>. QED
        BY <2>3, <4>1, <4>2
    <3>. QED
      BY <1>2, <2>1, <2>2, <3>1, <3>2 DEF WaitingInv, WaitingHistory, HiOpen
  <2>4. CASE Hi!ServerTerminated
    <3>1. /\ hiServer = "exited" /\ hiClient = "wait" /\ hiClient' = "terminated"
          /\ UNCHANGED <<hiServer, command>>
      BY <1>3, <2>4 DEF Hi!ServerTerminated, Hi!Reads, Hi!WaitsEach
    <3>2. command = "kill" /\ typedLines = Len(printed) + 1
      BY <3>1 DEF WaitingInv, HiOpen
    <3>3. Len(printed) = typedLines - 1
      BY <1>1, <3>2
    <3>. QED
      BY <1>2, <2>1, <2>2, <3>1, <3>2, <3>3 DEF WaitingInv, WaitingHistory, HiOpen
  <2>5. CASE Hi!Shutdown
    BY <1>3, <2>5 DEF Hi!Shutdown
  <2>6. CASE Hi!KillServer
    <3>1. hiServer' = "exited" /\ command' = "kill" /\ UNCHANGED hiClient
      BY <2>6 DEF Hi!KillServer
    <3>. QED
      BY <1>2, <2>1, <2>2, <3>1 DEF WaitingInv, WaitingHistory, HiOpen
  <2>. QED
    BY <1>10, <2>3, <2>4, <2>5, <2>6 DEF HiEnds
<1>. QED
  BY <1>4, <1>5, <1>6, <1>7, <1>8, <1>9, <1>10, HiCases

LEMMA HiInit == Hi!Init => HiInv
<1>. SUFFICES ASSUME Hi!Init PROVE HiInv
  OBVIOUS
<1>1. /\ lesson \in {7, 11, 13, 17} /\ hiServer = "read" /\ hiClient = "type" /\ command = "none"
      /\ typedLines = 0 /\ reset = "no" /\ questions = <<>> /\ handed = <<>> /\ replies = <<>>
      /\ printed = <<>> /\ answered = <<>>
  BY DEF Hi!Init, Hi!AcceptedOne, Hi!Connected
<1>2. /\ <<>> \in Seq(Nat) /\ <<>> \in Seq(Seq(Nat)) /\ <<>> \o <<>> = <<>> /\ Len(<<>>) = 0
  BY NumbersConcat
<1>3. Joined = <<>> /\ InHand = <<>> /\ Answers = 0
  BY <1>1, JoinedNone DEF Joined, InHand, Answers
<1>4. Upto(0) = <<>> /\ Upto(typedLines) = <<>> /\ [k \in 1 .. Answers |-> answered[k][1]] = <<>>
  BY <1>1, <1>3 DEF Upto
<1>5. HiTypes /\ WaysInv /\ OpenInv
  BY <1>1, <1>2 DEF HiTypes, WaysInv, OpenInv, InTurn
<1>6. RunningInv
  <2>1. Reading = Upto(0) /\ 0 \in 0 .. typedLines
    BY <1>1, <1>2, <1>3, <1>4 DEF Reading
  <2>2. ReadingInv
    BY <1>1, <2>1 DEF ReadingInv
  <2>. QED
    BY <1>1, <1>2, <1>3, <1>4, <2>2 DEF RunningInv, HiOpen
<1>7. WaitingInv
  <2>1. /\ \A k \in 1 .. Len(printed) : printed[k] = k
        /\ \A k \in 1 .. Answers : answered[k] = <<k>>
        /\ typedLines = Len(printed) /\ Answers = typedLines
    BY <1>1, <1>3
  <2>2. Joined = Upto(Answers)
    BY <1>3, <1>4
  <2>. QED
    BY <1>1, <2>1, <2>2 DEF WaitingInv, HiOpen
<1>. QED
  BY <1>5, <1>6, <1>7 DEF HiInv

LEMMA HiStep == HiInv /\ [Hi!Next]_hiVars => HiInv'
<1>. SUFFICES ASSUME HiInv, [Hi!Next]_hiVars PROVE HiInv'
  OBVIOUS
<1>1. HiTypes /\ WaysInv /\ OpenInv /\ (InTurn => WaitingInv) /\ (~InTurn => RunningInv)
  BY DEF HiInv
<1>2. CASE UNCHANGED hiVars
  <2>1. /\ Joined' = Joined /\ Answers' = Answers /\ HiOpen' = HiOpen
        /\ InTurn' = InTurn /\ Upto(Answers)' = Upto(Answers) /\ Reading' = Reading
    BY <1>2 DEF hiVars, InTurn, HiOpen, Joined, InHand, Reading, Answers, Upto
  <2>2. HiTypes' /\ WaysInv' /\ OpenInv'
    BY <1>1, <1>2, <2>1 DEF hiVars, HiTypes, WaysInv, OpenInv
  <2>3. InTurn => WaitingInv'
    BY <1>1, <1>2, <2>1 DEF hiVars, WaitingInv
  <2>4. ~InTurn => RunningInv'
    <3>1. ReadingInv => ReadingInv'
      BY <1>2, <2>1, ReadingGoesOn DEF hiVars
    <3>. QED
      BY <1>1, <1>2, <2>1, <3>1 DEF hiVars, RunningInv
  <2>. QED
    BY <2>1, <2>2, <2>3, <2>4 DEF HiInv
<1>3. CASE Hi!Next
  <2>1. HiTypes' /\ WaysInv' /\ OpenInv'
    BY <1>1, <1>3, HiTypesStep
  <2>2. lesson' = lesson
    BY <1>3 DEF Hi!Next, Hi!HiServerStep, Hi!HiClientStep, Hi!ReadLines, Hi!ReadError, Hi!ReadEnd, Hi!Reply,
                Hi!Echo, Hi!ReadClosed, Hi!SendLine, Hi!PrintAnswer, Hi!ServerTerminated, Hi!Shutdown,
                Hi!Close, Hi!Quit, Hi!Departs, Hi!KillServer, Hi!KillClient
  <2>3. InTurn' => WaitingInv'
    BY <1>1, <1>3, <2>2, WaitingStep DEF InTurn
  <2>4. ~InTurn' => RunningInv'
    BY <1>1, <1>3, <2>2, RunningStep DEF InTurn
  <2>. QED
    BY <2>1, <2>3, <2>4 DEF HiInv
<1>. QED
  BY <1>2, <1>3

\* Where each answer is waited for, the lines sent are those answered and the one
\* under way, and the answers that came are their numbers.
LEMMA WaitingReads ==
  ASSUME HiTypes, WaysInv, WaitingInv, InTurn
  PROVE  \E m \in 0 .. typedLines : Reading = Upto(m) /\ (command # "kill" => m = typedLines)
<1>1. /\ printed \in Seq(Nat) /\ typedLines \in Nat /\ Answers \in Nat /\ Len(printed) \in Nat
      /\ replies \in Seq(Nat)
  BY DEF HiTypes, Answers
<1>2. command # "kill" => hiClient \in {"type", "wait", "exited"}
  <2>1. hiClient \in {"type", "wait", "terminated", "exited"}
    BY DEF WaysInv
  <2>2. command # "kill" => hiClient # "terminated"
    BY DEF WaitingInv
  <2>. QED
    BY <2>1, <2>2
<1>3. Joined = Upto(Answers) /\ Joined \in Seq(Nat)
  BY <1>1, UptoProperties DEF WaitingInv
<1>4. Joined \o <<>> = Joined /\ printed \o <<>> = printed
  BY <1>1, <1>3, NumbersConcat
<1>5. /\ Append(Upto(Answers), Answers + 1) = Upto(Answers + 1)
      /\ Append(Upto(Answers), Answers + 1) = Upto(Answers) \o <<Answers + 1>>
  <2>1. Upto(Answers) \in Seq(Nat) /\ Append(Upto(Answers), Answers + 1) = Upto(Answers + 1)
    BY <1>1, UptoProperties
  <2>2. Append(Upto(Answers), Answers + 1) = Upto(Answers) \o <<Answers + 1>>
    BY <1>1, <2>1, NumbersAppend
  <2>. QED
    BY <2>1, <2>2
<1>6. ASSUME questions # <<>> \/ hiServer = "write"
      PROVE  Reading = Upto(typedLines)
  <2>1. CASE questions # <<>>
    <3>1. InHand = <<>> /\ questions = <<typedLines>> /\ Answers + 1 = typedLines
      BY <2>1 DEF WaitingInv, InHand
    <3>. QED
      BY <1>3, <1>4, <1>5, <3>1 DEF Reading
  <2>2. CASE hiServer = "write"
    <3>1. InHand = <<typedLines>> /\ questions = <<>> /\ Answers + 1 = typedLines
      BY <2>2 DEF WaitingInv, InHand
    <3>2. Joined \o InHand = Upto(typedLines)
      BY <1>3, <1>5, <3>1
    <3>3. Upto(typedLines) \o <<>> = Upto(typedLines)
      BY <1>1, UptoProperties, NumbersConcat
    <3>. QED
      BY <3>1, <3>2, <3>3 DEF Reading
  <2>. QED
    BY <1>6, <2>1, <2>2
<1>7. ASSUME questions = <<>>, hiServer # "write"
      PROVE  Reading = Upto(Answers) /\ (command # "kill" => Answers = typedLines)
  <2>1. InHand = <<>>
    BY <1>7 DEF InHand
  <2>2. ASSUME command # "kill" PROVE Answers = typedLines
    <3>1. CASE hiClient \in {"type", "exited"}
      BY <2>2, <3>1 DEF WaitingInv
    <3>2. CASE hiClient = "wait"
      <4>1. command = "none"
        BY <2>2, <3>2 DEF WaysInv, WaitingInv
      <4>2. replies = <<typedLines>>
        BY <1>7, <3>2, <4>1 DEF WaitingInv
      <4>3. Len(replies) = 1
        BY <1>1, <4>2, OneLine
      <4>4. typedLines = Len(printed) + 1 /\ Answers = Len(printed) + Len(replies)
        BY <3>2 DEF WaitingInv
      <4>. QED
        BY <1>1, <4>3, <4>4
    <3>. QED
      BY <1>2, <2>2, <3>1, <3>2
  <2>. QED
    BY <1>3, <1>4, <1>7, <2>1, <2>2 DEF Reading
<1>8. Answers \in 0 .. typedLines /\ typedLines \in 0 .. typedLines
  BY <1>1 DEF WaitingInv
<1>. QED
  BY <1>6, <1>7, <1>8

LEMMA WaitingAnswers ==
  ASSUME HiTypes, WaysInv, WaitingInv, InTurn, command # "kill"
  PROVE  printed \o replies = [k \in 1 .. Answers |-> answered[k][1]]
<1>1. /\ printed \in Seq(Nat) /\ typedLines \in Nat /\ Answers \in Nat /\ Len(printed) \in Nat
      /\ replies \in Seq(Nat)
  BY DEF HiTypes, Answers
<1>2. hiClient \in {"type", "wait", "exited"}
  <2>1. hiClient \in {"type", "wait", "terminated", "exited"}
    BY DEF WaysInv
  <2>2. hiClient # "terminated"
    BY DEF WaitingInv
  <2>. QED
    BY <2>1, <2>2
<1>3. printed \o <<>> = printed
  BY <1>1, NumbersConcat
<1>4. printed = Upto(Len(printed))
  <2>1. PICK u : u = Upto(Len(printed))
    OBVIOUS
  <2>2. u \in Seq(Nat) /\ Len(u) = Len(printed) /\ \A k \in 1 .. Len(printed) : u[k] = k
    BY <1>1, <2>1, UptoProperties
  <2>3. \A k \in 1 .. Len(printed) : printed[k] = u[k]
    BY <2>2 DEF WaitingInv
  <2>4. printed = u
    BY <1>1, <2>2, <2>3, SeqEqual
  <2>. QED
    BY <2>1, <2>4
<1>5. printed \o replies = Upto(Answers)
  <2>1. CASE replies = <<>>
    <3>1. Answers = Len(printed)
      <4>1. CASE hiClient \in {"type", "exited"}
        BY <4>1 DEF WaitingInv
      <4>2. CASE hiClient = "wait"
        <5>1. Answers = Len(printed) + Len(replies) /\ Len(replies) = 0
          BY <2>1, <4>2 DEF WaitingInv
        <5>. QED
          BY <1>1, <5>1
      <4>. QED
        BY <1>2, <4>1, <4>2
    <3>. QED
      BY <1>3, <1>4, <2>1, <3>1
  <2>2. CASE replies # <<>>
    <3>1. hiClient = "wait" /\ replies = <<typedLines>>
      BY <1>2, <2>2 DEF WaitingInv
    <3>2. typedLines = Len(printed) + 1 /\ Answers = Len(printed) + Len(replies)
      BY <3>1 DEF WaitingInv
    <3>3. Len(replies) = 1
      BY <1>1, <3>1, OneLine
    <3>4. PICK n \in Nat : n = Len(printed)
      BY <1>1
    <3>5. Answers = n + 1 /\ replies = <<n + 1>>
      BY <3>1, <3>2, <3>3, <3>4
    <3>6. Upto(n) \in Seq(Nat) /\ Append(Upto(n), n + 1) = Upto(n + 1)
      BY UptoProperties
    <3>7. Append(Upto(n), n + 1) = Upto(n) \o <<n + 1>>
      BY <3>6, NumbersAppend
    <3>. QED
      BY <1>4, <3>4, <3>5, <3>6, <3>7
  <2>. QED
    BY <2>1, <2>2
<1>6. [k \in 1 .. Answers |-> answered[k][1]] = Upto(Answers)
  <2>1. \A k \in 1 .. Answers : answered[k] = <<k>>
    BY DEF WaitingInv
  <2>2. \A k \in 1 .. Answers : answered[k][1] = k
    BY <2>1
  <2>. QED
    BY <2>2 DEF Upto
<1>. QED
  BY <1>5, <1>6

\* What HiInv says of the lines and answers is what the client and server promise.
LEMMA HiComeBack == HiInv => Hi!AnswersComeBack
<1>. SUFFICES ASSUME HiInv PROVE Hi!AnswersComeBack
  OBVIOUS
<1>1. HiTypes /\ WaysInv /\ (InTurn => WaitingInv) /\ (~InTurn => RunningInv)
  BY DEF HiInv
<1>2. lesson \in {7, 11, 13, 17} /\ typedLines \in Nat /\ Len(printed) \in Nat
  BY <1>1 DEF HiTypes
<1>3. /\ Len(Reading) <= typedLines /\ \A k \in 1 .. Len(Reading) : Reading[k] = k
      /\ reset = "no" /\ command # "kill" => Len(Reading) = typedLines
  <2>1. PICK m \in 0 .. typedLines :
          Reading = Upto(m) /\ (reset = "no" /\ command # "kill" => m = typedLines)
    <3>1. CASE InTurn
      BY <1>1, <3>1, WaitingReads
    <3>2. CASE ~InTurn
      BY <1>1, <3>2 DEF RunningInv, ReadingInv
    <3>. QED
      BY <3>1, <3>2
  <2>2. m \in Nat /\ m <= typedLines
    BY <1>2
  <2>3. Len(Upto(m)) = m /\ \A k \in 1 .. m : Upto(m)[k] = k
    BY <2>2, UptoProperties
  <2>. QED
    BY <2>1, <2>2, <2>3
<1>4. command \notin {"close", "kill"} /\ lesson # 13 =>
        printed \o replies = [k \in 1 .. Len(answered) |-> Hi!First(answered[k])]
  <2>1. InTurn /\ command # "kill" => printed \o replies = [k \in 1 .. Answers |-> answered[k][1]]
    BY <1>1, WaitingAnswers
  <2>2. lesson = 11 /\ command # "close" => printed \o replies = [k \in 1 .. Answers |-> answered[k][1]]
    BY <1>1 DEF RunningInv, InTurn
  <2>. QED
    BY <1>2, <2>1, <2>2 DEF InTurn, Answers, Hi!First
<1>5. hiClient = "terminated" /\ command # "kill" => Len(printed) = Len(answered) /\ questions = <<>>
  BY <1>1 DEF WaitingInv, RunningInv, Answers
<1>6. InTurn => /\ \A k \in 1 .. Len(printed) : printed[k] = k
                /\ Len(printed) >= typedLines - 1
  <2>1. InTurn => \/ typedLines = Len(printed) \/ typedLines = Len(printed) + 1
                  \/ Len(printed) = typedLines - 1
    BY <1>1 DEF WaitingInv, WaysInv
  <2>2. InTurn => Len(printed) >= typedLines - 1
    BY <1>2, <2>1
  <2>. QED
    BY <1>1, <2>2 DEF WaitingInv
<1>. QED
  BY <1>3, <1>4, <1>5, <1>6
  DEF Hi!AnswersComeBack, Hi!NeverReads, Hi!WaitsEach, InTurn, Reading, Joined, InHand

\* A line that read_line returns has its newline at the end, or fills the buffer.
Ended(l) == l[Len(l)] = "n" \/ Len(l) = Room - 1
OneLineOf(l) == Len(l) \in 1 .. Room - 1 /\ \A j \in 1 .. Len(l) - 1 : l[j] # "n"

LinesEnd(ls, l) ==
  /\ \A k \in 1 .. Len(ls) : OneLineOf(ls[k]) /\ Ended(ls[k])
  /\ Len(l) < Room - 1 /\ \A j \in 1 .. Len(l) : l[j] # "n"

\* Only the last line has no end.
LastOpen(ls) == \A k \in 1 .. Len(ls) : OneLineOf(ls[k]) /\ (Ended(ls[k]) \/ k = Len(ls))

\* No byte is still to come.
AllRead == writerAt # "write" /\ wire = <<>> /\ callAt # "peek"

\* After a carriage return there is no newline, or it is looked for.
ReturnInv ==
  LET n == Len(readIn) IN
  IF callAt = "peek" THEN n # 0 /\ readIn[n] = "r"
  ELSE n # 0 /\ readIn[n] = "r" => AllRead \/ (wire # <<>> /\ wire[1] # "n")

ReadLineInv ==
  routine = "read_line" /\ ~interrupted =>
    /\ Lines!EndsMarked(IF callAt = "peek" THEN Append(Lines!Joined(lines) \o lineBuf, "n")
                        ELSE Lines!Joined(lines) \o lineBuf, readIn)
    /\ ReturnInv
    /\ LinesEnd(lines, lineBuf) \/ (AllRead /\ lineBuf = <<>> /\ LastOpen(lines))

\* The last line of s has not ended; ls are the starts of the lines of s; and l is
\* the one that has not ended, if there is one.
Unfinished(s) == s # <<>> /\ s[Len(s)] # "n"
StartsOf(ls, s, most) ==
  /\ Len(ls) = Lines!Count(s)
  /\ \A k \in 1 .. Len(ls) : ls[k] = Lines!Shortened(Lines!Cut(s)[k], most)
Halfway(ls, l, s, most) ==
  \/ l = <<>> /\ ~Unfinished(s) /\ StartsOf(ls, s, most)
  \/ l # <<>> /\ Unfinished(s) /\ StartsOf(Append(ls, l), s, most)

CutInv ==
  routine = "readLine" =>
    \/ Halfway(lines, lineBuf, readIn, Room - 1)
    \/ lineBuf = <<>> /\ StartsOf(lines, readIn, Room - 1) /\ AllRead

BufferedInv ==
  routine = "read_line_buffered" => forgotten \/ Lines!Joined(lines) \o lineBuf \o chunk = readIn

LinesInv == Lines!LineTypeOK /\ ReadLineInv /\ CutInv /\ BufferedInv
-----------------------------------------------------------------------------
\* The members of A among the first k numbers.
PartOf(A, k) == Cardinality(A \intersect 1 .. k)

LEMMA PartType ==
  ASSUME NEW A, NEW k \in Nat
  PROVE  PartOf(A, k) \in Nat /\ IsFiniteSet(A \intersect 1 .. k)
<1>1. IsFiniteSet(1 .. k)
  BY FS_Interval
<1>2. A \intersect 1 .. k \in SUBSET (1 .. k)
  OBVIOUS
<1>. QED
  BY <1>1, <1>2, FS_Subset, FS_CardinalityType DEF PartOf

LEMMA PartNone == ASSUME NEW A PROVE PartOf(A, 0) = 0
<1>1. A \intersect 1 .. 0 = {}
  OBVIOUS
<1>. QED
  BY <1>1, FS_EmptySet DEF PartOf

LEMMA PartStep ==
  ASSUME NEW A, NEW k \in Nat
  PROVE  PartOf(A, k + 1) = PartOf(A, k) + (IF k + 1 \in A THEN 1 ELSE 0)
<1>1. PICK S : S = A \intersect 1 .. k
  OBVIOUS
<1>2. PICK T : T = A \intersect 1 .. k + 1
  OBVIOUS
<1>3. IsFiniteSet(S) /\ Cardinality(S) \in Nat
  BY <1>1, PartType DEF PartOf
<1>4. PartOf(A, k + 1) = Cardinality(T) /\ PartOf(A, k) = Cardinality(S)
  BY <1>1, <1>2 DEF PartOf
<1>5. CASE k + 1 \in A
  <2>1. T = S \union {k + 1} /\ k + 1 \notin S
    BY <1>1, <1>2, <1>5
  <2>2. Cardinality(T) = Cardinality(S) + 1
    BY <1>3, <2>1, FS_AddElement
  <2>. QED
    BY <1>4, <1>5, <2>2
<1>6. CASE k + 1 \notin A
  <2>1. T = S
    BY <1>1, <1>2, <1>6
  <2>. QED
    BY <1>3, <1>4, <1>6, <2>1
<1>. QED
  BY <1>5, <1>6

LEMMA PartUpTo ==
  ASSUME NEW A, NEW j \in Nat, NEW k \in Nat, j <= k
  PROVE  PartOf(A, j) <= PartOf(A, k)
<1>1. A \intersect 1 .. j \in SUBSET (A \intersect 1 .. k)
  OBVIOUS
<1>2. IsFiniteSet(A \intersect 1 .. k)
  BY PartType
<1>. QED
  BY <1>1, <1>2, FS_Subset DEF PartOf

LEMMA PartAll ==
  ASSUME NEW k \in Nat, NEW A, A \intersect 1 .. k = 1 .. k
  PROVE  PartOf(A, k) = k
<1>1. Cardinality(1 .. k) = k
  BY FS_Interval
<1>. QED
  BY <1>1, Zenon DEF PartOf

\* A member of A has one of the first places in it.
LEMMA PartPlace ==
  ASSUME NEW A, NEW n \in Nat, NEW k \in A \intersect 1 .. n
  PROVE  PartOf(A, k) \in 1 .. PartOf(A, n)
<1>1. k \in Nat /\ k - 1 \in Nat /\ (k - 1) + 1 = k /\ k <= n
  OBVIOUS
<1>2. PartOf(A, k - 1) \in Nat /\ PartOf(A, k) \in Nat /\ PartOf(A, n) \in Nat
  BY <1>1, PartType
<1>3. PartOf(A, k) = PartOf(A, k - 1) + 1
  BY <1>1, PartStep
<1>4. PartOf(A, k) <= PartOf(A, n)
  BY <1>1, PartUpTo
<1>. QED
  BY <1>2, <1>3, <1>4

LEMMA SameCards == \A S : Lines!Cardinality(S) = Cardinality(S)
BY DEF Cardinality, Lines!Cardinality

-----------------------------------------------------------------------------
\* The bytes that are kept of s, in front of one more byte c.
LEMMA KeptIs ==
  ASSUME NEW s \in Seq(Lines!Chars)
  PROVE  /\ Lines!Kept(s) \in SUBSET (1 .. Len(s))
         /\ Lines!Cardinality(Lines!Kept(s)) = PartOf(Lines!Kept(s), Len(s))
         /\ \A p : Lines!Cardinality(Lines!Kept(s) \intersect 1 .. p) = PartOf(Lines!Kept(s), p)
<1>1. Lines!Kept(s) \in SUBSET (1 .. Len(s))
  BY DEF Lines!Kept
<1>2. Lines!Kept(s) \intersect 1 .. Len(s) = Lines!Kept(s)
  BY <1>1
<1>. QED
  BY <1>1, <1>2, SameCards DEF PartOf

LEMMA KeptAppend ==
  ASSUME NEW s \in Seq(Lines!Chars), NEW c \in Lines!Chars, NEW m, m = Len(s), NEW p \in 1 .. m + 1
  PROVE  p \in Lines!Kept(Append(s, c)) <=>
           \/ p = m + 1
           \/ p \in Lines!Kept(s) /\ ~(p = m /\ s[m] = "r" /\ c = "n")
<1>1. PICK t : t = Append(s, c)
  OBVIOUS
<1>2. m \in Nat /\ Len(t) = m + 1 /\ t[m + 1] = c /\ \A k \in 1 .. m : t[k] = s[k]
  BY <1>1, AppendProperties, LenProperties
<1>3. p \in Lines!Kept(t) <=> (t[p] = "r" /\ p < m + 1 => t[p + 1] # "n")
  BY <1>2 DEF Lines!Kept
<1>4. p \in Lines!Kept(s) <=> p # m + 1 /\ (s[p] = "r" /\ p < m => s[p + 1] # "n")
  BY <1>2 DEF Lines!Kept
<1>5. CASE p = m + 1
  BY <1>1, <1>2, <1>3, <1>5
<1>6. CASE p = m
  <2>1. p # m + 1 /\ ~(p < m) /\ p < m + 1 /\ t[p] = s[m] /\ t[p + 1] = c
    BY <1>2, <1>6
  <2>. QED
    BY <1>1, <1>3, <1>4, <1>6, <2>1
<1>7. CASE p < m
  <2>1. p # m + 1 /\ p # m /\ p < m + 1 /\ t[p] = s[p] /\ t[p + 1] = s[p + 1]
    BY <1>2, <1>7
  <2>. QED
    BY <1>1, <1>3, <1>4, <1>7, <2>1
<1>. QED
  BY <1>2, <1>5, <1>6, <1>7

\* One more byte makes one more in the text.
LEMMA EndsAppend ==
  ASSUME NEW s \in Seq(Lines!Chars), NEW c \in Lines!Chars, NEW t \in Seq(Lines!Chars),
         NEW b \in Lines!Chars, b = Lines!Marked(c),
         s = <<>> \/ s[Len(s)] # "r" \/ c # "n", Lines!EndsMarked(t, s)
  PROVE  Lines!EndsMarked(Append(t, b), Append(s, c))
<1>1. PICK m : m = Len(s)
  OBVIOUS
<1>2. PICK S : S = Append(s, c)
  OBVIOUS
<1>3. PICK T : T = Append(t, b)
  OBVIOUS
<1>4. PICK K : K = Lines!Kept(s)
  OBVIOUS
<1>5. PICK L : L = Lines!Kept(S)
  OBVIOUS
<1>6. m \in Nat /\ S \in Seq(Lines!Chars) /\ Len(S) = m + 1 /\ S[m + 1] = c /\ \A k \in 1 .. m : S[k] = s[k]
  BY <1>1, <1>2, AppendProperties, LenProperties
<1>7. /\ K \in SUBSET (1 .. m) /\ Len(t) = PartOf(K, m) /\ \A p \in K : t[PartOf(K, p)] = Lines!Marked(s[p])
  BY <1>1, <1>4, KeptIs DEF Lines!EndsMarked
<1>8. PICK n : n = PartOf(K, m)
  OBVIOUS
<1>9. n \in Nat /\ Len(T) = n + 1 /\ T[n + 1] = b /\ \A k \in 1 .. n : T[k] = t[k]
  BY <1>3, <1>6, <1>7, <1>8, AppendProperties, PartType
<1>10. L = K \union {m + 1}
  <2>1. L \in SUBSET (1 .. m + 1)
    BY <1>5, <1>6, KeptIs
  <2>2. ~(m \in K /\ s[m] = "r" /\ c = "n")
    <3>1. s # <<>> \/ m \notin K
      BY <1>1, <1>7
    <3>. QED
      BY <1>1, <3>1
  <2>3. \A p \in 1 .. m + 1 : p \in L <=> p = m + 1 \/ p \in K
    BY <1>1, <1>2, <1>4, <1>5, <2>2, KeptAppend
  <2>4. \A p : p \in L => p \in K \union {m + 1}
    BY <2>1, <2>3
  <2>5. \A p : p \in K \union {m + 1} => p \in L
    BY <1>6, <1>7, <2>3
  <2>. QED
    BY <2>4, <2>5
<1>11. \A p \in 1 .. m : PartOf(L, p) = PartOf(K, p)
  <2>1. \A p \in 1 .. m : L \intersect 1 .. p = K \intersect 1 .. p
    BY <1>6, <1>10
  <2>. QED
    BY <2>1 DEF PartOf
<1>12. PartOf(L, m + 1) = n + 1
  <2>1. PartOf(L, m) = PartOf(K, m)
    <3>1. L \intersect 1 .. m = K \intersect 1 .. m
      BY <1>6, <1>10
    <3>. QED
      BY <3>1 DEF PartOf
  <2>2. PartOf(L, m + 1) = PartOf(L, m) + 1
    BY <1>6, <1>10, PartStep
  <2>. QED
    BY <1>8, <2>1, <2>2
<1>13. ASSUME NEW p \in L PROVE T[PartOf(L, p)] = Lines!Marked(S[p])
  <2>1. CASE p = m + 1
    BY <1>6, <1>9, <1>12, <2>1
  <2>2. CASE p \in K
    <3>1. p \in 1 .. m /\ S[p] = s[p]
      BY <1>6, <1>7, <2>2
    <3>2. PartOf(K, p) \in 1 .. n
      BY <1>6, <1>8, <2>2, <3>1, PartPlace
    <3>. QED
      BY <1>7, <1>9, <1>11, <2>2, <3>1, <3>2
  <2>. QED
    BY <1>10, <2>1, <2>2
<1>14. Lines!Cardinality(L) = n + 1 /\ \A p : Lines!Cardinality(L \intersect 1 .. p) = PartOf(L, p)
  BY <1>5, <1>6, <1>12, KeptIs
<1>15. Lines!EndsMarked(T, S)
  BY <1>5, <1>9, <1>13, <1>14 DEF Lines!EndsMarked
<1>. QED
  BY <1>2, <1>3, <1>15

\* The newline after a carriage return makes none.
LEMMA EndsReturn ==
  ASSUME NEW s \in Seq(Lines!Chars), NEW t \in Seq(Lines!Chars),
         s # <<>>, s[Len(s)] = "r", Lines!EndsMarked(t, s)
  PROVE  Lines!EndsMarked(t, Append(s, "n"))
<1>1. PICK m : m = Len(s)
  OBVIOUS
<1>2. PICK S : S = Append(s, "n")
  OBVIOUS
<1>3. PICK K : K = Lines!Kept(s)
  OBVIOUS
<1>4. PICK L : L = Lines!Kept(S)
  OBVIOUS
<1>5. "n" \in Lines!Chars
  BY DEF Lines!Chars
<1>6. /\ m \in Nat \ {0} /\ S \in Seq(Lines!Chars) /\ Len(S) = m + 1 /\ S[m + 1] = "n"
      /\ \A k \in 1 .. m : S[k] = s[k]
  BY <1>1, <1>2, <1>5, AppendProperties, EmptySeq
<1>7. /\ K \in SUBSET (1 .. m) /\ Len(t) = PartOf(K, m) /\ \A p \in K : t[PartOf(K, p)] = Lines!Marked(s[p])
  BY <1>1, <1>3, KeptIs DEF Lines!EndsMarked
<1>8. m \in K
  BY <1>1, <1>3, <1>6 DEF Lines!Kept
<1>9. L = (K \ {m}) \union {m + 1}
  <2>1. L \in SUBSET (1 .. m + 1)
    BY <1>4, <1>6, KeptIs
  <2>2. \A p \in 1 .. m + 1 : p \in L <=> p = m + 1 \/ (p \in K /\ p # m)
    BY <1>1, <1>2, <1>3, <1>4, <1>5, KeptAppend
  <2>3. \A p : p \in L => p \in (K \ {m}) \union {m + 1}
    BY <2>1, <2>2
  <2>4. \A p : p \in (K \ {m}) \union {m + 1} => p \in L
    BY <1>6, <1>7, <2>2
  <2>. QED
    BY <2>3, <2>4
<1>10. \A p \in 1 .. m - 1 : PartOf(L, p) = PartOf(K, p)
  <2>1. \A p \in 1 .. m - 1 : L \intersect 1 .. p = K \intersect 1 .. p
    BY <1>6, <1>9
  <2>. QED
    BY <2>1 DEF PartOf
<1>11. PartOf(L, m + 1) = PartOf(K, m)
  <2>1. m - 1 \in Nat /\ (m - 1) + 1 = m
    BY <1>6
  <2>2. PartOf(L, m - 1) = PartOf(K, m - 1) /\ PartOf(K, m - 1) \in Nat
    <3>1. L \intersect 1 .. m - 1 = K \intersect 1 .. m - 1
      BY <1>6, <1>9
    <3>. QED
      BY <2>1, <3>1, PartType DEF PartOf
  <2>3. PartOf(K, m) = PartOf(K, m - 1) + 1 /\ PartOf(L, m) = PartOf(L, m - 1)
    <3>1. m \notin L
      BY <1>6, <1>9
    <3>2. /\ PartOf(K, (m - 1) + 1) = PartOf(K, m - 1) + 1
          /\ PartOf(L, (m - 1) + 1) = PartOf(L, m - 1) + 0
      BY <1>8, <2>1, <3>1, PartStep
    <3>. QED
      BY <2>1, <2>2, <3>2
  <2>4. PartOf(L, m + 1) = PartOf(L, m) + 1
    BY <1>6, <1>9, PartStep
  <2>. QED
    BY <2>2, <2>3, <2>4
<1>12. ASSUME NEW p \in L PROVE t[PartOf(L, p)] = Lines!Marked(S[p])
  <2>1. CASE p = m + 1
    <3>1. t[PartOf(K, m)] = Lines!Marked("r")
      BY <1>1, <1>7, <1>8
    <3>2. Lines!Marked("r") = Lines!Marked("n")
      BY DEF Lines!Marked
    <3>. QED
      BY <1>6, <1>11, <2>1, <3>1, <3>2
  <2>2. CASE p \in K /\ p # m
    <3>1. p \in 1 .. m - 1 /\ S[p] = s[p]
      BY <1>6, <1>7, <2>2
    <3>. QED
      BY <1>7, <1>10, <2>2, <3>1
  <2>. QED
    BY <1>9, <2>1, <2>2
<1>13. Lines!Cardinality(L) = PartOf(K, m) /\ \A p : Lines!Cardinality(L \intersect 1 .. p) = PartOf(L, p)
  BY <1>4, <1>6, <1>11, KeptIs
<1>14. Lines!EndsMarked(t, S)
  BY <1>4, <1>7, <1>12, <1>13 DEF Lines!EndsMarked
<1>. QED
  BY <1>2, <1>14

LEMMA EndsNone == Lines!EndsMarked(<<>>, <<>>)
<1>1. Lines!Kept(<<>>) = {}
  BY DEF Lines!Kept
<1>2. Lines!Cardinality({}) = 0
  BY SameCards, FS_EmptySet
<1>. QED
  BY <1>1, <1>2 DEF Lines!EndsMarked

-----------------------------------------------------------------------------
\* Where the lines of s end, and the bytes of its first k lines.
Breaks(s) == {q \in 1 .. Len(s) : s[q] = "n"}
FirstLines(s, k) == {p \in 1 .. Len(s) : Lines!LineOf(s, p) <= k}

LEMMA LineOfIs ==
  ASSUME NEW s \in Seq(Lines!Chars), NEW p \in 1 .. Len(s) + 1
  PROVE  Lines!LineOf(s, p) = 1 + PartOf(Breaks(s), p - 1) /\ Lines!LineOf(s, p) \in Nat \ {0}
<1>1. Len(s) \in Nat /\ p - 1 \in Nat
  BY LenProperties
<1>2. {q \in 1 .. p - 1 : s[q] = "n"} = Breaks(s) \intersect 1 .. p - 1
  BY <1>1 DEF Breaks
<1>3. Lines!LineOf(s, p) = 1 + PartOf(Breaks(s), p - 1)
  BY <1>2, SameCards, Zenon DEF Lines!LineOf, PartOf
<1>4. PartOf(Breaks(s), p - 1) \in Nat
  BY <1>1, PartType
<1>. QED
  BY <1>3, <1>4

LEMMA LineOfUpTo ==
  ASSUME NEW s \in Seq(Lines!Chars), NEW p \in 1 .. Len(s), NEW q \in 1 .. p
  PROVE  Lines!LineOf(s, q) <= Lines!LineOf(s, p)
<1>1. Len(s) \in Nat /\ p - 1 \in Nat /\ q - 1 \in Nat /\ q - 1 <= p - 1 /\ q \in 1 .. Len(s) + 1 /\ p \in 1 .. Len(s) + 1
  BY LenProperties
<1>2. PartOf(Breaks(s), q - 1) <= PartOf(Breaks(s), p - 1)
  BY <1>1, PartUpTo
<1>3. PartOf(Breaks(s), q - 1) \in Nat /\ PartOf(Breaks(s), p - 1) \in Nat
  BY <1>1, PartType
<1>4. Lines!LineOf(s, p) = 1 + PartOf(Breaks(s), p - 1) /\ Lines!LineOf(s, q) = 1 + PartOf(Breaks(s), q - 1)
  BY <1>1, LineOfIs
<1>. QED
  BY <1>2, <1>3, <1>4

LEMMA UptoIs ==
  ASSUME NEW s \in Seq(Lines!Chars), NEW k
  PROVE  /\ Lines!Upto(s, k) = PartOf(FirstLines(s, k), Len(s)) /\ Lines!Upto(s, k) \in 0 .. Len(s)
<1>1. Len(s) \in Nat
  BY LenProperties
<1>2. FirstLines(s, k) \intersect 1 .. Len(s) = FirstLines(s, k) /\ FirstLines(s, k) \in SUBSET (1 .. Len(s))
  BY DEF FirstLines
<1>3. Lines!Upto(s, k) = Cardinality(FirstLines(s, k))
  BY SameCards, Zenon DEF Lines!Upto, FirstLines
<1>4. Lines!Upto(s, k) = PartOf(FirstLines(s, k), Len(s))
  BY <1>2, <1>3, Zenon DEF PartOf
<1>5. Cardinality(1 .. Len(s)) = Len(s) /\ IsFiniteSet(1 .. Len(s))
  <2>1. \A j \in Nat : Cardinality(1 .. j) = j /\ IsFiniteSet(1 .. j)
    BY FS_Interval
  <2>. QED
    BY <1>1, <2>1
<1>6. Cardinality(FirstLines(s, k)) <= Len(s)
  BY <1>2, <1>5, FS_Subset
<1>7. Lines!Upto(s, k) \in Nat
  BY <1>1, <1>4, PartType
<1>. QED
  BY <1>1, <1>3, <1>4, <1>6, <1>7

LEMMA CountIs ==
  ASSUME NEW s \in Seq(Lines!Chars)
  PROVE  Lines!Count(s) \in Nat /\ (s # <<>> => Lines!Count(s) # 0)
<1>1. s # <<>> => Len(s) \in 1 .. Len(s) + 1
  BY EmptySeq, LenProperties
<1>. QED
  BY <1>1, LineOfIs DEF Lines!Count

\* All of s is in its lines.
LEMMA UptoAll ==
  ASSUME NEW s \in Seq(Lines!Chars), NEW k \in Nat, Lines!Count(s) <= k
  PROVE  Lines!Upto(s, k) = Len(s)
<1>1. PICK m : m = Len(s)
  OBVIOUS
<1>2. m \in Nat /\ (s # <<>> => m # 0) /\ (s = <<>> => m = 0)
  BY <1>1, EmptySeq, LenProperties
<1>3. ASSUME NEW p \in 1 .. m PROVE p \in FirstLines(s, k)
  <2>1. s # <<>> /\ m \in 1 .. m /\ m \in 1 .. m + 1 /\ p \in 1 .. m + 1
    BY <1>2
  <2>2. Lines!LineOf(s, m) <= k
    BY <1>1, <2>1 DEF Lines!Count
  <2>3. Lines!LineOf(s, p) <= Lines!LineOf(s, m)
    BY <1>1, <2>1, LineOfUpTo
  <2>4. Lines!LineOf(s, m) \in Nat /\ Lines!LineOf(s, p) \in Nat
    BY <1>1, <2>1, LineOfIs
  <2>5. Lines!LineOf(s, p) <= k
    BY <2>2, <2>3, <2>4
  <2>. QED
    BY <1>1, <2>5 DEF FirstLines
<1>4. FirstLines(s, k) \intersect 1 .. m = 1 .. m
  BY <1>3
<1>5. PartOf(FirstLines(s, k), m) = m
  BY <1>2, <1>4, PartAll
<1>. QED
  BY <1>1, <1>5, UptoIs

\* One more byte is in the last line, or begins one.
LEMMA LineOfAppend ==
  ASSUME NEW s \in Seq(Lines!Chars), NEW c \in Lines!Chars
  PROVE  /\ \A p \in 1 .. Len(s) : Lines!LineOf(Append(s, c), p) = Lines!LineOf(s, p)
         /\ Lines!Count(Append(s, c)) = Lines!LineOf(Append(s, c), Len(s) + 1)
         /\ Lines!Count(Append(s, c)) = Lines!Count(s) + (IF s = <<>> \/ s[Len(s)] = "n" THEN 1 ELSE 0)
<1>. SUFFICES ASSUME NEW t, t = Append(s, c)
         PROVE  /\ \A p \in 1 .. Len(s) : Lines!LineOf(t, p) = Lines!LineOf(s, p)
                /\ Lines!Count(t) = Lines!LineOf(t, Len(s) + 1)
                /\ Lines!Count(t) = Lines!Count(s) + (IF s = <<>> \/ s[Len(s)] = "n" THEN 1 ELSE 0)
  OBVIOUS
<1>1. PICK m : m = Len(s)
  OBVIOUS
<1>2. /\ m \in Nat /\ t \in Seq(Lines!Chars) /\ t # <<>> /\ Len(t) = m + 1
      /\ \A k \in 1 .. m : t[k] = s[k]
  BY <1>1, AppendProperties, LenProperties
<1>3. \A k \in 1 .. m : k \in Breaks(t) <=> k \in Breaks(s)
  BY <1>1, <1>2 DEF Breaks
<1>4. ASSUME NEW k \in 0 .. m PROVE PartOf(Breaks(t), k) = PartOf(Breaks(s), k)
  <2>1. Breaks(t) \intersect 1 .. k = Breaks(s) \intersect 1 .. k
    BY <1>2, <1>3
  <2>. QED
    BY <2>1 DEF PartOf
<1>5. ASSUME NEW p \in 1 .. m PROVE Lines!LineOf(t, p) = Lines!LineOf(s, p)
  <2>1. p - 1 \in 0 .. m /\ p \in 1 .. m + 1 /\ p \in 1 .. (m + 1) + 1
    BY <1>2
  <2>2. Lines!LineOf(t, p) = 1 + PartOf(Breaks(t), p - 1)
    BY <1>2, <2>1, LineOfIs
  <2>3. Lines!LineOf(s, p) = 1 + PartOf(Breaks(s), p - 1)
    BY <1>1, <2>1, LineOfIs
  <2>. QED
    BY <1>4, <2>1, <2>2, <2>3
<1>6. Lines!Count(t) = Lines!LineOf(t, m + 1)
  BY <1>2 DEF Lines!Count
<1>7. Lines!LineOf(t, m + 1) = 1 + PartOf(Breaks(s), m)
  <2>1. m + 1 \in 1 .. Len(t) + 1 /\ (m + 1) - 1 = m /\ m \in 0 .. m
    BY <1>2
  <2>2. Lines!LineOf(t, m + 1) = 1 + PartOf(Breaks(t), (m + 1) - 1)
    BY <1>2, <2>1, LineOfIs
  <2>. QED
    BY <1>4, <2>1, <2>2
<1>8. CASE s = <<>>
  <2>1. m = 0 /\ Lines!Count(s) = 0
    BY <1>1, <1>8, EmptySeq DEF Lines!Count
  <2>2. PartOf(Breaks(s), m) = 0
    BY <2>1, PartNone
  <2>. QED
    BY <1>1, <1>5, <1>6, <1>7, <1>8, <2>1, <2>2
<1>9. CASE s # <<>>
  <2>1. m # 0 /\ m - 1 \in Nat /\ (m - 1) + 1 = m /\ m \in 1 .. m + 1 /\ m \in 1 .. m
    <3>1. m # 0
      BY <1>1, <1>9, EmptySeq
    <3>. QED
      BY <1>2, <3>1
  <2>2. Lines!Count(s) = 1 + PartOf(Breaks(s), m - 1)
    BY <1>1, <1>9, <2>1, LineOfIs DEF Lines!Count
  <2>3. PartOf(Breaks(s), m) = PartOf(Breaks(s), m - 1) + (IF m \in Breaks(s) THEN 1 ELSE 0)
    BY <2>1, PartStep
  <2>4. m \in Breaks(s) <=> s[m] = "n"
    BY <1>1, <2>1 DEF Breaks
  <2>5. PartOf(Breaks(s), m - 1) \in Nat
    BY <2>1, PartType
  <2>6. Lines!Count(t) = Lines!Count(s) + (IF s[m] = "n" THEN 1 ELSE 0)
    BY <1>6, <1>7, <2>2, <2>3, <2>4, <2>5
  <2>. QED
    BY <1>1, <1>5, <1>6, <1>9, <2>6
<1>. QED
  BY <1>8, <1>9

LEMMA UptoAppend ==
  ASSUME NEW s \in Seq(Lines!Chars), NEW c \in Lines!Chars, NEW k \in Nat
  PROVE  Lines!Upto(Append(s, c), k) = Lines!Upto(s, k) + (IF Lines!Count(Append(s, c)) <= k THEN 1 ELSE 0)
<1>. SUFFICES ASSUME NEW t, t = Append(s, c)
         PROVE  Lines!Upto(t, k) = Lines!Upto(s, k) + (IF Lines!Count(t) <= k THEN 1 ELSE 0)
  OBVIOUS
<1>1. PICK m : m = Len(s)
  OBVIOUS
<1>2. m \in Nat /\ t \in Seq(Lines!Chars) /\ Len(t) = m + 1
  BY <1>1, AppendProperties, LenProperties
<1>3. PICK A : A = FirstLines(s, k)
  OBVIOUS
<1>4. PICK B : B = FirstLines(t, k)
  OBVIOUS
<1>5. Lines!Upto(t, k) = PartOf(B, m + 1) /\ Lines!Upto(s, k) = PartOf(A, m)
  BY <1>1, <1>2, <1>3, <1>4, UptoIs
<1>6. \A p \in 1 .. m : p \in B <=> p \in A
  <2>1. \A p \in 1 .. Len(s) : Lines!LineOf(t, p) = Lines!LineOf(s, p)
    BY LineOfAppend
  <2>2. \A p \in 1 .. m : p \in 1 .. m + 1 /\ Lines!LineOf(t, p) = Lines!LineOf(s, p)
    BY <1>1, <1>2, <2>1
  <2>. QED
    BY <1>1, <1>2, <1>3, <1>4, <2>2 DEF FirstLines
<1>7. PartOf(B, m) = PartOf(A, m)
  <2>1. B \intersect 1 .. m = A \intersect 1 .. m
    BY <1>6
  <2>. QED
    BY <2>1 DEF PartOf
<1>8. m + 1 \in B <=> Lines!Count(t) <= k
  <2>1. Lines!Count(t) = Lines!LineOf(t, Len(s) + 1)
    BY LineOfAppend
  <2>2. Lines!Count(t) = Lines!LineOf(t, m + 1) /\ m + 1 \in 1 .. m + 1
    BY <1>1, <1>2, <2>1
  <2>. QED
    BY <1>2, <1>4, <2>2 DEF FirstLines
<1>9. PartOf(B, m + 1) = PartOf(B, m) + (IF m + 1 \in B THEN 1 ELSE 0)
  BY <1>2, PartStep
<1>. QED
  BY <1>5, <1>7, <1>8, <1>9

\* A line is a string over the bytes, and so many of them.
LEMMA PartOfText ==
  ASSUME NEW s \in Seq(Lines!Chars), NEW a \in 0 .. Len(s), NEW b \in 0 .. Len(s)
  PROVE  /\ SubSeq(s, a + 1, b) \in Seq(Lines!Chars)
         /\ Len(SubSeq(s, a + 1, b)) = IF a + 1 <= b THEN b - a ELSE 0
         /\ \A q \in 1 .. b - a : SubSeq(s, a + 1, b)[q] = s[a + q]
<1>1. Len(s) \in Nat /\ a + 1 \in Int /\ b \in Int
  BY LenProperties
<1>2. \A q \in a + 1 .. b : s[q] \in Lines!Chars
  BY <1>1, ElementOfSeq
<1>3. /\ SubSeq(s, a + 1, b) \in Seq(Lines!Chars)
      /\ Len(SubSeq(s, a + 1, b)) = IF a + 1 <= b THEN b - (a + 1) + 1 ELSE 0
      /\ \A q \in 1 .. b - (a + 1) + 1 : SubSeq(s, a + 1, b)[q] = s[a + 1 + q - 1]
  BY <1>1, <1>2, SubSeqProperties
<1>4. b - (a + 1) + 1 = b - a /\ \A q \in 1 .. b - a : a + 1 + q - 1 = a + q
  BY <1>1
<1>. QED
  BY <1>3, <1>4

LEMMA CutIs ==
  ASSUME NEW s \in Seq(Lines!Chars), NEW k \in 1 .. Lines!Count(s)
  PROVE  /\ Lines!Cut(s)[k] = SubSeq(s, Lines!Upto(s, k - 1) + 1, Lines!Upto(s, k))
         /\ Lines!Cut(s)[k] \in Seq(Lines!Chars)
<1>1. Lines!Cut(s)[k] = SubSeq(s, Lines!Upto(s, k - 1) + 1, Lines!Upto(s, k))
  BY DEF Lines!Cut
<1>2. Lines!Upto(s, k - 1) \in 0 .. Len(s) /\ Lines!Upto(s, k) \in 0 .. Len(s)
  BY UptoIs
<1>. QED
  BY <1>1, <1>2, PartOfText

\* The same part of s, with one more byte behind s.
LEMMA PartSame ==
  ASSUME NEW s \in Seq(Lines!Chars), NEW c \in Lines!Chars,
         NEW a \in 0 .. Len(s), NEW b \in 0 .. Len(s)
  PROVE  SubSeq(Append(s, c), a + 1, b) = SubSeq(s, a + 1, b)
<1>. SUFFICES ASSUME NEW t, t = Append(s, c)
         PROVE  SubSeq(t, a + 1, b) = SubSeq(s, a + 1, b)
  OBVIOUS
<1>1. /\ Len(s) \in Nat /\ t \in Seq(Lines!Chars) /\ Len(t) = Len(s) + 1
      /\ \A k \in 1 .. Len(s) : t[k] = s[k]
  BY AppendProperties, LenProperties
<1>2. a \in 0 .. Len(t) /\ b \in 0 .. Len(t)
  BY <1>1
<1>3. PICK u : u = SubSeq(s, a + 1, b)
  OBVIOUS
<1>4. PICK v : v = SubSeq(t, a + 1, b)
  OBVIOUS
<1>5. /\ u \in Seq(Lines!Chars) /\ Len(u) = IF a + 1 <= b THEN b - a ELSE 0
      /\ \A q \in 1 .. b - a : u[q] = s[a + q]
  BY <1>3, PartOfText
<1>6. /\ v \in Seq(Lines!Chars) /\ Len(v) = IF a + 1 <= b THEN b - a ELSE 0
      /\ \A q \in 1 .. b - a : v[q] = t[a + q]
  BY <1>1, <1>2, <1>4, PartOfText
<1>7. \A q \in 1 .. Len(u) : u[q] = v[q]
  <2>1. ASSUME NEW q \in 1 .. Len(u) PROVE q \in 1 .. b - a /\ a + q \in 1 .. Len(s)
    BY <1>1, <1>5
  <2>. QED
    BY <1>1, <1>5, <1>6, <2>1
<1>8. u = v
  BY <1>5, <1>6, <1>7, SeqEqual
<1>. QED
  BY <1>3, <1>4, <1>8

\* The last part of s, with c behind it.
LEMMA PartLonger ==
  ASSUME NEW s \in Seq(Lines!Chars), NEW c \in Lines!Chars,
         NEW a \in 0 .. Len(s), NEW m, m = Len(s)
  PROVE  SubSeq(Append(s, c), a + 1, m + 1) = Append(SubSeq(s, a + 1, m), c)
<1>. SUFFICES ASSUME NEW t, t = Append(s, c)
         PROVE  SubSeq(t, a + 1, m + 1) = Append(SubSeq(s, a + 1, m), c)
  OBVIOUS
<1>1. /\ m \in Nat /\ t \in Seq(Lines!Chars) /\ Len(t) = m + 1 /\ t[m + 1] = c
      /\ \A k \in 1 .. m : t[k] = s[k]
  BY AppendProperties, LenProperties
<1>2. a \in 0 .. Len(t) /\ m + 1 \in 0 .. Len(t) /\ m \in 0 .. Len(s)
  BY <1>1
<1>3. PICK u : u = SubSeq(s, a + 1, m)
  OBVIOUS
<1>4. PICK v : v = SubSeq(t, a + 1, m + 1)
  OBVIOUS
<1>5. u \in Seq(Lines!Chars) /\ Len(u) = m - a /\ \A q \in 1 .. m - a : u[q] = s[a + q]
  <2>1. /\ u \in Seq(Lines!Chars) /\ Len(u) = IF a + 1 <= m THEN m - a ELSE 0
        /\ \A q \in 1 .. m - a : u[q] = s[a + q]
    BY <1>2, <1>3, PartOfText
  <2>2. m - a = IF a + 1 <= m THEN m - a ELSE 0
    BY <1>1
  <2>. QED
    BY <2>1, <2>2
<1>6. v \in Seq(Lines!Chars) /\ Len(v) = m + 1 - a /\ \A q \in 1 .. m + 1 - a : v[q] = t[a + q]
  <2>1. PICK b : b = m + 1
    OBVIOUS
  <2>2. a \in 0 .. Len(t) /\ b \in 0 .. Len(t) /\ v = SubSeq(t, a + 1, b)
    BY <1>2, <1>4, <2>1
  <2>3. /\ v \in Seq(Lines!Chars) /\ Len(v) = IF a + 1 <= b THEN b - a ELSE 0
        /\ \A q \in 1 .. b - a : v[q] = t[a + q]
    BY <1>1, <2>2, PartOfText
  <2>4. a + 1 <= b
    BY <1>1, <2>1
  <2>5. Len(v) = b - a
    BY <2>3, <2>4
  <2>. QED
    BY <2>1, <2>3, <2>5
<1>7. PICK w : w = Append(u, c)
  OBVIOUS
<1>8. PICK l : l = m - a /\ l \in Nat /\ m + 1 - a = l + 1 /\ a + (l + 1) = m + 1
  BY <1>1
<1>9. w \in Seq(Lines!Chars) /\ Len(w) = l + 1 /\ w[l + 1] = c /\ \A q \in 1 .. l : w[q] = u[q]
  BY <1>5, <1>7, <1>8, AppendProperties
<1>10. ASSUME NEW q \in 1 .. l + 1 PROVE v[q] = w[q]
  <2>1. CASE q = l + 1
    BY <1>1, <1>6, <1>8, <1>9, <2>1
  <2>2. CASE q # l + 1
    <3>1. q \in 1 .. l /\ q \in 1 .. m - a /\ q \in 1 .. m + 1 - a /\ a + q \in 1 .. m
      BY <1>1, <1>8, <1>10, <2>2
    <3>. QED
      BY <1>1, <1>5, <1>6, <1>9, <3>1
  <2>. QED
    BY <2>1, <2>2
<1>11. v = w
  BY <1>6, <1>8, <1>9, <1>10, SeqEqual
<1>. QED
  BY <1>3, <1>4, <1>7, <1>11

\* One more byte goes to the last line, or is a line of its own.
LEMMA CutAppend ==
  ASSUME NEW s \in Seq(Lines!Chars), NEW c \in Lines!Chars,
         NEW n, n = Lines!Count(s)
  PROVE  IF s = <<>> \/ s[Len(s)] = "n"
         THEN /\ Lines!Count(Append(s, c)) = n + 1 /\ Lines!Cut(Append(s, c))[n + 1] = <<c>>
              /\ \A k \in 1 .. n : Lines!Cut(Append(s, c))[k] = Lines!Cut(s)[k]
         ELSE /\ Lines!Count(Append(s, c)) = n /\ Lines!Cut(Append(s, c))[n] = Append(Lines!Cut(s)[n], c)
              /\ \A k \in 1 .. n - 1 : Lines!Cut(Append(s, c))[k] = Lines!Cut(s)[k]
<1>. SUFFICES ASSUME NEW t, t = Append(s, c)
         PROVE  IF s = <<>> \/ s[Len(s)] = "n"
                THEN /\ Lines!Count(t) = n + 1 /\ Lines!Cut(t)[n + 1] = <<c>>
                     /\ \A k \in 1 .. n : Lines!Cut(t)[k] = Lines!Cut(s)[k]
                ELSE /\ Lines!Count(t) = n /\ Lines!Cut(t)[n] = Append(Lines!Cut(s)[n], c)
                     /\ \A k \in 1 .. n - 1 : Lines!Cut(t)[k] = Lines!Cut(s)[k]
  OBVIOUS
<1>1. PICK m : m = Len(s)
  OBVIOUS
<1>2. PICK l : l = Lines!Count(t)
  OBVIOUS
<1>3. m \in Nat /\ t \in Seq(Lines!Chars) /\ Len(t) = m + 1 /\ n \in Nat /\ (s # <<>> => n # 0)
  BY <1>1, AppendProperties, LenProperties, CountIs
<1>4. l = n + (IF s = <<>> \/ s[m] = "n" THEN 1 ELSE 0)
  BY <1>1, <1>2, LineOfAppend
<1>5. l \in Nat \ {0} /\ n \in {l, l - 1}
  BY <1>3, <1>4
<1>6. ASSUME NEW k \in 1 .. l - 1 PROVE Lines!Cut(t)[k] = Lines!Cut(s)[k]
  <2>1. k \in 1 .. l /\ k \in 1 .. n /\ k - 1 \in Nat /\ k \in Nat /\ ~(l <= k) /\ ~(l <= k - 1)
    BY <1>5
  <2>2. PICK a : a = Lines!Upto(s, k - 1)
    OBVIOUS
  <2>3. PICK b : b = Lines!Upto(s, k)
    OBVIOUS
  <2>4. a \in 0 .. m /\ b \in 0 .. m
    BY <1>1, <2>2, <2>3, UptoIs
  <2>5. Lines!Upto(t, k - 1) = a /\ Lines!Upto(t, k) = b
    <3>1. \A j \in Nat : Lines!Upto(t, j) = Lines!Upto(s, j) + (IF Lines!Count(t) <= j THEN 1 ELSE 0)
      BY UptoAppend
    <3>2. /\ Lines!Upto(t, k - 1) = Lines!Upto(s, k - 1) + (IF l <= k - 1 THEN 1 ELSE 0)
          /\ Lines!Upto(t, k) = Lines!Upto(s, k) + (IF l <= k THEN 1 ELSE 0)
      BY <1>2, <2>1, <3>1
    <3>. QED
      BY <1>3, <2>1, <2>2, <2>3, <2>4, <3>2
  <2>6. Lines!Cut(t)[k] = SubSeq(t, a + 1, b)
    BY <1>2, <1>3, <2>1, <2>5, CutIs
  <2>7. Lines!Cut(s)[k] = SubSeq(s, a + 1, b)
    BY <2>1, <2>2, <2>3, CutIs
  <2>. QED
    BY <1>1, <2>4, <2>6, <2>7, PartSame
<1>7. PICK a : a = Lines!Upto(s, l - 1)
  OBVIOUS
<1>8. a \in 0 .. m /\ Lines!Upto(s, l) = m
  <2>1. l \in Nat /\ n <= l
    BY <1>5
  <2>. QED
    BY <1>1, <1>7, <2>1, UptoAll, UptoIs
<1>9. Lines!Cut(t)[l] = SubSeq(t, a + 1, m + 1)
  <2>1. l \in 1 .. l /\ l - 1 \in Nat /\ l \in Nat /\ l <= l /\ ~(l <= l - 1)
    BY <1>5
  <2>2. /\ Lines!Upto(t, l - 1) = Lines!Upto(s, l - 1) + (IF l <= l - 1 THEN 1 ELSE 0)
        /\ Lines!Upto(t, l) = Lines!Upto(s, l) + (IF l <= l THEN 1 ELSE 0)
    BY <1>2, <2>1, UptoAppend
  <2>3. Lines!Upto(t, l - 1) = a /\ Lines!Upto(t, l) = m + 1
    BY <1>3, <1>7, <1>8, <2>1, <2>2
  <2>. QED
    BY <1>2, <1>3, <2>1, <2>3, CutIs
<1>10. SubSeq(t, a + 1, m + 1) = Append(SubSeq(s, a + 1, m), c)
  <2>1. a \in 0 .. Len(s)
    BY <1>1, <1>8
  <2>. QED
    BY <1>1, <2>1, PartLonger
<1>11. CASE s = <<>> \/ s[m] = "n"
  <2>1. l = n + 1 /\ l - 1 = n
    BY <1>3, <1>4, <1>11
  <2>2. a = m
    BY <1>1, <1>3, <1>7, <2>1, UptoAll
  <2>3. SubSeq(s, a + 1, m) = <<>>
    BY <1>3, <2>2, SubSeqEmpty
  <2>4. Append(<<>>, c) = <<c>>
    OBVIOUS
  <2>. QED
    BY <1>1, <1>2, <1>6, <1>9, <1>10, <1>11, <2>1, <2>3, <2>4
<1>12. CASE ~(s = <<>> \/ s[m] = "n")
  <2>1. l = n /\ n \in 1 .. n
    BY <1>3, <1>4, <1>12
  <2>2. Lines!Cut(s)[n] = SubSeq(s, a + 1, m)
    BY <1>7, <1>8, <2>1, CutIs
  <2>. QED
    BY <1>1, <1>2, <1>6, <1>9, <1>10, <1>12, <2>1, <2>2
<1>. QED
  BY <1>1, <1>11, <1>12

-----------------------------------------------------------------------------
LEMMA LinesTypes ==
  ASSUME LinesInv
  PROVE  /\ routine \in {"read_line", "read_line_buffered", "readLine"}
         /\ text \in Seq(Lines!Chars) /\ ptr \in Nat /\ writerAt \in {"write", "closed", "reset"}
         /\ wire \in Seq(Lines!Chars) /\ readIn \in Seq(Lines!Chars) /\ chunk \in Seq(Lines!Chars)
         /\ lineBuf \in Seq(Lines!Chars) /\ lines \in Seq(Seq(Lines!Chars))
         /\ Len(wire) \in Nat /\ Len(readIn) \in Nat /\ Len(lineBuf) \in Nat /\ Len(lines) \in Nat
<1>1. Lines!LineTypeOK
  BY DEF LinesInv
<1>2. text \in Seq(Lines!Chars) /\ ptr \in Nat
  <2>1. PICK k \in 0 .. MaxText : text \in [1 .. k -> Lines!Chars]
    BY <1>1 DEF Lines!LineTypeOK, Lines!Texts
  <2>2. k \in Nat
    BY LinesAssumption
  <2>3. text \in Seq(Lines!Chars)
    BY <2>1, <2>2
  <2>. QED
    BY <1>1, <2>3 DEF Lines!LineTypeOK
<1>3. /\ routine \in {"read_line", "read_line_buffered", "readLine"} /\ writerAt \in {"write", "closed", "reset"}
      /\ wire \in Seq(Lines!Chars) /\ readIn \in Seq(Lines!Chars) /\ chunk \in Seq(Lines!Chars)
      /\ lineBuf \in Seq(Lines!Chars) /\ lines \in Seq(Seq(Lines!Chars))
  BY <1>1 DEF Lines!LineTypeOK
<1>4. Len(wire) \in Nat /\ Len(readIn) \in Nat /\ Len(lineBuf) \in Nat /\ Len(lines) \in Nat
  BY <1>3, LenProperties
<1>. QED
  BY <1>2, <1>3, <1>4

\* The first byte leaves the wire.
LEMMA DropOne ==
  ASSUME NEW w \in Seq(Lines!Chars), w # <<>>
  PROVE  /\ Len(w) \in Nat \ {0} /\ Head(w) = w[1] /\ w[1] \in Lines!Chars
         /\ SubSeq(w, 2, Len(w)) \in Seq(Lines!Chars)
         /\ \A s \in Seq(Lines!Chars) : s \o SubSeq(w, 1, 1) = Append(s, w[1])
<1>1. Len(w) \in Nat \ {0} /\ w[1] \in Lines!Chars
  BY EmptySeq, ElementOfSeq
<1>2. SubSeq(w, 2, Len(w)) \in Seq(Lines!Chars)
  <2>1. \A k \in 2 .. Len(w) : w[k] \in Lines!Chars
    BY <1>1, ElementOfSeq
  <2>. QED
    BY <1>1, <2>1, SubSeqProperties
<1>3. SubSeq(w, 1, 1) = <<w[1]>>
  <2>1. PICK u : u = SubSeq(w, 1, 1)
    OBVIOUS
  <2>2. \A k \in 1 .. 1 : w[k] \in Lines!Chars
    BY <1>1
  <2>3. u \in Seq(Lines!Chars) /\ Len(u) = 1 /\ u[1] = w[1]
    BY <2>1, <2>2, SubSeqProperties
  <2>4. PICK v : v = <<w[1]>>
    OBVIOUS
  <2>5. v \in Seq(Lines!Chars) /\ Len(v) = 1 /\ v[1] = w[1]
    BY <1>1, <2>4
  <2>6. u = v
    BY <2>3, <2>5, SeqEqual
  <2>. QED
    BY <2>1, <2>4, <2>6
<1>4. \A s \in Seq(Lines!Chars) : Append(s, w[1]) = s \o <<w[1]>>
  BY <1>1, AppendIsConcat
<1>5. Head(w) = w[1]
  OBVIOUS
<1>. QED
  BY <1>1, <1>2, <1>3, <1>4, <1>5

LEMMA LinesJoined ==
  /\ Lines!Joined(<<>>) = <<>>
  /\ \A s \in Seq(Seq(Lines!Chars)) :
       /\ Lines!Joined(s) \in Seq(Lines!Chars)
       /\ \A x \in Seq(Lines!Chars) : Lines!Joined(Append(s, x)) = Lines!Joined(s) \o x
<1>1. Lines!Joined(<<>>) = <<>>
  BY JoinedNone, SameJoined
<1>2. ASSUME NEW s \in Seq(Seq(Lines!Chars))
      PROVE  /\ Lines!Joined(s) \in Seq(Lines!Chars)
             /\ \A x \in Seq(Lines!Chars) : Lines!Joined(Append(s, x)) = Lines!Joined(s) \o x
  BY JoinedType, JoinedAndOne, SameJoined
<1>. QED
  BY <1>1, <1>2

\* What Store does to the lines ls and the buffer b: they become p and q.
StoresTo(ls, b, c, p, q) ==
  IF c = "n" \/ Len(Append(b, c)) >= Room - 1
  THEN p = Append(ls, Append(b, c)) /\ q = <<>>
  ELSE p = ls /\ q = Append(b, c)

\* What has been returned and the buffer are longer by c, and every line has an end.
OneMore(ls, b, c, p, q) ==
  /\ p \in Seq(Seq(Lines!Chars)) /\ q \in Seq(Lines!Chars) /\ LinesEnd(p, q)
  /\ Lines!Joined(p) \o q = Append(Lines!Joined(ls) \o b, c)
  /\ Lines!Joined(ls) \o b \in Seq(Lines!Chars)

LEMMA StoreTypes ==
  ASSUME NEW ls \in Seq(Seq(Lines!Chars)), NEW b \in Seq(Lines!Chars), NEW c \in Lines!Chars,
         NEW p, NEW q, StoresTo(ls, b, c, p, q)
  PROVE  p \in Seq(Seq(Lines!Chars)) /\ q \in Seq(Lines!Chars)
<1>1. Append(b, c) \in Seq(Lines!Chars)
  BY AppendProperties
<1>2. Append(ls, Append(b, c)) \in Seq(Seq(Lines!Chars)) /\ <<>> \in Seq(Lines!Chars)
  BY <1>1, AppendProperties, EmptySeq
<1>. QED
  BY <1>1, <1>2 DEF StoresTo

LEMMA StoreEffect ==
  ASSUME NEW ls \in Seq(Seq(Lines!Chars)), NEW b \in Seq(Lines!Chars), NEW c \in Lines!Chars,
         NEW p, NEW q, LinesEnd(ls, b), StoresTo(ls, b, c, p, q)
  PROVE  OneMore(ls, b, c, p, q)
<1>1. PICK f : f = Append(b, c)
  OBVIOUS
<1>2. PICK l : l = Len(b)
  OBVIOUS
<1>3. /\ f \in Seq(Lines!Chars) /\ l \in Nat /\ Len(f) = l + 1 /\ f[l + 1] = c
      /\ \A k \in 1 .. l : f[k] = b[k]
  BY <1>1, <1>2, AppendProperties, LenProperties
<1>4. Room \in Nat /\ Room - 1 \in Nat \ {0}
  BY LinesAssumption
<1>5. l < Room - 1 /\ \A k \in 1 .. l : f[k] # "n"
  BY <1>2, <1>3 DEF LinesEnd
<1>6. PICK w : w = Lines!Joined(ls)
  OBVIOUS
<1>7. w \in Seq(Lines!Chars) /\ w \o b \in Seq(Lines!Chars) /\ w \o f = Append(w \o b, c)
  <2>1. w \in Seq(Lines!Chars)
    BY <1>6, LinesJoined
  <2>2. f = b \o <<c>> /\ <<c>> \in Seq(Lines!Chars)
    BY <1>1, AppendIsConcat
  <2>3. w \o b \in Seq(Lines!Chars)
    BY <2>1, ConcatProperties
  <2>4. Append(w \o b, c) = (w \o b) \o <<c>>
    BY <2>3, AppendIsConcat
  <2>5. (w \o b) \o <<c>> = w \o (b \o <<c>>)
    BY <2>1, <2>2, ConcatAssociative
  <2>. QED
    BY <2>1, <2>2, <2>3, <2>4, <2>5
<1>8. \A k \in 1 .. Len(ls) : OneLineOf(ls[k]) /\ Ended(ls[k])
  BY DEF LinesEnd
<1>9. CASE (c = "n" \/ Len(f) >= Room - 1) /\ p = Append(ls, f) /\ q = <<>>
  <2>1. PICK n : n = Len(ls)
    OBVIOUS
  <2>2. /\ n \in Nat /\ p \in Seq(Seq(Lines!Chars)) /\ Len(p) = n + 1 /\ p[n + 1] = f
        /\ \A k \in 1 .. n : p[k] = ls[k]
    BY <1>3, <1>9, <2>1, AppendProperties, LenProperties
  <2>3. Lines!Joined(p) = w \o f /\ w \o f \in Seq(Lines!Chars)
    BY <1>3, <1>6, <1>7, <1>9, LinesJoined, ConcatProperties
  <2>4. Lines!Joined(p) \o q = w \o f
    BY <1>9, <2>3, ConcatEmptySeq
  <2>5. OneLineOf(f)
    <3>1. l + 1 \in 1 .. Room - 1 /\ l + 1 - 1 = l
      BY <1>3, <1>4, <1>5
    <3>. QED
      BY <1>3, <1>5, <3>1 DEF OneLineOf
  <2>6. Ended(f)
    <3>1. c = "n" \/ l + 1 = Room - 1
      BY <1>3, <1>4, <1>5, <1>9
    <3>. QED
      BY <1>3, <3>1 DEF Ended
  <2>7. \A k \in 1 .. Len(p) : OneLineOf(p[k]) /\ Ended(p[k])
    <3>1. ASSUME NEW k \in 1 .. Len(p) PROVE p[k] = f \/ (k \in 1 .. Len(ls) /\ p[k] = ls[k])
      BY <2>1, <2>2
    <3>. QED
      BY <1>8, <2>5, <2>6, <3>1
  <2>8. Len(q) < Room - 1 /\ \A j \in 1 .. Len(q) : q[j] # "n"
    <3>1. Len(q) = 0
      BY <1>9
    <3>. QED
      BY <1>4, <3>1
  <2>9. q \in Seq(Lines!Chars)
    BY <1>9
  <2>. QED
    BY <1>6, <1>7, <2>2, <2>4, <2>7, <2>8, <2>9 DEF LinesEnd, OneMore
<1>10. CASE ~(c = "n" \/ Len(f) >= Room - 1) /\ p = ls /\ q = f
  <2>1. Len(q) < Room - 1 /\ \A j \in 1 .. Len(q) : q[j] # "n"
    <3>1. l + 1 < Room - 1 /\ c # "n"
      BY <1>3, <1>4, <1>10
    <3>2. ASSUME NEW j \in 1 .. l + 1 PROVE f[j] # "n"
      <4>1. j = l + 1 \/ j \in 1 .. l
        BY <1>3, <3>2
      <4>. QED
        BY <1>3, <1>5, <3>1, <4>1
    <3>. QED
      BY <1>3, <1>10, <3>1, <3>2
  <2>. QED
    BY <1>3, <1>6, <1>7, <1>8, <1>10, <2>1 DEF LinesEnd, OneMore
<1>. QED
  BY <1>1, <1>9, <1>10 DEF StoresTo

-----------------------------------------------------------------------------
LEMMA LinesWrite ==
  ASSUME LinesInv, Lines!Write \/ Lines!WriterCloses
  PROVE  LinesInv'
<1>1. /\ writerAt = "write"
      /\ UNCHANGED <<routine, interrupted, text, readIn, callAt, chunk, lineBuf, lines, forgotten>>
      /\ \/ writerAt' = "closed" /\ wire' = wire /\ ptr' = ptr
         \/ /\ writerAt' = "write"
            /\ \E n \in 1 .. Len(text) - ptr :
                 wire' = wire \o SubSeq(text, ptr + 1, ptr + n) /\ ptr' = ptr + n
  BY DEF Lines!Write, Lines!WriterCloses
<1>2. /\ wire \in Seq(Lines!Chars) /\ text \in Seq(Lines!Chars) /\ ptr \in Nat /\ Len(wire) \in Nat
      /\ Len(text) \in Nat
  BY LinesTypes, LenProperties
<1>3. /\ wire' \in Seq(Lines!Chars) /\ ptr' \in 0 .. Len(text) /\ writerAt' \in {"write", "closed", "reset"}
      /\ wire # <<>> => wire' # <<>> /\ wire'[1] = wire[1]
  <2>1. CASE writerAt' = "closed" /\ wire' = wire /\ ptr' = ptr
    BY <1>2, <2>1 DEF LinesInv, Lines!LineTypeOK
  <2>2. CASE writerAt' = "write" /\ \E n \in 1 .. Len(text) - ptr :
               wire' = wire \o SubSeq(text, ptr + 1, ptr + n) /\ ptr' = ptr + n
    <3>1. PICK n \in 1 .. Len(text) - ptr :
            wire' = wire \o SubSeq(text, ptr + 1, ptr + n) /\ ptr' = ptr + n
      BY <2>2
    <3>2. PICK u : u = SubSeq(text, ptr + 1, ptr + n)
      OBVIOUS
    <3>3. ptr + 1 \in Int /\ ptr + n \in 0 .. Len(text) /\ \A k \in ptr + 1 .. ptr + n : k \in 1 .. Len(text)
      BY <1>2
    <3>4. \A k \in ptr + 1 .. ptr + n : text[k] \in Lines!Chars
      BY <1>2, <3>3, ElementOfSeq
    <3>5. u \in Seq(Lines!Chars)
      BY <3>2, <3>3, <3>4, SubSeqProperties
    <3>6. /\ wire' \in Seq(Lines!Chars) /\ Len(wire') = Len(wire) + Len(u) /\ Len(u) \in Nat
          /\ \A k \in 1 .. Len(wire) + Len(u) : wire'[k] = IF k <= Len(wire) THEN wire[k] ELSE u[k - Len(wire)]
      BY <1>2, <3>1, <3>2, <3>5, ConcatProperties, LenProperties
    <3>7. ASSUME wire # <<>> PROVE wire' # <<>> /\ wire'[1] = wire[1]
      <4>1. Len(wire) # 0
        BY <1>2, <3>7, EmptySeq
      <4>2. 1 \in 1 .. Len(wire) + Len(u) /\ 1 <= Len(wire) /\ Len(wire') # 0
        BY <1>2, <3>6, <4>1
      <4>. QED
        BY <3>6, <4>2
    <3>. QED
      BY <2>2, <3>1, <3>3, <3>6, <3>7
  <2>. QED
    BY <1>1, <2>1, <2>2
<1>4. Lines!LineTypeOK'
  BY <1>1, <1>3 DEF LinesInv, Lines!LineTypeOK
<1>5. ~AllRead
  BY <1>1 DEF AllRead
<1>6. ReadLineInv'
  <2>1. ReturnInv => ReturnInv'
    BY <1>1, <1>3, <1>5 DEF ReturnInv
  <2>. QED
    BY <1>1, <1>5, <2>1 DEF LinesInv, ReadLineInv
<1>7. CutInv'
  BY <1>1, <1>5 DEF LinesInv, CutInv
<1>8. BufferedInv'
  BY <1>1 DEF LinesInv, BufferedInv
<1>. QED
  BY <1>4, <1>6, <1>7, <1>8 DEF LinesInv

\* What is left on the wire when the connection breaks is the start of it.
LEMMA LinesReset ==
  ASSUME LinesInv, Lines!WriterResets
  PROVE  LinesInv'
<1>1. /\ writerAt = "write" /\ writerAt' = "reset"
      /\ UNCHANGED <<routine, interrupted, text, ptr, readIn, callAt, chunk, lineBuf, lines,
                     forgotten>>
  BY DEF Lines!WriterResets
<1>2. PICK n \in 0 .. Len(wire) : wire' = SubSeq(wire, 1, n)
  BY DEF Lines!WriterResets
<1>3. wire \in Seq(Lines!Chars) /\ Len(wire) \in Nat
  BY LinesTypes
<1>4. wire' \in Seq(Lines!Chars) /\ (wire' = <<>> \/ (wire # <<>> /\ wire'[1] = wire[1]))
  <2>1. PICK u : u = SubSeq(wire, 1, n)
    OBVIOUS
  <2>2. \A k \in 1 .. n : wire[k] \in Lines!Chars
    BY <1>3, ElementOfSeq
  <2>3. n \in Nat /\ n <= Len(wire)
    BY <1>3
  <2>4. u \in Seq(Lines!Chars) /\ Len(u) = n /\ \A k \in 1 .. n : u[k] = wire[k]
    BY <2>1, <2>2, <2>3, SubSeqProperties
  <2>5. n = 0 => u = <<>>
    BY <2>4, EmptySeq
  <2>6. n # 0 => wire # <<>> /\ u[1] = wire[1]
    BY <1>3, <2>3, <2>4, EmptySeq
  <2>. QED
    BY <1>2, <2>1, <2>4, <2>5, <2>6
<1>5. Lines!LineTypeOK'
  BY <1>1, <1>4 DEF LinesInv, Lines!LineTypeOK
<1>6. ~AllRead /\ (wire' = <<>> /\ callAt # "peek" => AllRead')
  BY <1>1 DEF AllRead
<1>7. ReadLineInv'
  <2>1. ReturnInv => ReturnInv'
    BY <1>1, <1>4, <1>6 DEF ReturnInv
  <2>. QED
    BY <1>1, <1>6, <2>1 DEF LinesInv, ReadLineInv
<1>8. CutInv' /\ BufferedInv'
  BY <1>1, <1>6 DEF LinesInv, CutInv, BufferedInv
<1>. QED
  BY <1>5, <1>7, <1>8 DEF LinesInv

LEMMA LinesReadByte ==
  ASSUME LinesInv, Lines!ReadByte
  PROVE  LinesInv'
<1>1. PICK c : c = wire[1]
  OBVIOUS
<1>2. PICK w : w = Lines!Joined(lines) \o lineBuf
  OBVIOUS
<1>3. routine = "read_line" /\ callAt = "byte" /\ wire # <<>>
  BY DEF Lines!ReadByte
<1>4. /\ wire \in Seq(Lines!Chars) /\ readIn \in Seq(Lines!Chars) /\ lineBuf \in Seq(Lines!Chars)
      /\ lines \in Seq(Seq(Lines!Chars)) /\ Len(readIn) \in Nat
  BY LinesTypes
<1>5. /\ Head(wire) = c /\ c \in Lines!Chars /\ SubSeq(wire, 2, Len(wire)) \in Seq(Lines!Chars)
      /\ readIn \o SubSeq(wire, 1, 1) = Append(readIn, c)
  BY <1>1, <1>3, <1>4, DropOne
<1>6. /\ wire' = SubSeq(wire, 2, Len(wire)) /\ readIn' = Append(readIn, c)
      /\ UNCHANGED <<routine, interrupted, text, ptr, writerAt, chunk, forgotten>>
      /\ \/ c = "r" /\ callAt' = "peek" /\ UNCHANGED <<lineBuf, lines>>
         \/ c # "r" /\ callAt' = "byte" /\ StoresTo(lines, lineBuf, c, lines', lineBuf')
  BY <1>5 DEF Lines!ReadByte, Lines!Drop, Lines!Store, Lines!Returns, StoresTo
<1>7. PICK n : n = Len(readIn)
  OBVIOUS
<1>8. readIn' \in Seq(Lines!Chars) /\ Len(readIn') = n + 1 /\ readIn'[n + 1] = c /\ n \in Nat
  BY <1>4, <1>5, <1>6, <1>7, AppendProperties
<1>9. ~AllRead
  BY <1>3 DEF AllRead
<1>17. Lines!LineTypeOK'
  <2>1. lines' \in Seq(Seq(Lines!Chars)) /\ lineBuf' \in Seq(Lines!Chars)
    <3>1. PICK p, q, ls, b : p = lines' /\ q = lineBuf' /\ ls = lines /\ b = lineBuf
      OBVIOUS
    <3>2. ls \in Seq(Seq(Lines!Chars)) /\ b \in Seq(Lines!Chars)
      BY <1>4, <3>1
    <3>3. StoresTo(ls, b, c, p, q) => p \in Seq(Seq(Lines!Chars)) /\ q \in Seq(Lines!Chars)
      BY <1>5, <3>2, StoreTypes
    <3>. QED
      BY <1>4, <1>6, <3>1, <3>3
  <2>. QED
    BY <1>5, <1>6, <1>8, <2>1 DEF LinesInv, Lines!LineTypeOK
<1>14. CutInv' /\ BufferedInv'
  BY <1>3, <1>6 DEF CutInv, BufferedInv
<1>. SUFFICES ASSUME ~interrupted PROVE ReadLineInv'
  BY <1>6, <1>14, <1>17 DEF LinesInv, ReadLineInv
<1>10. Lines!EndsMarked(w, readIn) /\ LinesEnd(lines, lineBuf) /\ ReturnInv
  BY <1>2, <1>3, <1>9 DEF LinesInv, ReadLineInv
<1>11. readIn = <<>> \/ readIn[Len(readIn)] # "r" \/ c # "n"
  BY <1>1, <1>3, <1>4, <1>9, <1>10, EmptySeq DEF ReturnInv
<1>12. w \in Seq(Lines!Chars)
  BY <1>2, <1>4, LinesJoined, ConcatProperties
<1>13. \A b \in Lines!Chars :
         b = Lines!Marked(c) => Lines!EndsMarked(Append(w, b), readIn')
  BY <1>4, <1>5, <1>6, <1>10, <1>11, <1>12, EndsAppend
<1>15. CASE c = "r" /\ callAt' = "peek" /\ UNCHANGED <<lineBuf, lines>>
  <2>1. "n" = Lines!Marked(c) /\ "n" \in Lines!Chars
    BY <1>15 DEF Lines!Marked, Lines!Chars
  <2>2. Lines!EndsMarked(Append(w, "n"), readIn')
    BY <1>13, <2>1
  <2>3. ReturnInv'
    BY <1>8, <1>15 DEF ReturnInv
  <2>4. LinesEnd(lines', lineBuf')
    BY <1>10, <1>15
  <2>. QED
    BY <1>2, <1>15, <2>2, <2>3, <2>4 DEF ReadLineInv
<1>16. CASE c # "r" /\ callAt' = "byte"
  <2>1. c = Lines!Marked(c)
    BY <1>5, <1>16 DEF Lines!Marked, Lines!Chars
  <2>2. Lines!EndsMarked(Append(w, c), readIn')
    BY <1>5, <1>13, <2>1
  <2>3. /\ lines' \in Seq(Seq(Lines!Chars)) /\ lineBuf' \in Seq(Lines!Chars)
        /\ Lines!Joined(lines') \o lineBuf' = Append(Lines!Joined(lines) \o lineBuf, c)
        /\ LinesEnd(lines', lineBuf')
    <3>1. PICK p, q : p = lines' /\ q = lineBuf'
      OBVIOUS
    <3>2. PICK ls, b : ls = lines /\ b = lineBuf
      OBVIOUS
    <3>3. StoresTo(ls, b, c, p, q) /\ LinesEnd(ls, b)
      BY <1>6, <1>10, <1>16, <3>1, <3>2
    <3>4. ls \in Seq(Seq(Lines!Chars)) /\ b \in Seq(Lines!Chars) /\ c \in Lines!Chars
      BY <1>4, <1>5, <3>2
    <3>5. OneMore(ls, b, c, p, q)
      BY <3>3, <3>4, StoreEffect
    <3>. QED
      BY <3>1, <3>2, <3>5 DEF OneMore
  <2>4. ReturnInv'
    BY <1>8, <1>16 DEF ReturnInv
  <2>5. Lines!EndsMarked(Lines!Joined(lines') \o lineBuf', readIn')
    BY <1>2, <2>2, <2>3
  <2>6. callAt' # "peek"
    BY <1>16
  <2>. QED
    BY <2>3, <2>4, <2>5, <2>6 DEF ReadLineInv
<1>. QED
  BY <1>6, <1>15, <1>16

LEMMA LinesPeek ==
  ASSUME LinesInv, Lines!Peek
  PROVE  LinesInv'
<1>1. PICK w : w = Lines!Joined(lines) \o lineBuf
  OBVIOUS
<1>2. routine = "read_line" /\ callAt = "peek"
  BY DEF Lines!Peek
<1>3. /\ wire \in Seq(Lines!Chars) /\ readIn \in Seq(Lines!Chars) /\ lineBuf \in Seq(Lines!Chars)
      /\ lines \in Seq(Seq(Lines!Chars)) /\ Len(readIn) \in Nat /\ "n" \in Lines!Chars
  BY LinesTypes DEF Lines!Chars
<1>4. /\ UNCHANGED <<routine, interrupted, text, ptr, writerAt, chunk, forgotten>> /\ callAt' = "byte"
      /\ StoresTo(lines, lineBuf, "n", lines', lineBuf')
      /\ \/ wire # <<>> /\ wire[1] = "n" /\ wire' = SubSeq(wire, 2, Len(wire))
            /\ readIn' = readIn \o SubSeq(wire, 1, 1)
         \/ wire # <<>> /\ wire[1] # "n" /\ wire' = wire /\ readIn' = readIn
         \/ wire = <<>> /\ writerAt # "write" /\ wire' = wire /\ readIn' = readIn
  <2>1. wire # <<>> => Head(wire) = wire[1]
    BY <1>3, DropOne
  <2>. QED
    BY <2>1 DEF Lines!Peek, Lines!Drop, Lines!Store, Lines!Returns, StoresTo
<1>10. CutInv' /\ BufferedInv'
  BY <1>2, <1>4 DEF CutInv, BufferedInv
<1>11. Lines!LineTypeOK'
  <2>1. lines' \in Seq(Seq(Lines!Chars)) /\ lineBuf' \in Seq(Lines!Chars)
    <3>1. PICK p, q, ls, b : p = lines' /\ q = lineBuf' /\ ls = lines /\ b = lineBuf
      OBVIOUS
    <3>2. ls \in Seq(Seq(Lines!Chars)) /\ b \in Seq(Lines!Chars) /\ StoresTo(ls, b, "n", p, q)
      BY <1>3, <1>4, <3>1
    <3>3. p \in Seq(Seq(Lines!Chars)) /\ q \in Seq(Lines!Chars)
      BY <1>3, <3>2, StoreTypes
    <3>. QED
      BY <3>1, <3>3
  <2>2. wire' \in Seq(Lines!Chars) /\ readIn' \in Seq(Lines!Chars)
    <3>1. wire # <<>> /\ wire[1] = "n" => readIn \o SubSeq(wire, 1, 1) = Append(readIn, "n")
                                          /\ SubSeq(wire, 2, Len(wire)) \in Seq(Lines!Chars)
      BY <1>3, DropOne
    <3>2. Append(readIn, "n") \in Seq(Lines!Chars)
      BY <1>3, AppendProperties
    <3>. QED
      BY <1>3, <1>4, <3>1, <3>2
  <2>. QED
    BY <1>4, <2>1, <2>2 DEF LinesInv, Lines!LineTypeOK
<1>. SUFFICES ASSUME ~interrupted PROVE ReadLineInv'
  BY <1>4, <1>10, <1>11 DEF LinesInv, ReadLineInv
<1>5. /\ Lines!EndsMarked(Append(w, "n"), readIn) /\ LinesEnd(lines, lineBuf)
      /\ readIn # <<>> /\ readIn[Len(readIn)] = "r"
  <2>1. ~AllRead
    BY <1>2 DEF AllRead
  <2>2. Len(readIn) # 0 /\ readIn[Len(readIn)] = "r"
    BY <1>2 DEF LinesInv, ReadLineInv, ReturnInv
  <2>3. readIn # <<>>
    BY <2>2, EmptySeq
  <2>. QED
    BY <1>1, <1>2, <2>1, <2>2, <2>3 DEF LinesInv, ReadLineInv
<1>6. /\ lines' \in Seq(Seq(Lines!Chars)) /\ lineBuf' \in Seq(Lines!Chars)
      /\ Lines!Joined(lines') \o lineBuf' = Append(w, "n")
      /\ LinesEnd(lines', lineBuf') /\ w \in Seq(Lines!Chars)
  <2>1. PICK p, q : p = lines' /\ q = lineBuf'
    OBVIOUS
  <2>2. PICK ls, b, c : ls = lines /\ b = lineBuf /\ c = "n"
    OBVIOUS
  <2>3. StoresTo(ls, b, c, p, q) /\ LinesEnd(ls, b)
    BY <1>4, <1>5, <2>1, <2>2
  <2>4. ls \in Seq(Seq(Lines!Chars)) /\ b \in Seq(Lines!Chars) /\ c \in Lines!Chars
    BY <1>3, <2>2
  <2>5. OneMore(ls, b, c, p, q)
    BY <2>3, <2>4, StoreEffect
  <2>. QED
    BY <1>1, <2>1, <2>2, <2>5 DEF OneMore
<1>7. Append(w, "n") \in Seq(Lines!Chars)
  BY <1>3, <1>6, AppendProperties
<1>8. /\ wire' \in Seq(Lines!Chars) /\ readIn' \in Seq(Lines!Chars)
      /\ Lines!EndsMarked(Append(w, "n"), readIn') /\ ReturnInv'
  <2>1. CASE wire # <<>> /\ wire[1] = "n" /\ wire' = SubSeq(wire, 2, Len(wire))
             /\ readIn' = readIn \o SubSeq(wire, 1, 1)
    <3>1. wire' \in Seq(Lines!Chars) /\ readIn' = Append(readIn, "n")
      BY <1>3, <2>1, DropOne
    <3>2. readIn' \in Seq(Lines!Chars) /\ Len(readIn') = Len(readIn) + 1 /\ readIn'[Len(readIn) + 1] = "n"
      BY <1>3, <3>1, AppendProperties
    <3>3. Lines!EndsMarked(Append(w, "n"), readIn')
      BY <1>3, <1>5, <1>7, <3>1, EndsReturn
    <3>4. ReturnInv'
      BY <1>4, <3>2 DEF ReturnInv
    <3>. QED
      BY <3>1, <3>2, <3>3, <3>4
  <2>2. CASE wire # <<>> /\ wire[1] # "n" /\ wire' = wire /\ readIn' = readIn
    BY <1>3, <1>4, <1>5, <2>2 DEF ReturnInv
  <2>3. CASE wire = <<>> /\ writerAt # "write" /\ wire' = wire /\ readIn' = readIn
    <3>1. AllRead'
      BY <1>4, <2>3 DEF AllRead
    <3>. QED
      BY <1>3, <1>4, <1>5, <2>3, <3>1 DEF ReturnInv
  <2>. QED
    BY <1>4, <2>1, <2>2, <2>3
<1>9. callAt' # "peek"
  BY <1>4
<1>. QED
  BY <1>6, <1>8, <1>9 DEF ReadLineInv

\* The start of a line that is one byte longer.
LEMMA ShortenedAppend ==
  ASSUME NEW most \in Nat \ {0}, NEW l \in Seq(Lines!Chars), NEW c \in Lines!Chars,
         NEW s, s = Lines!Shortened(l, most)
  PROVE  Lines!Shortened(Append(l, c), most) = IF Len(s) < most THEN Append(s, c) ELSE s
<1>1. PICK n : n = Len(l)
  OBVIOUS
<1>2. PICK t : t = Append(l, c)
  OBVIOUS
<1>3. n \in Nat /\ t \in Seq(Lines!Chars) /\ Len(t) = n + 1
  BY <1>1, <1>2, AppendProperties, LenProperties
<1>4. CASE n < most
  <2>1. Len(l) <= most /\ Len(t) <= most
    BY <1>1, <1>3, <1>4
  <2>2. s = l /\ Lines!Shortened(t, most) = t
    BY <2>1 DEF Lines!Shortened
  <2>. QED
    BY <1>1, <1>2, <1>4, <2>2
<1>5. CASE ~(n < most)
  <2>1. ~(Len(t) <= most) /\ most \in 0 .. Len(l)
    BY <1>1, <1>3, <1>5
  <2>2. Lines!Shortened(t, most) = SubSeq(t, 1, most)
    BY <2>1 DEF Lines!Shortened
  <2>3. SubSeq(t, 1, most) = SubSeq(l, 1, most)
    <3>1. 0 \in 0 .. Len(l) /\ 0 + 1 = 1
      BY <1>1, <1>3
    <3>2. SubSeq(Append(l, c), 0 + 1, most) = SubSeq(l, 0 + 1, most)
      BY <2>1, <3>1, PartSame
    <3>. QED
      BY <1>2, <3>1, <3>2
  <2>4. PICK u : u = SubSeq(l, 1, most)
    OBVIOUS
  <2>5. Len(u) = most /\ u \in Seq(Lines!Chars) /\ \A k \in 1 .. most : u[k] = l[k]
    <3>1. \A k \in 1 .. most : l[k] \in Lines!Chars
      BY <2>1, ElementOfSeq
    <3>. QED
      BY <2>4, <3>1, SubSeqProperties
  <2>6. s = u
    <3>1. CASE Len(l) <= most
      <4>1. Len(l) = most
        BY <1>1, <1>3, <1>5, <3>1
      <4>2. u = l
        BY <2>5, <4>1, SeqEqual
      <4>. QED
        BY <3>1, <4>2 DEF Lines!Shortened
    <3>2. CASE ~(Len(l) <= most)
      BY <2>4, <3>2 DEF Lines!Shortened
    <3>. QED
      BY <3>1, <3>2
  <2>7. ~(Len(s) < most)
    BY <2>5, <2>6
  <2>. QED
    BY <1>2, <2>2, <2>3, <2>4, <2>6, <2>7, Zenon
<1>. QED
  BY <1>4, <1>5

LEMMA ShortenedOne ==
  ASSUME NEW most \in Nat \ {0}, NEW c PROVE Lines!Shortened(<<c>>, most) = <<c>>
<1>1. Len(<<c>>) <= most
  OBVIOUS
<1>. QED
  BY <1>1 DEF Lines!Shortened

\* c is taken: into the line that has not ended, or into one of its own.
LEMMA CutTakes ==
  ASSUME NEW most \in Nat \ {0}, NEW ls \in Seq(Seq(Lines!Chars)), NEW l \in Seq(Lines!Chars),
         NEW s \in Seq(Lines!Chars), NEW c \in Lines!Chars, Halfway(ls, l, s, most),
         NEW kept, kept = (IF Len(l) < most THEN Append(l, c) ELSE l)
  PROVE  /\ kept \in Seq(Lines!Chars) /\ kept # <<>>
         /\ StartsOf(Append(ls, kept), Append(s, c), most)
<1>1. PICK t : t = Append(s, c)
  OBVIOUS
<1>2. PICK n : n = Lines!Count(s)
  OBVIOUS
<1>3. PICK m : m = Len(ls)
  OBVIOUS
<1>4. n \in Nat /\ m \in Nat /\ Len(l) \in Nat
  BY <1>2, <1>3, CountIs, LenProperties
<1>5. kept \in Seq(Lines!Chars) /\ kept # <<>>
  <2>1. CASE Len(l) < most
    BY <2>1, AppendProperties
  <2>2. CASE ~(Len(l) < most)
    <3>1. l # <<>>
      <4>1. Len(<<>>) < most
        OBVIOUS
      <4>. QED
        BY <2>2, <4>1
    <3>. QED
      BY <2>2, <3>1
  <2>. QED
    BY <2>1, <2>2
<1>6. PICK u : u = Append(ls, kept)
  OBVIOUS
<1>7. Len(u) = m + 1 /\ u[m + 1] = kept /\ \A k \in 1 .. m : u[k] = ls[k]
  BY <1>3, <1>5, <1>6, AppendProperties
<1>8. SUFFICES /\ Lines!Count(t) = m + 1 /\ kept = Lines!Shortened(Lines!Cut(t)[m + 1], most)
               /\ \A k \in 1 .. m : ls[k] = Lines!Shortened(Lines!Cut(t)[k], most)
  <2>1. ASSUME /\ Lines!Count(t) = m + 1 /\ kept = Lines!Shortened(Lines!Cut(t)[m + 1], most)
               /\ \A k \in 1 .. m : ls[k] = Lines!Shortened(Lines!Cut(t)[k], most),
               NEW k \in 1 .. m + 1
        PROVE  u[k] = Lines!Shortened(Lines!Cut(t)[k], most)
    <3>1. k \in 1 .. m \/ k = m + 1
      BY <1>4, <2>1
    <3>. QED
      BY <1>7, <2>1, <3>1
  <2>. QED
    BY <1>1, <1>5, <1>6, <1>7, <2>1 DEF StartsOf
<1>9. CASE l = <<>> /\ ~Unfinished(s) /\ StartsOf(ls, s, most)
  <2>1. m = n /\ \A k \in 1 .. m : ls[k] = Lines!Shortened(Lines!Cut(s)[k], most)
    BY <1>2, <1>3, <1>9 DEF StartsOf
  <2>2. s = <<>> \/ s[Len(s)] = "n"
    BY <1>9 DEF Unfinished
  <2>3. /\ Lines!Count(t) = n + 1 /\ Lines!Cut(t)[n + 1] = <<c>>
        /\ \A k \in 1 .. n : Lines!Cut(t)[k] = Lines!Cut(s)[k]
    BY <1>1, <1>2, <2>2, CutAppend
  <2>4. kept = <<c>>
    <3>1. Len(<<>>) < most
      OBVIOUS
    <3>2. Append(<<>>, c) = <<c>>
      OBVIOUS
    <3>. QED
      BY <1>9, <3>1, <3>2
  <2>5. Lines!Shortened(<<c>>, most) = <<c>>
    BY ShortenedOne
  <2>. QED
    BY <2>1, <2>3, <2>4, <2>5
<1>10. CASE l # <<>> /\ Unfinished(s) /\ StartsOf(Append(ls, l), s, most)
  <2>1. PICK v : v = Append(ls, l)
    OBVIOUS
  <2>2. Len(v) = m + 1 /\ v[m + 1] = l /\ \A k \in 1 .. m : v[k] = ls[k]
    BY <1>3, <2>1, AppendProperties
  <2>3. n = m + 1 /\ \A k \in 1 .. m + 1 : v[k] = Lines!Shortened(Lines!Cut(s)[k], most)
    BY <1>2, <1>10, <2>1, <2>2 DEF StartsOf
  <2>4. ~(s = <<>> \/ s[Len(s)] = "n")
    BY <1>10 DEF Unfinished
  <2>5. /\ Lines!Count(t) = n /\ Lines!Cut(t)[n] = Append(Lines!Cut(s)[n], c)
        /\ \A k \in 1 .. n - 1 : Lines!Cut(t)[k] = Lines!Cut(s)[k]
    <3>1. IF s = <<>> \/ s[Len(s)] = "n"
          THEN /\ Lines!Count(Append(s, c)) = n + 1 /\ Lines!Cut(Append(s, c))[n + 1] = <<c>>
               /\ \A k \in 1 .. n : Lines!Cut(Append(s, c))[k] = Lines!Cut(s)[k]
          ELSE /\ Lines!Count(Append(s, c)) = n /\ Lines!Cut(Append(s, c))[n] = Append(Lines!Cut(s)[n], c)
               /\ \A k \in 1 .. n - 1 : Lines!Cut(Append(s, c))[k] = Lines!Cut(s)[k]
      BY ONLY <1>2, CutAppend, s \in Seq(Lines!Chars), c \in Lines!Chars
    <3>. QED
      BY <1>1, <2>4, <3>1
  <2>6. m + 1 \in 1 .. m + 1 /\ n - 1 = m /\ n \in 1 .. Lines!Count(s)
    BY <1>2, <1>4, <2>3
  <2>7. l = Lines!Shortened(Lines!Cut(s)[n], most) /\ Lines!Cut(s)[n] \in Seq(Lines!Chars)
    BY <1>2, <2>2, <2>3, <2>6, CutIs
  <2>8. kept = Lines!Shortened(Append(Lines!Cut(s)[n], c), most)
    BY <2>7, ShortenedAppend
  <2>9. ASSUME NEW k \in 1 .. m PROVE ls[k] = Lines!Shortened(Lines!Cut(t)[k], most)
    <3>1. k \in 1 .. m + 1 /\ k \in 1 .. n - 1
      BY <1>4, <2>6
    <3>. QED
      BY <2>2, <2>3, <2>5, <3>1
  <2>. QED
    BY <2>3, <2>5, <2>8, <2>9
<1>. QED
  BY <1>9, <1>10 DEF Halfway

LEMMA StartsIs ==
  ASSUME NEW ls \in Seq(Seq(Lines!Chars)), NEW s, NEW most, StartsOf(ls, s, most)
  PROVE  ls = Lines!Starts(s, most)
<1>1. ls = [k \in 1 .. Len(ls) |-> ls[k]]
  OBVIOUS
<1>. QED
  BY <1>1 DEF StartsOf, Lines!Starts

LEMMA LinesReadCh ==
  ASSUME LinesInv, Lines!ReadCh
  PROVE  LinesInv'
<1>1. PICK c : c = wire[1]
  OBVIOUS
<1>2. PICK kept : kept = (IF Len(lineBuf) < Room - 1 THEN Append(lineBuf, c) ELSE lineBuf)
  OBVIOUS
<1>3. routine = "readLine" /\ callAt = "byte" /\ wire # <<>>
  BY DEF Lines!ReadCh
<1>4. /\ wire \in Seq(Lines!Chars) /\ readIn \in Seq(Lines!Chars) /\ lineBuf \in Seq(Lines!Chars)
      /\ lines \in Seq(Seq(Lines!Chars))
  BY LinesTypes
<1>5. /\ Head(wire) = c /\ c \in Lines!Chars /\ SubSeq(wire, 2, Len(wire)) \in Seq(Lines!Chars)
      /\ readIn \o SubSeq(wire, 1, 1) = Append(readIn, c)
  BY <1>1, <1>3, <1>4, DropOne
<1>6. /\ wire' = SubSeq(wire, 2, Len(wire)) /\ readIn' = Append(readIn, c)
      /\ UNCHANGED <<routine, interrupted, text, ptr, writerAt, callAt, chunk, forgotten>>
      /\ \/ c = "n" /\ lines' = Append(lines, kept) /\ lineBuf' = <<>>
         \/ c # "n" /\ lineBuf' = kept /\ lines' = lines
  BY <1>2, <1>5 DEF Lines!ReadCh, Lines!Drop, Lines!Returns
<1>7. ~AllRead
  BY <1>3 DEF AllRead
<1>8. Halfway(lines, lineBuf, readIn, Room - 1)
  BY <1>3, <1>7 DEF LinesInv, CutInv
<1>9. kept \in Seq(Lines!Chars) /\ kept # <<>> /\ StartsOf(Append(lines, kept), readIn', Room - 1)
  <2>1. PICK ls, l, s, most : ls = lines /\ l = lineBuf /\ s = readIn /\ most = Room - 1
    OBVIOUS
  <2>2. /\ ls \in Seq(Seq(Lines!Chars)) /\ l \in Seq(Lines!Chars) /\ s \in Seq(Lines!Chars)
        /\ kept = (IF Len(l) < most THEN Append(l, c) ELSE l) /\ Halfway(ls, l, s, most)
    BY <1>2, <1>4, <1>8, <2>1
  <2>3. most \in Nat \ {0}
    BY <2>1, LinesAssumption
  <2>4. kept \in Seq(Lines!Chars) /\ kept # <<>> /\ StartsOf(Append(ls, kept), Append(s, c), most)
    BY <1>5, <2>2, <2>3, CutTakes
  <2>. QED
    BY <1>6, <2>1, <2>4
<1>10. /\ readIn' \in Seq(Lines!Chars) /\ readIn' # <<>> /\ readIn'[Len(readIn')] = c
       /\ Append(lines, kept) \in Seq(Seq(Lines!Chars))
  <2>1. PICK r : r = readIn'
    OBVIOUS
  <2>2. r \in Seq(Lines!Chars) /\ Len(r) = Len(readIn) + 1 /\ r[Len(readIn) + 1] = c
    BY <1>4, <1>5, <1>6, <2>1, AppendProperties
  <2>3. r # <<>>
    <3>1. Len(readIn) \in Nat
      BY <1>4, LenProperties
    <3>. QED
      BY <2>2, <3>1, EmptySeq
  <2>4. Append(lines, kept) \in Seq(Seq(Lines!Chars))
    BY <1>4, <1>9, AppendProperties
  <2>. QED
    BY <2>1, <2>2, <2>3, <2>4
<1>11. CutInv'
  BY <1>6, <1>9, <1>10 DEF CutInv, Halfway, Unfinished
<1>12. ReadLineInv' /\ BufferedInv'
  BY <1>3, <1>6 DEF ReadLineInv, BufferedInv
<1>13. Lines!LineTypeOK'
  <2>1. lines' \in Seq(Seq(Lines!Chars)) /\ lineBuf' \in Seq(Lines!Chars)
    BY <1>4, <1>6, <1>9, <1>10, EmptySeq
  <2>. QED
    BY <1>5, <1>6, <1>10, <2>1 DEF LinesInv, Lines!LineTypeOK
<1>. QED
  BY <1>11, <1>12, <1>13 DEF LinesInv

\* The end of the stream makes a line of what there is.
LEMMA LinesReadEnd ==
  ASSUME LinesInv, Lines!ReadEnd
  PROVE  LinesInv'
<1>1. /\ callAt = "byte" /\ wire = <<>> /\ writerAt # "write"
      /\ UNCHANGED <<routine, interrupted, text, ptr, writerAt, wire, readIn, chunk, forgotten>>
      /\ \/ lineBuf # <<>> /\ lines' = Append(lines, lineBuf) /\ lineBuf' = <<>> /\ callAt' = callAt
         \/ /\ callAt' = "over" /\ lines' = lines /\ lineBuf' = lineBuf
            /\ lineBuf = <<>> \/ routine # "read_line"
  BY DEF Lines!ReadEnd, Lines!LineOrNone, Lines!Returns
<1>2. /\ readIn \in Seq(Lines!Chars) /\ lineBuf \in Seq(Lines!Chars) /\ lines \in Seq(Seq(Lines!Chars))
      /\ Len(lineBuf) \in Nat /\ Len(lines) \in Nat
  BY LinesTypes
<1>3. /\ AllRead /\ AllRead' /\ callAt # "peek" /\ callAt' # "peek"
      /\ (routine = "read_line" => lineBuf' = <<>>)
  BY <1>1 DEF AllRead
<1>4. /\ lines' \in Seq(Seq(Lines!Chars)) /\ lineBuf' \in Seq(Lines!Chars)
      /\ Lines!Joined(lines') \o lineBuf' = Lines!Joined(lines) \o lineBuf
  <2>1. CASE lines' = lines /\ lineBuf' = lineBuf
    BY <1>2, <2>1
  <2>2. CASE lines' = Append(lines, lineBuf) /\ lineBuf' = <<>>
    <3>1. PICK w : w = Lines!Joined(lines) \o lineBuf
      OBVIOUS
    <3>2. w \in Seq(Lines!Chars) /\ Lines!Joined(lines') = w
      BY <1>2, <2>2, <3>1, LinesJoined, ConcatProperties
    <3>3. w \o <<>> = w
      BY <3>2, ConcatEmptySeq
    <3>4. lines' \in Seq(Seq(Lines!Chars)) /\ lineBuf' \in Seq(Lines!Chars)
      BY <1>2, <2>2, AppendProperties, EmptySeq
    <3>. QED
      BY <2>2, <3>1, <3>2, <3>3, <3>4
  <2>. QED
    BY <1>1, <2>1, <2>2
<1>5. Lines!LineTypeOK'
  BY <1>1, <1>4 DEF LinesInv, Lines!LineTypeOK
<1>6. ASSUME routine = "read_line", ~interrupted PROVE ReadLineInv'
  <2>1. /\ Lines!EndsMarked(Lines!Joined(lines) \o lineBuf, readIn) /\ ReturnInv
        /\ LinesEnd(lines, lineBuf) \/ (lineBuf = <<>> /\ LastOpen(lines))
    BY <1>3, <1>6 DEF LinesInv, ReadLineInv
  <2>2. ReturnInv'
    BY <1>1, <1>3, <2>1 DEF ReturnInv
  <2>3. Lines!EndsMarked(Lines!Joined(lines') \o lineBuf', readIn')
    BY <1>1, <1>4, <2>1
  <2>4. LastOpen(lines')
    <3>1. CASE lineBuf = <<>> /\ lines' = lines
      BY <2>1, <3>1 DEF LinesEnd, LastOpen
    <3>2. CASE lineBuf # <<>> /\ lines' = Append(lines, lineBuf)
      <4>1. LinesEnd(lines, lineBuf)
        BY <2>1, <3>2
      <4>2. PICK n, l, ls : n = Len(lines) /\ l = lineBuf /\ ls = lines'
        OBVIOUS
      <4>3. n \in Nat /\ Len(ls) = n + 1 /\ ls[n + 1] = l /\ \A k \in 1 .. n : ls[k] = lines[k]
        BY <1>2, <3>2, <4>2, AppendProperties
      <4>4. OneLineOf(l)
        <5>1. Len(l) \in Nat /\ Len(l) # 0 /\ Len(l) < Room - 1 /\ \A j \in 1 .. Len(l) : l[j] # "n"
          BY <1>2, <3>2, <4>1, <4>2, EmptySeq DEF LinesEnd
        <5>2. Room - 1 \in Nat
          BY LinesAssumption
        <5>. QED
          BY <5>1, <5>2 DEF OneLineOf
      <4>5. \A k \in 1 .. n : OneLineOf(lines[k]) /\ Ended(lines[k])
        BY <4>1, <4>2 DEF LinesEnd
      <4>6. ASSUME NEW k \in 1 .. n + 1 PROVE OneLineOf(ls[k]) /\ (Ended(ls[k]) \/ k = n + 1)
        <5>1. k \in 1 .. n \/ k = n + 1
          BY <4>3, <4>6
        <5>. QED
          BY <4>3, <4>4, <4>5, <5>1
      <4>. QED
        BY <4>2, <4>3, <4>6 DEF LastOpen
    <3>. QED
      BY <1>1, <1>6, <3>1, <3>2
  <2>. QED
    BY <1>3, <1>6, <2>2, <2>3, <2>4 DEF ReadLineInv
<1>7. ASSUME routine = "readLine" PROVE CutInv'
  <2>1. CASE lines' = lines /\ lineBuf' = lineBuf
    BY <1>1, <1>3, <1>7, <2>1 DEF LinesInv, CutInv
  <2>2. CASE lineBuf # <<>> /\ lines' = Append(lines, lineBuf) /\ lineBuf' = <<>>
    <3>1. StartsOf(lines', readIn', Room - 1)
      BY <1>1, <1>7, <2>2 DEF LinesInv, CutInv, Halfway
    <3>. QED
      BY <1>3, <2>2, <3>1 DEF CutInv
  <2>. QED
    BY <1>1, <2>1, <2>2
<1>8. ReadLineInv' /\ CutInv'
  BY <1>1, <1>6, <1>7 DEF ReadLineInv, CutInv
<1>9. BufferedInv'
  <2>1. chunk' = chunk /\ readIn' = readIn /\ forgotten' = forgotten /\ routine' = routine
    BY <1>1
  <2>. QED
    BY <1>4, <2>1 DEF LinesInv, BufferedInv
<1>. QED
  BY <1>5, <1>8, <1>9 DEF LinesInv

LEMMA LinesInterrupted ==
  ASSUME LinesInv, Lines!Interrupted
  PROVE  LinesInv'
<1>1. /\ routine = "read_line" /\ interrupted' = TRUE
      /\ UNCHANGED <<routine, text, ptr, writerAt, wire, readIn, chunk, forgotten>>
      /\ callAt' \in {"byte", "over"}
      /\ \/ lines' = Append(lines, lineBuf) /\ lineBuf' = <<>>
         \/ lines' = lines /\ lineBuf' = lineBuf
         \/ StoresTo(lines, lineBuf, "n", lines', lineBuf')
  BY DEF Lines!Interrupted, Lines!LineOrNone, Lines!Store, Lines!Returns, StoresTo
<1>2. lineBuf \in Seq(Lines!Chars) /\ lines \in Seq(Seq(Lines!Chars)) /\ "n" \in Lines!Chars
  BY LinesTypes DEF Lines!Chars
<1>3. lines' \in Seq(Seq(Lines!Chars)) /\ lineBuf' \in Seq(Lines!Chars)
  <2>1. Append(lines, lineBuf) \in Seq(Seq(Lines!Chars)) /\ <<>> \in Seq(Lines!Chars)
    BY <1>2, AppendProperties, EmptySeq
  <2>2. PICK p, q, ls, b : p = lines' /\ q = lineBuf' /\ ls = lines /\ b = lineBuf
    OBVIOUS
  <2>3. StoresTo(ls, b, "n", p, q) => p \in Seq(Seq(Lines!Chars)) /\ q \in Seq(Lines!Chars)
    BY <1>2, <2>2, StoreTypes
  <2>. QED
    BY <1>1, <1>2, <2>1, <2>2, <2>3
<1>4. Lines!LineTypeOK'
  BY <1>1, <1>3 DEF LinesInv, Lines!LineTypeOK
<1>5. ReadLineInv' /\ CutInv' /\ BufferedInv'
  BY <1>1 DEF ReadLineInv, CutInv, BufferedInv
<1>. QED
  BY <1>4, <1>5 DEF LinesInv

LEMMA LinesRefill ==
  ASSUME LinesInv, Lines!Refill
  PROVE  LinesInv'
<1>1. /\ routine = "read_line_buffered" /\ callAt = "refill" /\ chunk = <<>>
      /\ UNCHANGED <<routine, interrupted, text, ptr, writerAt, lineBuf, lines, forgotten>>
      /\ \/ wire # <<>> /\ chunk' = wire /\ wire' = SubSeq(wire, Len(wire) + 1, Len(wire))
            /\ readIn' = readIn \o SubSeq(wire, 1, Len(wire)) /\ callAt' = callAt
         \/ callAt' = "over" /\ UNCHANGED <<chunk, wire, readIn>>
  BY DEF Lines!Refill, Lines!Drop
<1>2. /\ wire \in Seq(Lines!Chars) /\ readIn \in Seq(Lines!Chars) /\ lineBuf \in Seq(Lines!Chars)
      /\ lines \in Seq(Seq(Lines!Chars)) /\ Len(wire) \in Nat
  BY LinesTypes
<1>3. ReadLineInv' /\ CutInv'
  BY <1>1 DEF ReadLineInv, CutInv
<1>4. CASE callAt' = "over" /\ UNCHANGED <<chunk, wire, readIn>>
  <2>1. Lines!LineTypeOK' /\ BufferedInv'
    BY <1>1, <1>4 DEF LinesInv, Lines!LineTypeOK, BufferedInv
  <2>. QED
    BY <1>3, <2>1 DEF LinesInv
<1>5. CASE /\ chunk' = wire /\ wire' = SubSeq(wire, Len(wire) + 1, Len(wire))
           /\ readIn' = readIn \o SubSeq(wire, 1, Len(wire)) /\ callAt' = callAt
  <2>1. wire' = <<>>
    BY <1>2, <1>5, SubSeqEmpty
  <2>2. SubSeq(wire, 1, Len(wire)) = wire
    <3>1. PICK u : u = SubSeq(wire, 1, Len(wire))
      OBVIOUS
    <3>2. \A k \in 1 .. Len(wire) : wire[k] \in Lines!Chars
      BY <1>2, ElementOfSeq
    <3>3. u \in Seq(Lines!Chars) /\ Len(u) = Len(wire) /\ \A k \in 1 .. Len(wire) : u[k] = wire[k]
      BY <1>2, <3>1, <3>2, SubSeqProperties
    <3>4. u = wire
      BY <1>2, <3>3, SeqEqual
    <3>. QED
      BY <3>1, <3>4
  <2>3. readIn' = readIn \o wire /\ readIn' \in Seq(Lines!Chars)
    BY <1>2, <1>5, <2>2, ConcatProperties
  <2>4. Lines!LineTypeOK'
    <3>1. wire' \in Seq(Lines!Chars)
      BY <2>1
    <3>. QED
      BY <1>1, <1>2, <1>5, <2>3, <3>1 DEF LinesInv, Lines!LineTypeOK
  <2>5. BufferedInv'
    <3>1. PICK w : w = Lines!Joined(lines) \o lineBuf
      OBVIOUS
    <3>2. w \in Seq(Lines!Chars)
      BY <1>2, <3>1, LinesJoined, ConcatProperties
    <3>3. w \o <<>> = w
      BY <3>2, ConcatEmptySeq
    <3>4. forgotten \/ w = readIn
      BY <1>1, <3>1, <3>3 DEF LinesInv, BufferedInv
    <3>. QED
      BY <1>1, <1>5, <2>3, <3>1, <3>4 DEF BufferedInv
  <2>. QED
    BY <1>3, <2>4, <2>5 DEF LinesInv
<1>. QED
  BY <1>1, <1>4, <1>5

LEMMA LinesMoveByte ==
  ASSUME LinesInv, Lines!MoveByte
  PROVE  LinesInv'
<1>1. PICK c : c = chunk[1]
  OBVIOUS
<1>2. routine = "read_line_buffered" /\ callAt = "refill" /\ chunk # <<>>
  BY DEF Lines!MoveByte
<1>3. /\ chunk \in Seq(Lines!Chars) /\ lineBuf \in Seq(Lines!Chars) /\ lines \in Seq(Seq(Lines!Chars))
  BY LinesTypes
<1>4. /\ Len(chunk) \in Nat \ {0} /\ Head(chunk) = c /\ c \in Lines!Chars /\ Tail(chunk) \in Seq(Lines!Chars)
      /\ Append(lineBuf, c) = lineBuf \o <<c>> /\ <<c>> \in Seq(Lines!Chars)
  <2>1. Head(chunk) = c /\ c \in Lines!Chars /\ Len(chunk) \in Nat \ {0}
    BY <1>1, <1>2, <1>3, DropOne
  <2>2. Tail(chunk) \in Seq(Lines!Chars)
    BY <1>2, <1>3, HeadTailProperties
  <2>3. Append(lineBuf, c) = lineBuf \o <<c>> /\ <<c>> \in Seq(Lines!Chars)
    BY <1>3, <2>1, AppendIsConcat
  <2>. QED
    BY <2>1, <2>2, <2>3
<1>5. PICK f : f = Append(lineBuf, c)
  OBVIOUS
<1>6. /\ UNCHANGED <<routine, interrupted, text, ptr, writerAt, wire, readIn>> /\ callAt' \in {"over", "refill"}
      /\ \/ /\ c = "n" /\ lines' = Append(lines, f) /\ lineBuf' = <<>> /\ chunk' = <<>>
            /\ forgotten' = (forgotten \/ Len(chunk) > 1)
         \/ c # "n" /\ lineBuf' = f /\ chunk' = Tail(chunk) /\ lines' = lines /\ forgotten' = forgotten
  BY <1>2, <1>4, <1>5 DEF Lines!MoveByte, Lines!Returns
<1>7. ReadLineInv' /\ CutInv'
  BY <1>2, <1>6 DEF ReadLineInv, CutInv
<1>8. PICK w : w = Lines!Joined(lines)
  OBVIOUS
<1>9. /\ f \in Seq(Lines!Chars) /\ w \in Seq(Lines!Chars) /\ w \o lineBuf \in Seq(Lines!Chars)
      /\ w \o f = (w \o lineBuf) \o <<c>>
  <2>1. f \in Seq(Lines!Chars) /\ w \in Seq(Lines!Chars)
    BY <1>3, <1>4, <1>5, <1>8, AppendProperties, LinesJoined
  <2>2. w \o lineBuf \in Seq(Lines!Chars)
    BY <1>3, <2>1, ConcatProperties
  <2>3. (w \o lineBuf) \o <<c>> = w \o (lineBuf \o <<c>>)
    BY <1>3, <1>4, <2>1, ConcatAssociative, SMTT(20)
  <2>. QED
    BY <1>4, <1>5, <2>1, <2>2, <2>3
<1>10. <<c>> \o Tail(chunk) = chunk
  <2>1. PICK t : t = Tail(chunk)
    OBVIOUS
  <2>2. PICK u : u = <<c>> \o t
    OBVIOUS
  <2>3. t \in Seq(Lines!Chars) /\ Len(t) = Len(chunk) - 1 /\ \A k \in 1 .. Len(t) : t[k] = chunk[k + 1]
    BY <1>2, <1>3, <2>1, HeadTailProperties
  <2>4. Len(<<c>>) = 1 /\ <<c>>[1] = c
    OBVIOUS
  <2>5. /\ u \in Seq(Lines!Chars) /\ Len(u) = 1 + Len(t)
        /\ \A k \in 1 .. 1 + Len(t) : u[k] = IF k <= 1 THEN <<c>>[k] ELSE t[k - 1]
    BY <1>4, <2>2, <2>3, <2>4, ConcatProperties
  <2>6. ASSUME NEW k \in 1 .. Len(u) PROVE u[k] = chunk[k]
    <3>1. CASE k = 1
      BY <1>1, <2>4, <2>5, <2>6, <3>1
    <3>2. CASE k # 1
      <4>1. PICK n : n = Len(t)
        OBVIOUS
      <4>2. n \in Nat /\ k \in 1 .. 1 + n
        BY <1>4, <2>3, <2>5, <2>6, <4>1
      <4>3. k - 1 \in 1 .. n /\ ~(k <= 1) /\ (k - 1) + 1 = k
        BY <3>2, <4>2
      <4>. QED
        BY <2>3, <2>5, <4>1, <4>2, <4>3
    <3>. QED
      BY <3>1, <3>2
  <2>7. Len(u) = Len(chunk)
    BY <1>4, <2>3, <2>5
  <2>8. u = chunk
    BY <1>3, <2>5, <2>6, <2>7, SeqEqual
  <2>. QED
    BY <2>1, <2>2, <2>8
<1>11. lines' \in Seq(Seq(Lines!Chars)) /\ lineBuf' \in Seq(Lines!Chars) /\ chunk' \in Seq(Lines!Chars)
  <2>1. Append(lines, f) \in Seq(Seq(Lines!Chars)) /\ <<>> \in Seq(Lines!Chars)
    BY <1>3, <1>9, AppendProperties, EmptySeq
  <2>. QED
    BY <1>3, <1>4, <1>6, <1>9, <2>1
<1>12. Lines!LineTypeOK'
  BY <1>6, <1>11 DEF LinesInv, Lines!LineTypeOK
<1>13. forgotten' \/ Lines!Joined(lines') \o lineBuf' \o chunk' = readIn'
  <2>1. forgotten \/ (w \o lineBuf) \o chunk = readIn
    BY <1>2, <1>8 DEF LinesInv, BufferedInv
  <2>2. ((w \o lineBuf) \o <<c>>) \o Tail(chunk) = (w \o lineBuf) \o chunk
    <3>1. PICK u, t : u = w \o lineBuf /\ t = Tail(chunk)
      OBVIOUS
    <3>2. u \in Seq(Lines!Chars) /\ <<c>> \in Seq(Lines!Chars) /\ t \in Seq(Lines!Chars)
      BY <1>4, <1>9, <3>1
    <3>3. (u \o <<c>>) \o t = u \o (<<c>> \o t)
      BY <3>2, ConcatAssociative
    <3>. QED
      BY <1>10, <3>1, <3>3
  <2>3. CASE c # "n" /\ lineBuf' = f /\ chunk' = Tail(chunk) /\ lines' = lines /\ forgotten' = forgotten
    BY <1>6, <1>8, <1>9, <2>1, <2>2, <2>3
  <2>4. CASE /\ c = "n" /\ lines' = Append(lines, f) /\ lineBuf' = <<>> /\ chunk' = <<>>
             /\ forgotten' = (forgotten \/ Len(chunk) > 1)
    <3>1. CASE Len(chunk) > 1
      BY <2>4, <3>1
    <3>2. CASE ~(Len(chunk) > 1)
      <4>1. Tail(chunk) = <<>>
        <5>1. Len(Tail(chunk)) = 0
          BY <1>2, <1>3, <1>4, <3>2, HeadTailProperties
        <5>. QED
          BY <1>4, <5>1, EmptySeq
      <4>2. PICK v : v = w \o f
        OBVIOUS
      <4>3. v \in Seq(Lines!Chars) /\ Lines!Joined(lines') = v
        BY <1>3, <1>8, <1>9, <2>4, <4>2, LinesJoined, ConcatProperties
      <4>4. v \o <<>> = v
        BY <4>3, ConcatEmptySeq
      <4>5. v = (w \o lineBuf) \o chunk
        BY <1>9, <2>2, <4>1, <4>2, <4>4
      <4>. QED
        BY <1>6, <2>1, <2>4, <4>3, <4>4, <4>5
    <3>. QED
      BY <3>1, <3>2
  <2>. QED
    BY <1>6, <2>3, <2>4
<1>14. BufferedInv'
  BY <1>13 DEF BufferedInv
<1>. QED
  BY <1>7, <1>12, <1>14 DEF LinesInv

LEMMA LinesStep == LinesInv /\ (Lines!Next \/ UNCHANGED lineVars) => LinesInv'
<1>. SUFFICES ASSUME LinesInv, Lines!Next \/ UNCHANGED lineVars PROVE LinesInv'
  OBVIOUS
<1>1. CASE UNCHANGED lineVars
  <2>1. Lines!LineTypeOK'
    BY <1>1 DEF LinesInv, lineVars, Lines!LineTypeOK
  <2>2. ReadLineInv' /\ CutInv' /\ BufferedInv'
    BY <1>1 DEF LinesInv, lineVars, ReadLineInv, CutInv, BufferedInv, ReturnInv, AllRead
  <2>. QED
    BY <2>1, <2>2 DEF LinesInv
<1>2. CASE Lines!Next
  BY <1>2, LinesWrite, LinesReset, LinesReadByte, LinesPeek, LinesReadCh, LinesReadEnd,
     LinesInterrupted, LinesRefill, LinesMoveByte
     DEF Lines!Next
<1>. QED
  BY <1>1, <1>2

LEMMA LinesInit == Lines!Init => LinesInv
<1>. SUFFICES ASSUME Lines!Init PROVE LinesInv
  OBVIOUS
<1>1. /\ routine \in {"read_line", "read_line_buffered", "readLine"}
      /\ text \in Lines!Texts /\ ptr = 0 /\ writerAt = "write" /\ wire = <<>> /\ readIn = <<>>
      /\ callAt \in {"refill", "byte"} /\ chunk = <<>> /\ lineBuf = <<>> /\ lines = <<>>
      /\ forgotten = FALSE /\ interrupted = FALSE
  BY DEF Lines!Init
<1>2. <<>> \in Seq(Lines!Chars) /\ <<>> \in Seq(Seq(Lines!Chars)) /\ Len(<<>>) = 0
  BY EmptySeq
<1>3. Lines!LineTypeOK
  <2>1. PICK k \in 0 .. MaxText : text \in [1 .. k -> Lines!Chars]
    BY <1>1 DEF Lines!Texts
  <2>2. Len(text) \in Nat
    BY <2>1, LinesAssumption
  <2>3. ptr \in 0 .. Len(text)
    BY <1>1, <2>2
  <2>4. {wire, readIn, chunk, lineBuf} \subseteq Seq(Lines!Chars) /\ lines \in Seq(Seq(Lines!Chars))
    BY <1>1, <1>2
  <2>. QED
    BY <1>1, <2>3, <2>4 DEF Lines!LineTypeOK
<1>4. <<>> \o <<>> = <<>> /\ Lines!Joined(<<>>) = <<>>
  BY <1>2, ConcatEmptySeq, LinesJoined
<1>5. ReadLineInv
  <2>1. ReturnInv
    BY <1>1, <1>2 DEF ReturnInv
  <2>2. LinesEnd(<<>>, <<>>)
    <3>1. 0 < Room - 1
      BY LinesAssumption
    <3>. QED
      BY <1>2, <3>1 DEF LinesEnd
  <2>. QED
    BY <1>1, <1>4, <2>1, <2>2, EndsNone DEF ReadLineInv
<1>6. CutInv
  <2>1. ~Unfinished(<<>>) /\ StartsOf(<<>>, <<>>, Room - 1)
    BY <1>2 DEF Unfinished, StartsOf, Lines!Count
  <2>. QED
    BY <1>1, <2>1 DEF CutInv, Halfway
<1>7. BufferedInv
  BY <1>1, <1>4 DEF BufferedInv
<1>. QED
  BY <1>3, <1>5, <1>6, <1>7 DEF LinesInv

LEMMA LinesSplitSo == LinesInv => Lines!LinesSplit
<1>. SUFFICES ASSUME LinesInv PROVE Lines!LinesSplit
  OBVIOUS
<1>1. /\ routine \in {"read_line", "read_line_buffered", "readLine"} /\ readIn \in Seq(Lines!Chars)
      /\ lineBuf \in Seq(Lines!Chars) /\ lines \in Seq(Seq(Lines!Chars)) /\ Len(lines) \in Nat
  BY LinesTypes
<1>2. ASSUME routine = "read_line", ~interrupted
      PROVE  /\ Lines!EndsMarked(Lines!Joined(lines) \o lineBuf
                                   \o (IF callAt = "peek" THEN <<"n">> ELSE <<>>), readIn)
             /\ \A k \in 1 .. Len(lines) :
                  LET l == lines[k] IN
                  /\ \A j \in 1 .. Len(l) - 1 : l[j] # "n"
                  /\ l[Len(l)] = "n" \/ Len(l) = Room - 1 \/ (k = Len(lines) /\ writerAt # "write")
                  /\ Len(l) < Room
  <2>1. PICK w : w = Lines!Joined(lines) \o lineBuf
    OBVIOUS
  <2>2. w \in Seq(Lines!Chars)
    BY <1>1, <2>1, LinesJoined, ConcatProperties
  <2>3. w \o <<>> = w /\ w \o <<"n">> = Append(w, "n")
    <3>1. "n" \in Lines!Chars
      BY DEF Lines!Chars
    <3>. QED
      BY <2>2, <3>1, ConcatEmptySeq, AppendIsConcat
  <2>4. Lines!EndsMarked(IF callAt = "peek" THEN Append(w, "n") ELSE w, readIn)
    BY <1>2, <2>1 DEF LinesInv, ReadLineInv
  <2>5. Lines!EndsMarked(w \o (IF callAt = "peek" THEN <<"n">> ELSE <<>>), readIn)
    BY <2>3, <2>4
  <2>6. LinesEnd(lines, lineBuf) \/ (AllRead /\ LastOpen(lines))
    BY <1>2 DEF LinesInv, ReadLineInv
  <2>7. ASSUME NEW k \in 1 .. Len(lines)
        PROVE  /\ OneLineOf(lines[k])
               /\ Ended(lines[k]) \/ (k = Len(lines) /\ writerAt # "write")
    BY <2>6 DEF LinesEnd, LastOpen, AllRead
  <2>8. \A l : OneLineOf(l) => Len(l) < Room
    <3>1. Room \in Nat
      BY LinesAssumption
    <3>. QED
      BY <3>1 DEF OneLineOf
  <2>. QED
    BY <2>1, <2>5, <2>7, <2>8 DEF OneLineOf, Ended
<1>3. ASSUME routine = "readLine"
      PROVE  Lines!WithBegun(lines, lineBuf) = Lines!Starts(readIn, Room - 1)
  <2>1. PICK ls : ls = Lines!WithBegun(lines, lineBuf)
    OBVIOUS
  <2>2. ls \in Seq(Seq(Lines!Chars))
    BY <1>1, <2>1, AppendProperties DEF Lines!WithBegun
  <2>3. StartsOf(ls, readIn, Room - 1)
    BY <1>3, <2>1 DEF LinesInv, CutInv, Halfway, Lines!WithBegun
  <2>. QED
    BY <2>1, <2>2, <2>3, StartsIs
<1>4. routine = "read_line_buffered" => forgotten \/ Lines!Joined(lines) \o lineBuf \o chunk = readIn
  BY DEF LinesInv, BufferedInv
<1>. QED
  BY <1>1, <1>2, <1>3, <1>4 DEF Lines!LinesSplit

-----------------------------------------------------------------------------
(* ThreadsServer                                                           *)

\* Descriptors are given out in turn, and main's client_fd is the last of them.
ThreadTypes ==
  /\ pc \in {"accept", "create", "exited"} /\ accepted \in 0 .. MaxClients /\ client_fd = accepted
  /\ pc = "create" => accepted # 0
  /\ threadPc \in [Threads!Clients -> {"none", "start", "recv", "end"}]
  /\ fd \in [Threads!Clients -> Threads!Clients \union {0}]
  /\ buf \in [Threads!Clients -> Seq(Threads!Chars)]
  /\ unread \in [Threads!Clients -> Seq(Threads!Chars)]
  /\ heard \in [Threads!Clients -> Seq(Threads!Chars)]
  /\ answers \in [Threads!Clients -> Seq(Seq(Threads!Chars))]
  /\ hungUp \subseteq Threads!Clients /\ broken \subseteq Threads!Clients

\* A thread has a descriptor, and may have bytes, from when it has read client_fd.
StartInv ==
  \A t \in Threads!Clients :
    /\ threadPc[t] # "none" => t <= accepted /\ (pc = "create" => t # accepted)
    /\ threadPc[t] \in {"none", "start"} => fd[t] = 0 /\ buf[t] = <<>>
    /\ threadPc[t] \in {"recv", "end"} => fd[t] # 0

FitInv == \A t \in Threads!Clients : Len(buf[t]) <= BufSize

\* Nothing is done with the bytes of a client that no thread serves.
UnservedInv ==
  \A c \in Threads!Clients :
    (\A t \in Threads!Clients : fd[t] # c) => answers[c] = <<>> /\ heard[c] = <<>>

Single(t, c) == \A u \in Threads!Clients : fd[u] = c <=> u = t

\* What a thread alone with its client has not sent back is the line that has begun.
ServedInv ==
  \A c, t \in Threads!Clients :
    Single(t, c) => Halfway(answers[c], buf[t], heard[c], BufSize)

LineInv == ThreadTypes /\ StartInv /\ FitInv /\ UnservedInv /\ ServedInv

LEMMA StoredType ==
  ASSUME NEW s \in Seq(Threads!Chars), NEW ch \in Threads!Chars
  PROVE  /\ Threads!Stored(s, ch) \in Seq(Threads!Chars)
         /\ Len(s) <= BufSize => Len(Threads!Stored(s, ch)) <= BufSize
<1>1. Append(s, ch) \in Seq(Threads!Chars) /\ Len(Append(s, ch)) = Len(s) + 1 /\ Len(s) \in Nat
  BY AppendProperties, LenProperties
<1>. QED
  BY <1>1, SizesAssumption DEF Threads!Stored

\* The line that a thread stores the next byte in.
ThreadLine(t) == Threads!Stored(buf[t], Head(unread[fd[t]]))

LEMMA RecvEffect ==
  ASSUME ThreadTypes, StartInv, NEW t \in Threads!Clients, Threads!Recv(t)
  PROVE  /\ threadPc[t] = "recv" /\ fd[t] \in Threads!Clients /\ unread[fd[t]] # <<>>
         /\ Head(unread[fd[t]]) \in Threads!Chars /\ Tail(unread[fd[t]]) \in Seq(Threads!Chars)
         /\ ThreadLine(t) \in Seq(Threads!Chars)
         /\ unread' = [unread EXCEPT ![fd[t]] = Tail(unread[fd[t]])]
         /\ heard' = [heard EXCEPT ![fd[t]] = Append(heard[fd[t]], Head(unread[fd[t]]))]
         /\ \/ /\ Head(unread[fd[t]]) = "n" /\ buf' = [buf EXCEPT ![t] = <<>>]
               /\ answers' = [answers EXCEPT ![fd[t]] = Append(answers[fd[t]], ThreadLine(t))]
            \/ /\ Head(unread[fd[t]]) # "n" /\ buf' = [buf EXCEPT ![t] = ThreadLine(t)]
               /\ answers' = answers
         /\ hungUp' \subseteq Threads!Clients /\ broken' \subseteq Threads!Clients
         /\ UNCHANGED <<pc, client_fd, accepted, threadPc, fd>>
<1>1. threadPc[t] = "recv" /\ unread[fd[t]] # <<>>
  BY DEF Threads!Recv, Threads!Byte, Threads!At
<1>2. fd[t] \in Threads!Clients
  BY <1>1 DEF ThreadTypes, StartInv
<1>3. unread[fd[t]] \in Seq(Threads!Chars) /\ buf[t] \in Seq(Threads!Chars)
  BY <1>2 DEF ThreadTypes
<1>4. Head(unread[fd[t]]) \in Threads!Chars /\ Tail(unread[fd[t]]) \in Seq(Threads!Chars)
  BY <1>1, <1>3, HeadTailProperties
<1>5. ThreadLine(t) \in Seq(Threads!Chars)
  BY <1>3, <1>4, StoredType DEF ThreadLine
<1>6. hungUp' \subseteq Threads!Clients /\ broken' \subseteq Threads!Clients
  BY <1>2 DEF Threads!Recv, Threads!Sent, ThreadTypes
<1>7. /\ unread' = [unread EXCEPT ![fd[t]] = Tail(unread[fd[t]])]
      /\ heard' = [heard EXCEPT ![fd[t]] = Append(heard[fd[t]], Head(unread[fd[t]]))]
  BY DEF Threads!Recv, Threads!Byte
<1>8. /\ \/ /\ Head(unread[fd[t]]) = "n" /\ buf' = [buf EXCEPT ![t] = <<>>]
            /\ answers' = [answers EXCEPT ![fd[t]] = Append(answers[fd[t]], ThreadLine(t))]
         \/ /\ Head(unread[fd[t]]) # "n" /\ buf' = [buf EXCEPT ![t] = ThreadLine(t)]
            /\ answers' = answers
      /\ UNCHANGED <<pc, client_fd, accepted, threadPc, fd>>
  BY DEF Threads!Recv, Threads!Sent, ThreadLine, Threads!mainVars
<1>. QED
  BY <1>1, <1>2, <1>4, <1>5, <1>6, <1>7, <1>8

\* The actions that take no byte of any client, by what they leave alone.
LEMMA ThreadsQuiet ==
  ASSUME Threads!Next
  PROVE  \/ \E t \in Threads!Clients : Threads!Start(t) \/ Threads!Recv(t)
         \/ /\ UNCHANGED <<fd, buf, heard, answers>>
            /\ \/ Threads!Accept \/ Threads!AcceptFails \/ Threads!CreateThread
               \/ \E c \in Threads!Clients :
                    \/ Threads!Disconnected(c) \/ Threads!RecvFails(c) \/ Threads!ClientSends(c)
                    \/ Threads!ClientHangsUp(c) \/ Threads!ClientResets(c)
<1>1. ASSUME Threads!Accept \/ Threads!AcceptFails \/ Threads!CreateThread
      PROVE  UNCHANGED <<fd, buf, heard, answers>>
  BY <1>1 DEF Threads!Accept, Threads!AcceptFails, Threads!CreateThread, Threads!threadVars,
              Threads!clientVars
<1>2. ASSUME NEW c \in Threads!Clients, Threads!Disconnected(c) \/ Threads!RecvFails(c)
      PROVE  UNCHANGED <<fd, buf, heard, answers>>
  BY <1>2 DEF Threads!Disconnected, Threads!RecvFails, Threads!threadVars, Threads!clientVars
<1>3. ASSUME NEW c \in Threads!Clients,
             Threads!ClientSends(c) \/ Threads!ClientHangsUp(c) \/ Threads!ClientResets(c)
      PROVE  UNCHANGED <<fd, buf, heard, answers>>
  BY <1>3 DEF Threads!ClientSends, Threads!ClientHangsUp, Threads!ClientResets, Threads!threadVars
<1>. QED
  BY <1>1, <1>2, <1>3 DEF Threads!Next, Threads!MainThread, Threads!Thread, Threads!Client

LEMMA ThreadTypesStep ==
  ASSUME ThreadTypes, StartInv, Threads!Next PROVE ThreadTypes' /\ StartInv'
<1>. USE SizesAssumption
<1>1. CASE Threads!Accept
  <2>1. /\ accepted < MaxClients /\ accepted' = accepted + 1 /\ client_fd' = accepted'
        /\ pc' = "create" /\ UNCHANGED <<threadPc, fd, buf, unread, heard, answers, hungUp, broken>>
    BY <1>1 DEF Threads!Accept, Threads!threadVars, Threads!clientVars
  <2>2. /\ accepted' \in 0 .. MaxClients /\ accepted' # 0
        /\ \A t \in Threads!Clients : t <= accepted => t <= accepted' /\ t # accepted'
    BY <2>1 DEF ThreadTypes, Threads!Clients
  <2>3. ThreadTypes'
    BY <2>1, <2>2 DEF ThreadTypes
  <2>4. StartInv'
    BY <2>1, <2>2 DEF StartInv
  <2>. QED
    BY <2>3, <2>4
<1>2. CASE Threads!CreateThread
  <2>1. /\ pc = "create" /\ pc' = "accept"
        /\ threadPc' = [threadPc EXCEPT ![accepted] = "start"]
        /\ UNCHANGED <<client_fd, accepted, fd, buf, unread, heard, answers, hungUp, broken>>
    BY <1>2 DEF Threads!CreateThread, Threads!clientVars
  <2>2. accepted \in Threads!Clients
    BY <2>1 DEF ThreadTypes, Threads!Clients
  <2>. QED
    <3>1. ThreadTypes'
      BY <2>1, <2>2 DEF ThreadTypes
    <3>2. \A t \in Threads!Clients :
            threadPc'[t] = IF t = accepted THEN "start" ELSE threadPc[t]
      BY <2>1 DEF ThreadTypes
    <3>3. accepted <= accepted /\ threadPc[accepted] = "none"
      BY <2>1, <2>2 DEF ThreadTypes, StartInv
    <3>4. StartInv'
      BY <2>1, <3>2, <3>3 DEF StartInv
    <3>. QED
      BY <3>1, <3>4
<1>3. ASSUME NEW t \in Threads!Clients, Threads!Start(t) PROVE ThreadTypes' /\ StartInv'
  <2>1. /\ threadPc[t] = "start" /\ threadPc' = [threadPc EXCEPT ![t] = "recv"]
        /\ fd' = [fd EXCEPT ![t] = client_fd]
        /\ UNCHANGED <<pc, client_fd, accepted, buf, unread, heard, answers, hungUp, broken>>
    BY <1>3 DEF Threads!Start, Threads!At, Threads!mainVars, Threads!clientVars
  <2>2. client_fd \in Threads!Clients /\ client_fd # 0
    <3>1. t <= accepted
      BY <2>1 DEF StartInv
    <3>2. client_fd = accepted /\ accepted \in 0 .. MaxClients
      BY DEF ThreadTypes
    <3>. QED
      BY <3>1, <3>2 DEF Threads!Clients
  <2>3. ThreadTypes'
    BY <2>1, <2>2 DEF ThreadTypes
  <2>4. StartInv'
    BY <2>1, <2>2 DEF ThreadTypes, StartInv
  <2>. QED
    BY <2>3, <2>4
<1>4. ASSUME NEW t \in Threads!Clients, Threads!Recv(t) PROVE ThreadTypes' /\ StartInv'
  <2>1. PICK c, ch, full, rest :
          /\ c = fd[t] /\ ch = Head(unread[fd[t]]) /\ full = ThreadLine(t)
          /\ rest = Tail(unread[fd[t]])
    OBVIOUS
  <2>2. /\ c \in Threads!Clients /\ ch \in Threads!Chars /\ full \in Seq(Threads!Chars)
        /\ rest \in Seq(Threads!Chars) /\ threadPc[t] = "recv"
        /\ unread' = [unread EXCEPT ![c] = rest]
        /\ heard' = [heard EXCEPT ![c] = Append(heard[c], ch)]
        /\ \/ /\ answers' = [answers EXCEPT ![c] = Append(answers[c], full)]
              /\ buf' = [buf EXCEPT ![t] = <<>>]
           \/ buf' = [buf EXCEPT ![t] = full] /\ answers' = answers
        /\ hungUp' \subseteq Threads!Clients /\ broken' \subseteq Threads!Clients
        /\ UNCHANGED <<pc, client_fd, accepted, threadPc, fd>>
    BY <1>4, <2>1, RecvEffect
  <2>3. Append(heard[c], ch) \in Seq(Threads!Chars) /\ <<>> \in Seq(Threads!Chars)
    BY <2>2, AppendProperties, EmptySeq DEF ThreadTypes
  <2>4. Append(answers[c], full) \in Seq(Seq(Threads!Chars))
    BY <2>2, AppendProperties DEF ThreadTypes
  <2>5. unread' \in [Threads!Clients -> Seq(Threads!Chars)]
    BY <2>2 DEF ThreadTypes
  <2>6. heard' \in [Threads!Clients -> Seq(Threads!Chars)]
    BY <2>2, <2>3 DEF ThreadTypes
  <2>7. answers' \in [Threads!Clients -> Seq(Seq(Threads!Chars))]
    BY <2>2, <2>4 DEF ThreadTypes
  <2>8. buf' \in [Threads!Clients -> Seq(Threads!Chars)]
    BY <2>2, <2>3 DEF ThreadTypes
  <2>9. ThreadTypes'
    BY <2>2, <2>5, <2>6, <2>7, <2>8 DEF ThreadTypes
  <2>10. \A u \in Threads!Clients : u # t => buf'[u] = buf[u]
    BY <2>2 DEF ThreadTypes
  <2>11. StartInv'
    BY <2>2, <2>10 DEF StartInv
  <2>. QED
    BY <2>9, <2>11
<1>5. ASSUME NEW t \in Threads!Clients, Threads!Disconnected(t) PROVE ThreadTypes' /\ StartInv'
  BY <1>5 DEF Threads!Disconnected, Threads!At, Threads!mainVars, Threads!clientVars, ThreadTypes,
              StartInv
<1>6. ASSUME NEW c \in Threads!Clients, Threads!ClientSends(c) PROVE ThreadTypes' /\ StartInv'
  <2>1. \A s \in Seq(Threads!Chars), ch \in Threads!Chars : Append(s, ch) \in Seq(Threads!Chars)
    BY AppendProperties
  <2>. QED
    BY <1>6, <2>1 DEF Threads!ClientSends, Threads!mainVars, Threads!threadVars, ThreadTypes,
                      StartInv
<1>7. ASSUME NEW c \in Threads!Clients, Threads!ClientHangsUp(c) \/ Threads!ClientResets(c)
      PROVE  ThreadTypes' /\ StartInv'
  BY <1>7 DEF Threads!ClientHangsUp, Threads!ClientResets, Threads!mainVars, Threads!threadVars,
              ThreadTypes, StartInv
<1>8. ASSUME Threads!AcceptFails \/ \E t \in Threads!Clients : Threads!RecvFails(t)
      PROVE  ThreadTypes' /\ StartInv'
  BY <1>8 DEF Threads!AcceptFails, Threads!RecvFails, Threads!threadVars, Threads!clientVars,
              ThreadTypes, StartInv
<1>. QED
  BY <1>1, <1>2, <1>3, <1>4, <1>5, <1>6, <1>7, <1>8
     DEF Threads!Next, Threads!MainThread, Threads!Thread, Threads!Client

LEMMA FitStep == ASSUME ThreadTypes, StartInv, FitInv, Threads!Next PROVE FitInv'
<1>1. ASSUME UNCHANGED buf PROVE FitInv'
  BY <1>1 DEF FitInv
<1>2. ASSUME NEW t \in Threads!Clients, Threads!Start(t) PROVE FitInv'
  BY <1>1, <1>2 DEF Threads!Start
<1>3. ASSUME NEW t \in Threads!Clients, Threads!Recv(t) PROVE FitInv'
  <2>1. /\ Head(unread[fd[t]]) \in Threads!Chars
        /\ buf' = [buf EXCEPT ![t] = <<>>] \/ buf' = [buf EXCEPT ![t] = ThreadLine(t)]
    BY <1>3, RecvEffect
  <2>2. buf \in [Threads!Clients -> Seq(Threads!Chars)]
    BY DEF ThreadTypes
  <2>3. Len(ThreadLine(t)) <= BufSize
    BY <2>1, <2>2, StoredType DEF FitInv, ThreadLine
  <2>4. Len(<<>>) <= BufSize
    BY SizesAssumption
  <2>5. \A u \in Threads!Clients : buf'[u] = buf[u] \/ buf'[u] = <<>> \/ buf'[u] = ThreadLine(t)
    BY <2>1, <2>2
  <2>. QED
    BY <2>3, <2>4, <2>5 DEF FitInv
<1>. QED
  BY <1>1, <1>2, <1>3, ThreadsQuiet

LEMMA UnservedStep ==
  ASSUME ThreadTypes, StartInv, UnservedInv, Threads!Next PROVE UnservedInv'
<1>1. ASSUME UNCHANGED <<fd, heard, answers>> PROVE UnservedInv'
  BY <1>1 DEF UnservedInv
<1>2. ASSUME NEW t \in Threads!Clients, Threads!Start(t) PROVE UnservedInv'
  <2>1. /\ fd[t] = 0 /\ 0 \notin Threads!Clients /\ UNCHANGED <<heard, answers>>
        /\ \A u \in Threads!Clients : u # t => fd'[u] = fd[u]
    BY <1>2 DEF Threads!Start, Threads!At, Threads!clientVars, ThreadTypes, StartInv,
                Threads!Clients
  <2>. QED
    BY <2>1 DEF UnservedInv
<1>3. ASSUME NEW t \in Threads!Clients, Threads!Recv(t) PROVE UnservedInv'
  <2>1. /\ UNCHANGED fd
        /\ heard' = [heard EXCEPT ![fd[t]] = Append(heard[fd[t]], Head(unread[fd[t]]))]
        /\ \/ answers' = [answers EXCEPT ![fd[t]] = Append(answers[fd[t]], ThreadLine(t))]
           \/ answers' = answers
    BY <1>3, RecvEffect
  <2>2. \A c \in Threads!Clients : c # fd[t] => answers'[c] = answers[c] /\ heard'[c] = heard[c]
    BY <2>1 DEF ThreadTypes
  <2>. QED
    BY <2>1, <2>2 DEF UnservedInv
<1>. QED
  BY <1>1, <1>2, <1>3, ThreadsQuiet

\* The bytes of ThreadsServer are some of those of LineIO.
LEMMA FewerChars ==
  /\ Threads!Chars \in SUBSET Lines!Chars
  /\ \A s \in Seq(Threads!Chars) : s \in Seq(Lines!Chars)
  /\ \A s \in Seq(Seq(Threads!Chars)) : s \in Seq(Seq(Lines!Chars))
<1>1. Threads!Chars \in SUBSET Lines!Chars
  BY DEF Threads!Chars, Lines!Chars
<1>2. \A s \in Seq(Threads!Chars) : s \in Seq(Lines!Chars)
  BY <1>1
<1>3. Seq(Threads!Chars) \in SUBSET Seq(Lines!Chars)
  BY <1>2
<1>4. ASSUME NEW S, NEW T, S \in SUBSET T, NEW s \in Seq(S) PROVE s \in Seq(T)
  BY <1>4
<1>5. \A s \in Seq(Seq(Threads!Chars)) : s \in Seq(Seq(Lines!Chars))
  BY <1>3, <1>4
<1>. QED
  BY <1>1, <1>2, <1>5

\* The byte that a thread alone with its client takes.
LEMMA TakesByte ==
  ASSUME NEW a \in Seq(Seq(Threads!Chars)), NEW b \in Seq(Threads!Chars),
         NEW h \in Seq(Threads!Chars), NEW ch \in Threads!Chars, Halfway(a, b, h, BufSize)
  PROVE  Halfway(IF ch = "n" THEN Append(a, Threads!Stored(b, ch)) ELSE a,
                 IF ch = "n" THEN <<>> ELSE Threads!Stored(b, ch), Append(h, ch), BufSize)
<1>1. PICK kept : kept = Threads!Stored(b, ch)
  OBVIOUS
<1>2. kept = IF Len(b) < BufSize THEN Append(b, ch) ELSE b
  BY <1>1 DEF Threads!Stored
<1>3. BufSize \in Nat \ {0}
  BY SizesAssumption
<1>4. /\ a \in Seq(Seq(Lines!Chars)) /\ b \in Seq(Lines!Chars) /\ h \in Seq(Lines!Chars)
      /\ ch \in Lines!Chars
  BY FewerChars
<1>5. kept # <<>> /\ StartsOf(Append(a, kept), Append(h, ch), BufSize)
  BY <1>2, <1>3, <1>4, CutTakes
<1>6. /\ Append(h, ch) # <<>>
      /\ Append(h, ch)[Len(Append(h, ch))] = ch
  <2>1. PICK n, t : n = Len(h) /\ t = Append(h, ch)
    OBVIOUS
  <2>2. n \in Nat /\ t \in Seq(Lines!Chars) /\ Len(t) = n + 1 /\ t[n + 1] = ch
    BY <1>4, <2>1, AppendProperties, LenProperties
  <2>3. t # <<>>
    BY <2>2, EmptySeq
  <2>. QED
    BY <2>1, <2>2, <2>3
<1>. QED
  BY <1>1, <1>5, <1>6 DEF Halfway, Unfinished

LEMMA ServedStep ==
  ASSUME LineInv, Threads!Next PROVE ServedInv'
<1>0. ThreadTypes /\ StartInv /\ UnservedInv /\ ServedInv
  BY DEF LineInv
<1>1. ASSUME UNCHANGED <<fd, buf, heard, answers>> PROVE ServedInv'
  BY <1>0, <1>1 DEF ServedInv, Single
<1>2. ASSUME NEW t \in Threads!Clients, Threads!Start(t) PROVE ServedInv'
  <2>1. /\ fd[t] = 0 /\ 0 \notin Threads!Clients /\ UNCHANGED <<buf, heard, answers>>
        /\ \A u \in Threads!Clients : u # t => fd'[u] = fd[u]
        /\ buf[t] = <<>>
    BY <1>0, <1>2 DEF Threads!Start, Threads!At, Threads!clientVars, ThreadTypes, StartInv,
                      Threads!Clients
  <2>2. ASSUME NEW c \in Threads!Clients, NEW u \in Threads!Clients, Single(u, c)'
        PROVE  Halfway(answers[c], buf[u], heard[c], BufSize)
    <3>1. CASE u = t
      <4>1. \A v \in Threads!Clients : fd[v] # c
        BY <2>1, <2>2, <3>1 DEF Single
      <4>2. answers[c] = <<>> /\ heard[c] = <<>> /\ buf[u] = <<>>
        BY <1>0, <2>1, <3>1, <4>1 DEF UnservedInv
      <4>3. ~Unfinished(<<>>) /\ StartsOf(<<>>, <<>>, BufSize)
        BY DEF Unfinished, StartsOf, Lines!Count
      <4>. QED
        BY <4>2, <4>3 DEF Halfway
    <3>2. CASE u # t
      <4>1. Single(u, c)
        BY <2>1, <2>2, <3>2 DEF Single
      <4>. QED
        BY <1>0, <4>1 DEF ServedInv
    <3>. QED
      BY <3>1, <3>2
  <2>. QED
    BY <2>1, <2>2 DEF ServedInv
<1>3. ASSUME NEW t \in Threads!Clients, Threads!Recv(t) PROVE ServedInv'
  <2>1. PICK d, ch, full : d = fd[t] /\ ch = Head(unread[fd[t]]) /\ full = ThreadLine(t)
    OBVIOUS
  <2>2. /\ d \in Threads!Clients /\ ch \in Threads!Chars /\ UNCHANGED fd
        /\ heard' = [heard EXCEPT ![d] = Append(heard[d], ch)]
        /\ \/ /\ ch = "n" /\ answers' = [answers EXCEPT ![d] = Append(answers[d], full)]
              /\ buf' = [buf EXCEPT ![t] = <<>>]
           \/ ch # "n" /\ buf' = [buf EXCEPT ![t] = full] /\ answers' = answers
    BY <1>0, <1>3, <2>1, RecvEffect
  <2>3. /\ heard'[d] = Append(heard[d], ch) /\ \A c \in Threads!Clients : c # d => heard'[c] = heard[c]
        /\ answers'[d] = IF ch = "n" THEN Append(answers[d], full) ELSE answers[d]
        /\ \A c \in Threads!Clients : c # d => answers'[c] = answers[c]
        /\ buf'[t] = IF ch = "n" THEN <<>> ELSE full
        /\ \A u \in Threads!Clients : u # t => buf'[u] = buf[u]
    BY <1>0, <2>2 DEF ThreadTypes
  <2>4. ASSUME NEW c \in Threads!Clients, NEW u \in Threads!Clients, Single(u, c)
        PROVE  Halfway(answers'[c], buf'[u], heard'[c], BufSize)
    <3>1. Halfway(answers[c], buf[u], heard[c], BufSize)
      BY <1>0, <2>4 DEF ServedInv
    <3>2. c = d <=> u = t
      BY <2>1, <2>4 DEF Single
    <3>3. CASE u = t
      <4>1. PICK a, b, h : a = answers[d] /\ b = buf[t] /\ h = heard[d]
        OBVIOUS
      <4>2. a \in Seq(Seq(Threads!Chars)) /\ b \in Seq(Threads!Chars) /\ h \in Seq(Threads!Chars)
        BY <1>0, <2>2, <4>1 DEF ThreadTypes
      <4>3. Halfway(a, b, h, BufSize) /\ full = Threads!Stored(b, ch)
        BY <2>1, <3>1, <3>2, <3>3, <4>1 DEF ThreadLine
      <4>4. Halfway(IF ch = "n" THEN Append(a, full) ELSE a, IF ch = "n" THEN <<>> ELSE full,
                    Append(h, ch), BufSize)
        BY <2>2, <4>2, <4>3, TakesByte
      <4>. QED
        BY <2>3, <3>2, <3>3, <4>1, <4>4
    <3>4. CASE u # t
      BY <2>3, <3>1, <3>2, <3>4
    <3>. QED
      BY <3>3, <3>4
  <2>5. \A c, u \in Threads!Clients : Single(u, c)' => Single(u, c)
    BY <2>2 DEF Single
  <2>. QED
    BY <2>4, <2>5 DEF ServedInv
<1>. QED
  BY <1>1, <1>2, <1>3, ThreadsQuiet

LEMMA ThreadsStep == LineInv /\ (Threads!Next \/ UNCHANGED threadsVars) => LineInv'
<1>1. LineInv /\ UNCHANGED threadsVars => LineInv'
  BY DEF LineInv, ThreadTypes, StartInv, FitInv, UnservedInv, ServedInv, Single, threadsVars
<1>2. LineInv /\ Threads!Next => LineInv'
  BY ThreadTypesStep, FitStep, UnservedStep, ServedStep DEF LineInv
<1>. QED
  BY <1>1, <1>2

LEMMA ThreadsInit == Threads!Init => LineInv
<1>. SUFFICES ASSUME Threads!Init PROVE LineInv
  OBVIOUS
<1>1. <<>> \in Seq(Threads!Chars) /\ 0 \in 0 .. MaxClients /\ 0 \notin Threads!Clients
      /\ Len(<<>>) <= BufSize /\ <<>> \in Seq(Seq(Threads!Chars))
  BY SizesAssumption DEF Threads!Clients
<1>2. ThreadTypes
  BY <1>1 DEF Threads!Init, ThreadTypes
<1>3. StartInv /\ UnservedInv /\ FitInv
  BY <1>1 DEF Threads!Init, StartInv, UnservedInv, FitInv
<1>4. \A c, t \in Threads!Clients : ~Single(t, c)
  BY <1>1 DEF Threads!Init, Single
<1>. QED
  BY <1>2, <1>3, <1>4 DEF LineInv, ServedInv

LEMMA ThreadsTyped == LineInv => Threads!ThreadsTypeOK
<1>. SUFFICES ASSUME LineInv PROVE Threads!ThreadsTypeOK
  OBVIOUS
<1>1. ThreadTypes /\ FitInv
  BY DEF LineInv
<1>2. client_fd \in Threads!Clients \union {0}
  BY <1>1, SizesAssumption DEF ThreadTypes, Threads!Clients
<1>. QED
  BY <1>1, <1>2 DEF ThreadTypes, FitInv, Threads!ThreadsTypeOK

\* Both modules have TextLines.
LEMMA SameText ==
  /\ \A s, most : Threads!Starts(s, most) = Lines!Starts(s, most)
  /\ \A ls, l : Threads!WithBegun(ls, l) = Lines!WithBegun(ls, l)
<1>1. \A S : Threads!Cardinality(S) = Lines!Cardinality(S)
  BY DEF Threads!Cardinality, Lines!Cardinality
<1>2. ASSUME NEW s, NEW p PROVE Threads!LineOf(s, p) = Lines!LineOf(s, p)
  BY <1>1 DEF Threads!LineOf, Lines!LineOf
<1>3. ASSUME NEW s, NEW k PROVE Threads!Upto(s, k) = Lines!Upto(s, k)
  <2>1. {p \in 1 .. Len(s) : Threads!LineOf(s, p) <= k} = {p \in 1 .. Len(s) : Lines!LineOf(s, p) <= k}
    BY <1>2
  <2>. QED
    BY <1>1, <2>1 DEF Threads!Upto, Lines!Upto
<1>4. ASSUME NEW s PROVE Threads!Count(s) = Lines!Count(s)
  BY <1>2 DEF Threads!Count, Lines!Count
<1>5. ASSUME NEW s PROVE Threads!Cut(s) = Lines!Cut(s)
  BY <1>3, <1>4 DEF Threads!Cut, Lines!Cut
<1>6. ASSUME NEW l, NEW most PROVE Threads!Shortened(l, most) = Lines!Shortened(l, most)
  BY DEF Threads!Shortened, Lines!Shortened
<1>7. ASSUME NEW s, NEW most PROVE Threads!Starts(s, most) = Lines!Starts(s, most)
  BY <1>4, <1>5, <1>6 DEF Threads!Starts, Lines!Starts
<1>8. \A ls, l : Threads!WithBegun(ls, l) = Lines!WithBegun(ls, l)
  BY DEF Threads!WithBegun, Lines!WithBegun
<1>. QED
  BY <1>7, <1>8

LEMMA ThreadsComeBack == LineInv => Threads!LinesComeBack
<1>. SUFFICES ASSUME LineInv, NEW c \in Threads!Clients, NEW t \in Threads!Clients,
                     Threads!Servers(c) = {t}
              PROVE  Threads!WithBegun(answers[c], buf[t]) = Threads!Starts(heard[c], BufSize)
  BY DEF Threads!LinesComeBack
<1>1. Single(t, c)
  BY DEF Threads!Servers, Single
<1>2. PICK a, b, h : a = answers[c] /\ b = buf[t] /\ h = heard[c]
  OBVIOUS
<1>3. Halfway(a, b, h, BufSize)
  BY <1>1, <1>2 DEF LineInv, ServedInv
<1>4. a \in Seq(Seq(Lines!Chars)) /\ b \in Seq(Lines!Chars)
  BY <1>2, FewerChars DEF LineInv, ThreadTypes
<1>5. PICK ls : ls = Lines!WithBegun(a, b)
  OBVIOUS
<1>6. ls \in Seq(Seq(Lines!Chars)) /\ StartsOf(ls, h, BufSize)
  BY <1>3, <1>4, <1>5, AppendProperties DEF Halfway, Lines!WithBegun
<1>7. ls = Lines!Starts(h, BufSize)
  BY <1>6, StartsIs
<1>. QED
  BY <1>2, <1>5, <1>7, SameText

-----------------------------------------------------------------------------
(* MessageQueue                                                            *)

\* What fgets() returns and s posts: text of s, with a newline only at its end.
TextOf(s, t) ==
  /\ t \in Seq(Posts!Byte) /\ Len(t) > 1 /\ Len(t) < MsgLength /\ t[1][1] = s
  /\ \A k \in 1 .. Len(t) : t[k] # Posts!Nul /\ (t[k] = Posts!NL => k = Len(t))

\* What is left of the line of s.
LeftInv ==
  \A s \in Senders : \A k \in 1 .. Len(typedLeft[s]) :
    LET c == typedLeft[s][k]
    IN c # Posts!Nul /\ (IF c = Posts!NL THEN k = Len(typedLeft[s]) ELSE c[1] = s)

TakenInv ==
  \A s \in Senders :
    /\ \A k \in 1 .. Len(takenIn[s]) : TextOf(s, takenIn[s][k])
    /\ postAt[s] = "msgsnd" => takenIn[s] # <<>>
    /\ postAt[s] = "start" =>
         /\ takenIn[s] = <<>> /\ myId[s] = 0
         /\ \A k \in 1 .. Len(posted) : posted[k][1][1] # s

PostedInv == \A k \in 1 .. Len(posted) : \E s \in Senders : TextOf(s, posted[k])

\* The texts of s among the first k of p.
CountOf(p, s, k) == Cardinality({j \in 1 .. k : p[j][1][1] = s})

\* The texts t that s has taken are those of s in p, and the one that it has still
\* to post when it is at a.
InOrderOf(p, t, a, s) ==
  /\ CASE a = "over"   -> Len(t) - CountOf(p, s, Len(p)) \in {0, 1}
       [] a = "msgsnd" -> Len(t) - CountOf(p, s, Len(p)) = 1
       [] OTHER        -> Len(t) - CountOf(p, s, Len(p)) = 0
  /\ \A k \in 1 .. Len(p) : p[k][1][1] = s => p[k] = t[CountOf(p, s, k)]

SentInOrderInv ==
  \A s \in Senders : myId[s] = queueId /\ queueId # 0 => InOrderOf(posted, takenIn[s], postAt[s], s)

\* b is what is printed of the text t.
Shows(b, t) ==
  IF Posts!Unended(t)
  THEN \A n \in 1 .. Len(t) : n <= Len(b) /\ b[n] = t[n]
  ELSE b = Posts!Start(t)

\* The buffer old with m copied over it.
CopiedOver(m, old) == [k \in 1 .. MsgLength |-> IF k <= Len(m) THEN m[k] ELSE old[k]]

\* The texts d that have been printed, and then the messages m in the queue, are
\* the texts p that have been posted.
QueueOf(d, m, p) ==
  /\ Len(d) + Len(m) = Len(p)
  /\ \A k \in 1 .. Len(d) : Shows(d[k], p[k])
  /\ \A k \in 1 .. Len(m) : m[k] = Posts!Terminated(p[Len(d) + k])

WatchInv ==
  /\ IF watchAt = "start" THEN shownText = <<>> /\ watchId = 0 ELSE watchId # 0
  /\ queueId # 0 /\ (watchAt = "start" \/ watchId = queueId) => QueueOf(shownText, messages, posted)

PostsInv ==
  /\ Posts!MessageTypeOK /\ lastId \in Nat
  /\ LeftInv /\ TakenInv /\ PostedInv /\ SentInOrderInv /\ WatchInv

LEMMA CountType ==
  ASSUME NEW p, NEW s, NEW k \in Nat
  PROVE  CountOf(p, s, k) \in Nat /\ IsFiniteSet({j \in 1 .. k : p[j][1][1] = s})
<1>1. IsFiniteSet(1 .. k)
  BY FS_Interval
<1>2. {j \in 1 .. k : p[j][1][1] = s} \in SUBSET (1 .. k)
  OBVIOUS
<1>. QED
  BY <1>1, <1>2, FS_Subset, FS_CardinalityType DEF CountOf

LEMMA CountNone ==
  ASSUME NEW p, NEW s, NEW k \in Nat, \A j \in 1 .. k : p[j][1][1] # s
  PROVE  CountOf(p, s, k) = 0
<1>1. {j \in 1 .. k : p[j][1][1] = s} = {}
  OBVIOUS
<1>. QED
  BY <1>1, FS_EmptySet DEF CountOf

LEMMA CountStep ==
  ASSUME NEW p, NEW s, NEW k \in Nat
  PROVE  CountOf(p, s, k + 1) = CountOf(p, s, k) + (IF p[k + 1][1][1] = s THEN 1 ELSE 0)
<1>1. PICK S : S = {j \in 1 .. k : p[j][1][1] = s}
  OBVIOUS
<1>2. PICK T : T = {j \in 1 .. k + 1 : p[j][1][1] = s}
  OBVIOUS
<1>3. IsFiniteSet(S) /\ Cardinality(S) \in Nat
  BY <1>1, CountType DEF CountOf
<1>4. CASE p[k + 1][1][1] = s
  <2>1. T = S \union {k + 1} /\ k + 1 \notin S
    BY <1>1, <1>2, <1>4
  <2>2. Cardinality(T) = Cardinality(S) + 1
    BY <1>3, <2>1, FS_AddElement
  <2>3. CountOf(p, s, k + 1) = Cardinality(T) /\ CountOf(p, s, k) = Cardinality(S)
    BY <1>1, <1>2 DEF CountOf
  <2>. QED
    BY <1>4, <2>2, <2>3
<1>5. CASE p[k + 1][1][1] # s
  <2>1. T = S
    BY <1>1, <1>2, <1>5
  <2>2. CountOf(p, s, k + 1) = Cardinality(S) /\ CountOf(p, s, k) = Cardinality(S)
    BY <1>1, <1>2, <2>1 DEF CountOf
  <2>. QED
    BY <1>3, <1>5, <2>2
<1>. QED
  BY <1>4, <1>5

LEMMA CountUpTo ==
  ASSUME NEW p, NEW s, NEW j \in Nat, NEW k \in Nat, j <= k
  PROVE  CountOf(p, s, j) <= CountOf(p, s, k)
<1>1. {n \in 1 .. j : p[n][1][1] = s} \in SUBSET {n \in 1 .. k : p[n][1][1] = s}
  OBVIOUS
<1>2. IsFiniteSet({n \in 1 .. k : p[n][1][1] = s})
  BY CountType
<1>. QED
  BY <1>1, <1>2, FS_Subset DEF CountOf

LEMMA CountSame ==
  ASSUME NEW p, NEW q, NEW s, NEW k \in Nat, \A j \in 1 .. k : p[j] = q[j]
  PROVE  CountOf(p, s, k) = CountOf(q, s, k)
<1>1. {j \in 1 .. k : p[j][1][1] = s} = {j \in 1 .. k : q[j][1][1] = s}
  OBVIOUS
<1>. QED
  BY <1>1 DEF CountOf

\* Where s has a text, it is one of the first that it has.
LEMMA CountPlace ==
  ASSUME NEW p, NEW s, NEW n \in Nat, NEW k \in 1 .. n, p[k][1][1] = s
  PROVE  CountOf(p, s, k) \in 1 .. CountOf(p, s, n)
<1>1. k - 1 \in Nat /\ (k - 1) + 1 = k /\ k \in Nat /\ k <= n
  OBVIOUS
<1>2. CountOf(p, s, k - 1) \in Nat /\ CountOf(p, s, k) \in Nat /\ CountOf(p, s, n) \in Nat
  BY <1>1, CountType
<1>3. CountOf(p, s, k) = CountOf(p, s, k - 1) + 1
  BY <1>1, CountStep
<1>4. CountOf(p, s, k) <= CountOf(p, s, n)
  BY <1>1, CountUpTo
<1>. QED
  BY <1>2, <1>3, <1>4

-----------------------------------------------------------------------------
\* s takes a text.
LEMMA OrderTake ==
  ASSUME NEW S, NEW p, Len(p) \in Nat, NEW t \in Seq(S), NEW x \in S, NEW s, NEW a,
         a \notin {"over", "msgsnd"}, InOrderOf(p, t, a, s)
  PROVE  InOrderOf(p, Append(t, x), "msgsnd", s)
<1>1. /\ Len(t) \in Nat /\ Len(Append(t, x)) = Len(t) + 1
      /\ \A k \in 1 .. Len(t) : Append(t, x)[k] = t[k]
  BY AppendProperties, LenProperties
<1>2. CountOf(p, s, Len(p)) \in Nat
  BY CountType
<1>3. Len(t) - CountOf(p, s, Len(p)) = 0
  BY DEF InOrderOf
<1>4. Len(Append(t, x)) - CountOf(p, s, Len(p)) = 1
  BY <1>1, <1>2, <1>3
<1>5. ASSUME NEW k \in 1 .. Len(p), p[k][1][1] = s PROVE p[k] = Append(t, x)[CountOf(p, s, k)]
  <2>1. CountOf(p, s, k) \in 1 .. CountOf(p, s, Len(p))
    BY <1>5, CountPlace
  <2>2. CountOf(p, s, k) \in 1 .. Len(t)
    BY <1>1, <1>2, <1>3, <2>1
  <2>3. p[k] = t[CountOf(p, s, k)]
    BY <1>5 DEF InOrderOf
  <2>. QED
    BY <1>1, <2>2, <2>3
<1>. QED
  BY <1>4, <1>5 DEF InOrderOf

\* s posts the text that it has taken last.
LEMMA OrderPost ==
  ASSUME NEW S, NEW p \in Seq(S), NEW t \in Seq(S), t # <<>>, NEW s,
         t[Len(t)][1][1] = s, InOrderOf(p, t, "msgsnd", s)
  PROVE  InOrderOf(Append(p, t[Len(t)]), t, "fgets", s)
<1>1. Len(t) \in Nat \ {0} /\ t[Len(t)] \in S /\ Len(p) \in Nat
  BY EmptySeq, ElementOfSeq, LenProperties
<1>2. PICK x : x = t[Len(t)] /\ x \in S /\ x[1][1] = s
  BY <1>1
<1>3. PICK q : q = Append(p, x)
  OBVIOUS
<1>4. /\ Len(q) = Len(p) + 1 /\ q[Len(p) + 1] = x
      /\ \A k \in 1 .. Len(p) : q[k] = p[k]
  BY <1>2, <1>3, AppendProperties
<1>5. \A k \in 0 .. Len(p) : CountOf(q, s, k) = CountOf(p, s, k)
  <2>1. ASSUME NEW k \in 0 .. Len(p) PROVE CountOf(q, s, k) = CountOf(p, s, k)
    BY <1>1, <1>4, CountSame
  <2>. QED
    BY <2>1
<1>6. CountOf(q, s, Len(p) + 1) = CountOf(p, s, Len(p)) + 1
  <2>1. CountOf(q, s, Len(p) + 1) = CountOf(q, s, Len(p)) + 1
    BY <1>1, <1>2, <1>4, CountStep
  <2>. QED
    BY <1>1, <1>5, <2>1
<1>7. CountOf(p, s, Len(p)) \in Nat /\ Len(t) - CountOf(p, s, Len(p)) = 1
  BY <1>1, CountType DEF InOrderOf
<1>8. Len(t) - CountOf(q, s, Len(q)) = 0 /\ CountOf(q, s, Len(p) + 1) = Len(t)
  BY <1>1, <1>4, <1>6, <1>7
<1>9. ASSUME NEW k \in 1 .. Len(q), q[k][1][1] = s PROVE q[k] = t[CountOf(q, s, k)]
  <2>1. CASE k = Len(p) + 1
    BY <1>2, <1>4, <1>8, <2>1
  <2>2. CASE k \in 1 .. Len(p)
    <3>1. p[k] = t[CountOf(p, s, k)]
      BY <1>4, <1>9, <2>2 DEF InOrderOf
    <3>. QED
      BY <1>4, <1>5, <2>2, <3>1
  <2>. QED
    BY <1>1, <1>4, <2>1, <2>2
<1>. QED
  BY <1>2, <1>3, <1>8, <1>9 DEF InOrderOf

\* Another one posts a text.
LEMMA OrderOther ==
  ASSUME NEW S, NEW p \in Seq(S), NEW x \in S, NEW t, NEW a, NEW s,
         x[1][1] # s, InOrderOf(p, t, a, s)
  PROVE  InOrderOf(Append(p, x), t, a, s)
<1>1. Len(p) \in Nat
  OBVIOUS
<1>2. PICK q : q = Append(p, x)
  OBVIOUS
<1>3. /\ Len(q) = Len(p) + 1 /\ q[Len(p) + 1] = x
      /\ \A k \in 1 .. Len(p) : q[k] = p[k]
  BY <1>2, AppendProperties
<1>4. \A k \in 0 .. Len(p) : CountOf(q, s, k) = CountOf(p, s, k)
  <2>1. ASSUME NEW k \in 0 .. Len(p) PROVE CountOf(q, s, k) = CountOf(p, s, k)
    BY <1>1, <1>3, CountSame
  <2>. QED
    BY <2>1
<1>5. CountOf(q, s, Len(q)) = CountOf(p, s, Len(p))
  <2>1. CountOf(q, s, Len(p)) \in Nat
    BY <1>1, CountType
  <2>2. CountOf(q, s, Len(p) + 1) = CountOf(q, s, Len(p)) + 0
    BY <1>1, <1>3, CountStep
  <2>. QED
    BY <1>1, <1>3, <1>4, <2>1, <2>2
<1>6. ASSUME NEW k \in 1 .. Len(q), q[k][1][1] = s PROVE q[k] = t[CountOf(q, s, k)]
  <2>1. k \in 1 .. Len(p)
    BY <1>1, <1>3, <1>6
  <2>2. p[k] = t[CountOf(p, s, k)]
    BY <1>3, <1>6, <2>1 DEF InOrderOf
  <2>. QED
    BY <1>3, <1>4, <2>1, <2>2
<1>7. /\ CASE a = "over"   -> Len(t) - CountOf(q, s, Len(q)) \in {0, 1}
           [] a = "msgsnd" -> Len(t) - CountOf(q, s, Len(q)) = 1
           [] OTHER        -> Len(t) - CountOf(q, s, Len(q)) = 0
  BY <1>5 DEF InOrderOf
<1>. QED
  BY <1>2, <1>6, <1>7 DEF InOrderOf

\* s ends.
LEMMA OrderEnd ==
  ASSUME NEW p, NEW t, NEW a, NEW s, InOrderOf(p, t, a, s)
  PROVE  /\ InOrderOf(p, t, "over", s)
         /\ a = "fgets" => InOrderOf(p, t, "remove", s)
<1>1. Len(t) - CountOf(p, s, Len(p)) \in {0, 1}
  BY DEF InOrderOf
<1>2. a = "fgets" => Len(t) - CountOf(p, s, Len(p)) = 0
  BY DEF InOrderOf
<1>. QED
  BY <1>1, <1>2 DEF InOrderOf

LEMMA OrderNone ==
  ASSUME NEW p, Len(p) \in Nat, NEW s, \A k \in 1 .. Len(p) : p[k][1][1] # s
  PROVE  InOrderOf(p, <<>>, "fgets", s)
<1>1. CountOf(p, s, Len(p)) = 0
  BY CountNone
<1>2. Len(<<>>) = 0
  OBVIOUS
<1>. QED
  BY <1>1, <1>2 DEF InOrderOf
-----------------------------------------------------------------------------
LEMMA QueueNone == QueueOf(<<>>, <<>>, <<>>)
BY DEF QueueOf

LEMMA QueuePost ==
  ASSUME NEW S, NEW d, Len(d) \in Nat, NEW m \in Seq(S), NEW p \in Seq(S), NEW x \in S,
         Posts!Terminated(x) \in S, QueueOf(d, m, p)
  PROVE  QueueOf(d, Append(m, Posts!Terminated(x)), Append(p, x))
<1>1. Len(m) \in Nat /\ Len(p) \in Nat /\ Len(d) + Len(m) = Len(p)
  BY DEF QueueOf
<1>2. PICK y : y = Posts!Terminated(x)
  OBVIOUS
<1>3. PICK q : q = Append(p, x)
  OBVIOUS
<1>4. PICK n : n = Append(m, y)
  OBVIOUS
<1>5. Len(q) = Len(p) + 1 /\ q[Len(p) + 1] = x /\ \A k \in 1 .. Len(p) : q[k] = p[k]
  BY <1>3, AppendProperties
<1>6. Len(n) = Len(m) + 1 /\ n[Len(m) + 1] = y /\ \A k \in 1 .. Len(m) : n[k] = m[k]
  BY <1>2, <1>4, AppendProperties
<1>7. Len(d) + Len(n) = Len(q)
  <2>1. Len(q) = Len(p) + 1 /\ Len(n) = Len(m) + 1
    BY <1>5, <1>6
  <2>. QED
    BY <1>1, <2>1
<1>8. \A k \in 1 .. Len(d) : Shows(d[k], q[k])
  <2>1. \A k \in 1 .. Len(d) : k \in 1 .. Len(p) /\ Shows(d[k], p[k])
    BY <1>1 DEF QueueOf
  <2>. QED
    BY <1>5, <2>1
<1>9. ASSUME NEW k \in 1 .. Len(n) PROVE n[k] = Posts!Terminated(q[Len(d) + k])
  <2>1. CASE k = Len(m) + 1
    <3>1. Len(d) + k = Len(p) + 1
      BY <1>1, <2>1
    <3>. QED
      BY <1>2, <1>5, <1>6, <2>1, <3>1
  <2>2. CASE k \in 1 .. Len(m)
    <3>1. Len(d) + k \in 1 .. Len(p)
      BY <1>1, <2>2
    <3>2. m[k] = Posts!Terminated(p[Len(d) + k])
      BY <2>2 DEF QueueOf
    <3>. QED
      BY <1>5, <1>6, <2>2, <3>1, <3>2
  <2>. QED
    BY <1>1, <1>6, <2>1, <2>2
<1>. QED
  BY <1>2, <1>3, <1>4, <1>7, <1>8, <1>9 DEF QueueOf

LEMMA QueueReceive ==
  ASSUME NEW S, NEW d \in Seq(S), NEW m \in Seq(S), m # <<>>, NEW p, QueueOf(d, m, p),
         NEW y \in S, Shows(y, p[Len(d) + 1])
  PROVE  QueueOf(Append(d, y), Tail(m), p)
<1>1. Len(d) \in Nat /\ Len(m) \in Nat \ {0} /\ Len(d) + Len(m) = Len(p)
  BY EmptySeq DEF QueueOf
<1>2. PICK e : e = Append(d, y)
  OBVIOUS
<1>3. PICK n : n = Tail(m)
  OBVIOUS
<1>4. Len(e) = Len(d) + 1 /\ e[Len(d) + 1] = y /\ \A k \in 1 .. Len(d) : e[k] = d[k]
  BY <1>2, AppendProperties
<1>5. Len(n) = Len(m) - 1 /\ \A k \in 1 .. Len(n) : n[k] = m[k + 1]
  BY <1>3, HeadTailProperties
<1>6. Len(e) + Len(n) = Len(p)
  <2>1. Len(e) = Len(d) + 1 /\ Len(n) = Len(m) - 1
    BY <1>4, <1>5
  <2>. QED
    BY <1>1, <2>1
<1>7. ASSUME NEW k \in 1 .. Len(e) PROVE Shows(e[k], p[k])
  <2>1. CASE k = Len(d) + 1
    BY <1>4, <2>1
  <2>2. CASE k \in 1 .. Len(d)
    BY <1>4, <2>2 DEF QueueOf
  <2>. QED
    BY <1>1, <1>4, <2>1, <2>2
<1>8. ASSUME NEW k \in 1 .. Len(n) PROVE n[k] = Posts!Terminated(p[Len(e) + k])
  <2>1. k + 1 \in 1 .. Len(m) /\ Len(e) + k = Len(d) + (k + 1)
    BY <1>1, <1>4, <1>5
  <2>2. m[k + 1] = Posts!Terminated(p[Len(d) + (k + 1)])
    BY <2>1 DEF QueueOf
  <2>. QED
    BY <1>5, <2>1, <2>2
<1>. QED
  BY <1>2, <1>3, <1>6, <1>7, <1>8 DEF QueueOf

-----------------------------------------------------------------------------
LEMMA ByteIs ==
  /\ Posts!NL # Posts!Nul
  /\ \A c \in Posts!Byte : c \notin {Posts!NL, Posts!Nul} => c[1] \in Senders
  /\ \A s \in Senders : \A l \in 1 .. MaxPosts : <<s, l>> \in Posts!Byte \ {Posts!NL, Posts!Nul}
<1>1. Posts!NL # Posts!Nul
  BY DEF Posts!NL, Posts!Nul
<1>2. \A c \in Posts!Byte : c \notin {Posts!NL, Posts!Nul} => c[1] \in Senders
  BY DEF Posts!Byte, Posts!Char
<1>3. ASSUME NEW s \in Senders, NEW l \in 1 .. MaxPosts
      PROVE  <<s, l>> \in Posts!Byte \ {Posts!NL, Posts!Nul}
  <2>1. <<s, l>> \in Posts!Byte
    BY DEF Posts!Byte, Posts!Char
  <2>2. l # 0
    BY MessagesAssumption
  <2>3. <<s, l>> # Posts!NL /\ <<s, l>> # Posts!Nul
    BY <2>2 DEF Posts!NL, Posts!Nul
  <2>. QED
    BY <2>1, <2>3
<1>. QED
  BY <1>1, <1>2, <1>3

\* The newline of a text becomes a \0, and nothing else changes.
LEMMA TerminatedIs ==
  ASSUME NEW t \in Seq(Posts!Byte), Len(t) > 1, NEW m, m = Posts!Terminated(t)
  PROVE  /\ m \in Seq(Posts!Byte) /\ Len(m) = Len(t)
         /\ \A k \in 1 .. Len(t) - 1 : m[k] = t[k]
         /\ m[Len(t)] = IF t[Len(t)] # Posts!NL THEN t[Len(t)] ELSE Posts!Nul
<1>1. Len(t) \in Nat /\ Posts!Nul \in Posts!Byte
  BY DEF Posts!Byte
<1>2. CASE t[Len(t)] # Posts!NL
  <2>1. m = t
    BY <1>2 DEF Posts!Terminated, Posts!Unended
  <2>. QED
    BY <1>1, <1>2, <2>1
<1>3. CASE t[Len(t)] = Posts!NL
  <2>1. PICK u : u = SubSeq(t, 1, Len(t) - 1)
    OBVIOUS
  <2>2. m = Append(u, Posts!Nul)
    BY <1>3, <2>1 DEF Posts!Terminated, Posts!Unended, Posts!Start
  <2>3. \A k \in 1 .. Len(t) - 1 : t[k] \in Posts!Byte
    BY <1>1, ElementOfSeq
  <2>4. /\ u \in Seq(Posts!Byte) /\ Len(u) = Len(t) - 1
        /\ \A k \in 1 .. Len(t) - 1 : u[k] = t[k]
    BY <1>1, <2>1, <2>3, SubSeqProperties
  <2>5. /\ m \in Seq(Posts!Byte) /\ Len(m) = Len(u) + 1 /\ m[Len(u) + 1] = Posts!Nul
        /\ \A k \in 1 .. Len(u) : m[k] = u[k]
    BY <1>1, <2>2, <2>4, AppendProperties
  <2>. QED
    BY <1>1, <1>3, <2>4, <2>5
<1>. QED
  BY <1>2, <1>3

\* printf("%s") stops at the first \0.
LEMMA PrintedIs ==
  ASSUME NEW b \in [1 .. MsgLength -> Posts!Byte]
  PROVE  \E n \in 0 .. MsgLength :
           /\ Posts!Printed(b) = SubSeq(b, 1, n)
           /\ \A k \in 1 .. n : b[k] # Posts!Nul
           /\ n = MsgLength \/ b[n + 1] = Posts!Nul
<1>1. MsgLength \in Nat
  BY MessagesAssumption
<1>2. PICK T : T = {n \in 0 .. MsgLength : \A k \in 1 .. n : b[k] # Posts!Nul}
  OBVIOUS
<1>3. PICK D : D = {d \in 0 .. MsgLength : MsgLength - d \in T}
  OBVIOUS
<1>4. D \in SUBSET Nat /\ D # {}
  <2>1. 0 \in T /\ MsgLength \in 0 .. MsgLength /\ MsgLength - MsgLength = 0
    BY <1>1, <1>2
  <2>2. MsgLength \in D
    BY <1>3, <2>1
  <2>3. \A e \in D : e \in Nat
    BY <1>1, <1>3
  <2>. QED
    BY <2>2, <2>3
<1>5. PICK d \in D : \A e \in D : d <= e
  BY <1>4, LeastNumber
<1>6. MsgLength - d \in T /\ \A m \in T : m <= MsgLength - d
  <2>1. MsgLength - d \in T /\ d \in 0 .. MsgLength
    BY <1>3, <1>5
  <2>2. ASSUME NEW m \in T PROVE m <= MsgLength - d
    <3>1. m \in 0 .. MsgLength
      BY <1>2
    <3>2. MsgLength - m \in 0 .. MsgLength /\ MsgLength - (MsgLength - m) = m
      BY <1>1, <3>1
    <3>3. d <= MsgLength - m
      BY <1>3, <1>5, <3>2
    <3>. QED
      BY <1>1, <2>1, <3>1, <3>3
  <2>. QED
    BY <2>1, <2>2
<1>7. PICK n : n = CHOOSE x \in T : \A m \in T : m <= x
  OBVIOUS
<1>8. n \in T /\ \A m \in T : m <= n
  BY <1>6, <1>7
<1>9. Posts!Printed(b) = SubSeq(b, 1, n)
  BY <1>2, <1>7 DEF Posts!Printed
<1>10. n \in 0 .. MsgLength /\ \A k \in 1 .. n : b[k] # Posts!Nul
  BY <1>2, <1>8
<1>11. n = MsgLength \/ b[n + 1] = Posts!Nul
  <2>1. ASSUME n # MsgLength, b[n + 1] # Posts!Nul PROVE FALSE
    <3>1. n + 1 \in 0 .. MsgLength
      BY <1>1, <1>10, <2>1
    <3>2. \A k \in 1 .. n + 1 : k \in 1 .. n \/ k = n + 1
      BY <1>10
    <3>3. n + 1 \in T
      BY <1>2, <1>10, <2>1, <3>1, <3>2
    <3>. QED
      BY <1>8, <1>10, <3>3
  <2>. QED
    BY <2>1
<1>. QED
  BY <1>9, <1>10, <1>11

\* The message is printed as it was typed.
LEMMA PrintsText ==
  ASSUME NEW s, NEW t, TextOf(s, t), NEW m, m = Posts!Terminated(t),
         NEW old \in [1 .. MsgLength -> Posts!Byte],
         NEW b, b = CopiedOver(m, old)
  PROVE  /\ b \in [1 .. MsgLength -> Posts!Byte]
         /\ Posts!Printed(b) \in Seq(Posts!Byte)
         /\ Shows(Posts!Printed(b), t)
<1>1. PICK l : l = Len(t) /\ l \in Nat /\ l > 1 /\ l < MsgLength /\ t \in Seq(Posts!Byte)
  BY DEF TextOf
<1>2. /\ m \in Seq(Posts!Byte) /\ Len(m) = l /\ \A k \in 1 .. l - 1 : m[k] = t[k]
      /\ m[l] = IF t[l] # Posts!NL THEN t[l] ELSE Posts!Nul
  BY <1>1, TerminatedIs
<1>3. MsgLength \in Nat
  BY MessagesAssumption
<1>4. b \in [1 .. MsgLength -> Posts!Byte]
  <2>1. \A k \in 1 .. l : m[k] \in Posts!Byte
    BY <1>1, <1>2, ElementOfSeq
  <2>. QED
    BY <1>1, <1>2, <1>3, <2>1 DEF CopiedOver
<1>5. \A k \in 1 .. l - 1 : b[k] = t[k] /\ b[k] # Posts!Nul
  BY <1>1, <1>2, <1>3 DEF TextOf, CopiedOver
<1>6. b[l] = m[l]
  BY <1>1, <1>2, <1>3 DEF CopiedOver
<1>7. PICK n \in 0 .. MsgLength :
        /\ Posts!Printed(b) = SubSeq(b, 1, n)
        /\ \A k \in 1 .. n : b[k] # Posts!Nul
        /\ n = MsgLength \/ b[n + 1] = Posts!Nul
  BY <1>4, PrintedIs
<1>8. /\ SubSeq(b, 1, n) \in Seq(Posts!Byte) /\ Len(SubSeq(b, 1, n)) = n
      /\ \A k \in 1 .. n : SubSeq(b, 1, n)[k] = b[k]
  <2>1. \A k \in 1 .. n : b[k] \in Posts!Byte
    BY <1>3, <1>4
  <2>. QED
    BY <2>1, SubSeqProperties
<1>9. n >= l - 1
  <2>1. ASSUME n < l - 1 PROVE FALSE
    <3>1. n + 1 \in 1 .. l - 1 /\ n # MsgLength
      BY <1>1, <1>3, <2>1
    <3>. QED
      BY <1>5, <1>7, <3>1
  <2>. QED
    BY <1>1, <2>1
<1>10. CASE t[l] # Posts!NL
  <2>1. b[l] = t[l] /\ b[l] # Posts!Nul
    BY <1>1, <1>2, <1>6, <1>10 DEF TextOf
  <2>2. n # l - 1
    <3>1. (l - 1) + 1 = l /\ l - 1 # MsgLength
      BY <1>1, <1>3
    <3>. QED
      BY <1>7, <2>1, <3>1
  <2>3. ASSUME NEW k \in 1 .. l PROVE k <= n /\ k \in 1 .. n /\ b[k] = t[k]
    <3>1. n \in Nat /\ n >= l
      BY <1>1, <1>3, <1>9, <2>2
    <3>2. k \in 1 .. l - 1 \/ k = l
      BY <1>1
    <3>3. b[k] = t[k]
      BY <1>5, <2>1, <3>2
    <3>. QED
      BY <1>1, <3>1, <3>3
  <2>4. \A k \in 1 .. Len(t) : k <= Len(SubSeq(b, 1, n)) /\ SubSeq(b, 1, n)[k] = t[k]
    BY <1>1, <1>8, <2>3
  <2>. QED
    BY <1>1, <1>4, <1>7, <1>8, <1>10, <2>4 DEF Shows, Posts!Unended
<1>11. CASE t[l] = Posts!NL
  <2>1. b[l] = Posts!Nul
    BY <1>2, <1>6, <1>11
  <2>2. n = l - 1
    <3>1. n < l
      BY <1>1, <1>7, <2>1
    <3>. QED
      BY <1>1, <1>9, <3>1
  <2>3. \A k \in 1 .. l - 1 : t[k] \in Posts!Byte
    BY <1>1, ElementOfSeq
  <2>4. /\ SubSeq(t, 1, l - 1) \in Seq(Posts!Byte) /\ Len(SubSeq(t, 1, l - 1)) = l - 1
        /\ \A k \in 1 .. l - 1 : SubSeq(t, 1, l - 1)[k] = t[k]
    BY <1>1, <2>3, SubSeqProperties
  <2>5. SubSeq(b, 1, n) = SubSeq(t, 1, l - 1)
    <3>1. PICK u : u = SubSeq(b, 1, n)
      OBVIOUS
    <3>2. PICK v : v = SubSeq(t, 1, l - 1)
      OBVIOUS
    <3>3. u \in Seq(Posts!Byte) /\ v \in Seq(Posts!Byte) /\ Len(u) = Len(v) /\ Len(u) = l - 1
      BY <1>8, <2>2, <2>4, <3>1, <3>2
    <3>4. \A k \in 1 .. Len(u) : u[k] = v[k]
      BY <1>5, <1>8, <2>2, <2>4, <3>1, <3>2, <3>3
    <3>5. u = v
      BY <3>3, <3>4, SeqEqual
    <3>. QED
      BY <3>1, <3>2, <3>5
  <2>. QED
    BY <1>1, <1>4, <1>7, <1>8, <1>11, <2>5 DEF Shows, Posts!Unended, Posts!Start
<1>. QED
  BY <1>10, <1>11
-----------------------------------------------------------------------------
LEMMA PostsTypes ==
  ASSUME PostsInv
  PROVE  /\ postAt \in [Senders -> {"start", "fgets", "msgsnd", "remove", "over"}]
         /\ typedLeft \in [Senders -> Seq(Posts!Byte)] /\ lineNo \in [Senders -> 0 .. MaxPosts]
         /\ lastId \in Nat /\ queueId \in 0 .. lastId /\ watchId \in 0 .. lastId
         /\ myId \in [Senders -> 0 .. lastId]
         /\ messages \in Seq(Seq(Posts!Byte)) /\ posted \in Seq(Seq(Posts!Byte))
         /\ shownText \in Seq(Seq(Posts!Byte)) /\ takenIn \in [Senders -> Seq(Seq(Posts!Byte))]
         /\ watchAt \in {"start", "msgrcv", "over"} /\ shownBuf \in [1 .. MsgLength -> Posts!Byte]
BY DEF PostsInv, Posts!MessageTypeOK

LEMMA PostsGet ==
  ASSUME PostsInv, NEW s \in Senders, Posts!Get(s)
  PROVE  PostsInv'
<1>1. /\ postAt[s] = "start" /\ postAt' = [postAt EXCEPT ![s] = "fgets"]
      /\ myId' = [myId EXCEPT ![s] = queueId']
      /\ UNCHANGED <<typedLeft, lineNo, takenIn, watchAt, watchId, shownBuf, shownText>>
      /\ \/ queueId # 0 /\ UNCHANGED <<queueId, lastId, messages, posted>>
         \/ queueId = 0 /\ lastId' = lastId + 1 /\ queueId' = lastId + 1 /\ messages' = <<>> /\ posted' = <<>>
  BY DEF Posts!Get, Posts!watchVars
<1>2. takenIn[s] = <<>> /\ \A k \in 1 .. Len(posted) : posted[k][1][1] # s
  BY <1>1 DEF PostsInv, TakenInv
<1>3. /\ Len(posted) \in Nat /\ lastId' \in Nat /\ lastId <= lastId' /\ queueId' \in 0 .. lastId'
      /\ queueId' # 0
  <2>1. lastId \in Nat /\ queueId \in 0 .. lastId /\ Len(posted) \in Nat
    BY PostsTypes
  <2>. QED
    BY <1>1, <2>1
<1>4. myId' \in [Senders -> 0 .. lastId'] /\ watchId' \in 0 .. lastId'
  <2>1. \A r \in Senders : myId[r] \in 0 .. lastId'
    BY <1>3, PostsTypes, SMTT(20)
  <2>2. myId' \in [Senders -> 0 .. lastId']
    BY <1>1, <1>3, <2>1, PostsTypes
  <2>. QED
    BY <1>1, <1>3, <2>2, PostsTypes
<1>5. Posts!MessageTypeOK'
  <2>1. postAt' \in [Senders -> {"start", "fgets", "msgsnd", "remove", "over"}]
    BY <1>1, PostsTypes
  <2>2. messages' \in Seq(Seq(Posts!Byte)) /\ posted' \in Seq(Seq(Posts!Byte))
    <3>1. <<>> \in Seq(Seq(Posts!Byte))
      OBVIOUS
    <3>2. messages \in Seq(Seq(Posts!Byte)) /\ posted \in Seq(Seq(Posts!Byte))
      BY PostsTypes
    <3>. QED
      BY <1>1, <3>1, <3>2, Zenon
  <2>. QED
    BY <1>1, <1>3, <1>4, <2>1, <2>2, PostsTypes DEF Posts!MessageTypeOK
<1>6. LeftInv'
  BY <1>1 DEF PostsInv, LeftInv
<1>7. \A k \in 1 .. Len(posted') : k \in 1 .. Len(posted) /\ posted'[k] = posted[k]
  BY <1>1
<1>8. TakenInv'
  <2>1. \A r \in Senders : r # s => postAt'[r] = postAt[r] /\ myId'[r] = myId[r]
    BY <1>1, PostsTypes
  <2>2. postAt'[s] = "fgets"
    BY <1>1, PostsTypes
  <2>. QED
    BY <1>1, <1>7, <2>1, <2>2 DEF PostsInv, TakenInv
<1>9. PostedInv'
  BY <1>7 DEF PostsInv, PostedInv
<1>10. SentInOrderInv'
  <2>1. ASSUME NEW r \in Senders, myId'[r] = queueId' PROVE InOrderOf(posted', takenIn'[r], postAt'[r], r)
    <3>1. CASE r = s
      <4>1. Len(posted') \in Nat /\ \A k \in 1 .. Len(posted') : posted'[k][1][1] # s
        BY <1>1, <1>2, <1>3, <1>7
      <4>2. InOrderOf(posted', <<>>, "fgets", s)
        BY <4>1, OrderNone
      <4>. QED
        BY <1>1, <1>2, <3>1, <4>2, PostsTypes
    <3>2. CASE r # s
      <4>1. myId'[r] = myId[r] /\ postAt'[r] = postAt[r] /\ myId[r] <= lastId /\ myId[r] \in Nat
        BY <1>1, <3>2, PostsTypes
      <4>2. queueId # 0 /\ queueId' = queueId /\ posted' = posted
        <5>1. queueId' # lastId + 1
          BY <2>1, <4>1, PostsTypes
        <5>. QED
          BY <1>1, <5>1
      <4>. QED
        BY <1>1, <2>1, <4>1, <4>2 DEF PostsInv, SentInOrderInv
    <3>. QED
      BY <3>1, <3>2
  <2>. QED
    BY <2>1 DEF SentInOrderInv
<1>11. WatchInv'
  <2>1. IF watchAt' = "start" THEN shownText' = <<>> /\ watchId' = 0 ELSE watchId' # 0
    BY <1>1 DEF PostsInv, WatchInv
  <2>2. ASSUME watchAt' = "start" \/ watchId' = queueId' PROVE QueueOf(shownText', messages', posted')
    <3>1. CASE queueId # 0
      BY <1>1, <2>2, <3>1 DEF PostsInv, WatchInv
    <3>2. CASE queueId = 0
      <4>1. watchId' # queueId'
        BY <1>1, <3>2, PostsTypes
      <4>2. shownText' = <<>> /\ messages' = <<>> /\ posted' = <<>>
        BY <1>1, <2>1, <2>2, <3>2, <4>1
      <4>. QED
        BY <4>2, QueueNone
    <3>. QED
      BY <3>1, <3>2
  <2>. QED
    BY <2>1, <2>2 DEF WatchInv
<1>. QED
  BY <1>3, <1>5, <1>6, <1>8, <1>9, <1>10, <1>11 DEF PostsInv

LEMMA PostsType ==
  ASSUME PostsInv, NEW s \in Senders, Posts!Type(s)
  PROVE  PostsInv'
<1>1. /\ lineNo[s] < MaxPosts /\ lineNo' = [lineNo EXCEPT ![s] = @ + 1]
      /\ UNCHANGED <<postAt, myId, queueId, lastId, messages, posted, takenIn,
                     watchAt, watchId, shownBuf, shownText>>
  BY DEF Posts!Type, Posts!keptVars, Posts!watchVars
<1>2. PICK n \in TypedLengths, newline \in BOOLEAN :
        typedLeft' = [typedLeft EXCEPT ![s] =
          [k \in 1 .. n |-> <<s, lineNo'[s]>>] \o (IF newline THEN <<Posts!NL>> ELSE <<>>)]
  BY DEF Posts!Type
<1>3. n \in Nat /\ MaxPosts \in Nat
  BY MessagesAssumption
<1>4. lineNo' \in [Senders -> 0 .. MaxPosts] /\ lineNo'[s] \in 1 .. MaxPosts
  BY <1>1, <1>3, PostsTypes
<1>5. PICK c : c = <<s, lineNo'[s]>>
  OBVIOUS
<1>6. c \in Posts!Byte /\ c # Posts!NL /\ c # Posts!Nul /\ c[1] = s
  BY <1>4, <1>5, ByteIs
<1>7. PICK u : u = [k \in 1 .. n |-> c]
  OBVIOUS
<1>8. u \in Seq(Posts!Byte) /\ Len(u) = n /\ \A k \in 1 .. n : u[k] = c
  BY <1>3, <1>6, <1>7
<1>9. PICK v : v = IF newline THEN <<Posts!NL>> ELSE <<>>
  OBVIOUS
<1>10. v \in Seq(Posts!Byte) /\ Len(v) \in {0, 1} /\ \A k \in 1 .. Len(v) : v[k] = Posts!NL
  <2>1. Posts!NL \in Posts!Byte
    BY DEF Posts!Byte
  <2>2. CASE newline
    <3>1. v = <<Posts!NL>>
      BY <1>9, <2>2
    <3>. QED
      BY <2>1, <3>1
  <2>3. CASE ~newline
    <3>1. v = <<>>
      BY <1>9, <2>3
    <3>. QED
      BY <3>1
  <2>. QED
    BY <2>2, <2>3
<1>11. PICK w : w = u \o v
  OBVIOUS
<1>12. /\ w \in Seq(Posts!Byte) /\ Len(w) = n + Len(v)
       /\ \A k \in 1 .. n + Len(v) : w[k] = IF k <= n THEN u[k] ELSE v[k - n]
  BY <1>8, <1>10, <1>11, ConcatProperties
<1>13. typedLeft' = [typedLeft EXCEPT ![s] = w]
  BY <1>2, <1>5, <1>7, <1>9, <1>11
<1>14. \A k \in 1 .. Len(w) : w[k] # Posts!Nul /\ (IF w[k] = Posts!NL THEN k = Len(w) ELSE w[k][1] = s)
  <2>1. ASSUME NEW k \in 1 .. Len(w)
        PROVE  w[k] # Posts!Nul /\ (IF w[k] = Posts!NL THEN k = Len(w) ELSE w[k][1] = s)
    <3>1. CASE k <= n
      BY <1>3, <1>6, <1>8, <1>12, <2>1, <3>1
    <3>2. CASE ~(k <= n)
      <4>1. k - n = 1 /\ Len(v) = 1 /\ k = Len(w)
        <5>1. PICK l : l = Len(v)
          OBVIOUS
        <5>2. Len(w) = n + l /\ l \in {0, 1} /\ k \in 1 .. n + l
          BY <1>10, <1>12, <5>1
        <5>3. n \in Nat /\ k \in Nat /\ n < k
          BY <1>3, <1>12, <2>1, <3>2
        <5>4. l = 1 /\ k = n + 1
          BY <5>2, <5>3
        <5>. QED
          BY <1>12, <5>1, <5>3, <5>4
      <4>2. w[k] = v[k - n] /\ v[1] = Posts!NL
        BY <1>10, <1>12, <3>2, <4>1
      <4>. QED
        BY <4>1, <4>2, ByteIs
    <3>. QED
      BY <3>1, <3>2
  <2>. QED
    BY <2>1
<1>15. typedLeft' \in [Senders -> Seq(Posts!Byte)]
  BY <1>12, <1>13, PostsTypes
<1>16. LeftInv'
  <2>1. typedLeft'[s] = w /\ \A r \in Senders : r # s => typedLeft'[r] = typedLeft[r]
    BY <1>13, PostsTypes
  <2>2. ASSUME NEW r \in Senders, NEW k \in 1 .. Len(typedLeft'[r])
        PROVE  LET d == typedLeft'[r][k]
               IN  d # Posts!Nul /\ (IF d = Posts!NL THEN k = Len(typedLeft'[r]) ELSE d[1] = r)
    <3>1. CASE r = s
      BY <1>14, <2>1, <2>2, <3>1
    <3>2. CASE r # s
      BY <2>1, <2>2, <3>2 DEF PostsInv, LeftInv
    <3>. QED
      BY <3>1, <3>2
  <2>. QED
    BY <2>2 DEF LeftInv
<1>17. Posts!MessageTypeOK' /\ lastId' \in Nat
  BY <1>1, <1>4, <1>15, PostsTypes DEF Posts!MessageTypeOK
<1>18. TakenInv' /\ PostedInv' /\ SentInOrderInv' /\ WatchInv'
  BY <1>1 DEF PostsInv, TakenInv, PostedInv, SentInOrderInv, WatchInv
<1>. QED
  BY <1>16, <1>17, <1>18 DEF PostsInv

LEMMA PostsFgets ==
  ASSUME PostsInv, NEW s \in Senders, Posts!Fgets(s)
  PROVE  PostsInv'
<1>1. PICK l : l = typedLeft[s]
  OBVIOUS
<1>2. PICK n : n = IF Len(l) < MsgLength THEN Len(l) ELSE MsgLength - 1
  OBVIOUS
<1>3. PICK x : x = SubSeq(l, 1, n)
  OBVIOUS
<1>4. PICK y : y = SubSeq(l, n + 1, Len(l))
  OBVIOUS
<1>5. /\ postAt[s] = "fgets" /\ n > 0 /\ typedLeft' = [typedLeft EXCEPT ![s] = y]
      /\ \/ n = 1 /\ postAt' = [postAt EXCEPT ![s] = "remove"] /\ takenIn' = takenIn
         \/ n # 1 /\ postAt' = [postAt EXCEPT ![s] = "msgsnd"]
            /\ takenIn' = [takenIn EXCEPT ![s] = Append(@, x)]
      /\ UNCHANGED <<myId, lineNo, queueId, lastId, messages, posted, watchAt, watchId, shownBuf, shownText>>
  BY <1>1, <1>2, <1>3, <1>4 DEF Posts!Fgets, Posts!watchVars
<1>6. MsgLength \in Nat /\ l \in Seq(Posts!Byte) /\ Len(l) \in Nat
  BY <1>1, MessagesAssumption, PostsTypes
<1>7. n \in 1 .. Len(l) /\ n < MsgLength
  BY <1>2, <1>5, <1>6
<1>8. x \in Seq(Posts!Byte) /\ Len(x) = n /\ \A k \in 1 .. n : x[k] = l[k]
  <2>1. \A k \in 1 .. n : l[k] \in Posts!Byte
    BY <1>6, <1>7
  <2>. QED
    BY <1>3, <1>6, <1>7, <2>1, SubSeqProperties
<1>9. y \in Seq(Posts!Byte) /\ Len(y) = Len(l) - n /\ \A k \in 1 .. Len(l) - n : y[k] = l[n + k]
  <2>1. \A k \in n + 1 .. Len(l) : l[k] \in Posts!Byte
    BY <1>6, <1>7
  <2>2. CASE n = Len(l)
    BY <1>4, <1>6, <1>7, <2>2
  <2>3. CASE n < Len(l)
    <3>1. n + 1 \in 1 .. Len(l) /\ Len(l) \in n + 1 .. Len(l)
      BY <1>6, <1>7, <2>3
    <3>2. /\ y \in Seq(Posts!Byte) /\ Len(y) = Len(l) - (n + 1) + 1
          /\ \A k \in 1 .. Len(y) : y[k] = l[n + 1 + k - 1]
      BY <1>4, <1>6, <2>1, <3>1, SubSeqProperties
    <3>. QED
      BY <1>6, <1>7, <3>2
  <2>. QED
    BY <1>6, <1>7, <2>2, <2>3
<1>10. \A k \in 1 .. Len(l) :
         l[k] # Posts!Nul /\ (IF l[k] = Posts!NL THEN k = Len(l) ELSE l[k][1] = s)
  BY <1>1 DEF PostsInv, LeftInv
<1>11. n # 1 => TextOf(s, x)
  <2>1. ASSUME n # 1 PROVE Len(x) > 1 /\ Len(x) < MsgLength /\ x[1][1] = s
    <3>1. PICK j : j = Len(l)
      OBVIOUS
    <3>2. j \in Nat /\ n \in 1 .. j
      BY <1>6, <1>7, <3>1
    <3>3. 1 \in 1 .. n /\ 1 \in 1 .. j /\ j # 1
      BY <2>1, <3>2
    <3>4. l[1][1] = s
      BY <1>10, <3>1, <3>3
    <3>5. Len(x) = n /\ x[1] = l[1] /\ n > 1
      BY <1>8, <2>1, <3>2, <3>3
    <3>. QED
      BY <1>7, <3>4, <3>5
  <2>2. ASSUME NEW k \in 1 .. Len(x) PROVE x[k] # Posts!Nul /\ (x[k] = Posts!NL => k = Len(x))
    <3>1. k \in 1 .. n /\ k \in 1 .. Len(l) /\ (k = Len(l) => k = n)
      BY <1>6, <1>7, <1>8, <2>2
    <3>. QED
      BY <1>8, <1>10, <3>1
  <2>. QED
    BY <1>8, <2>1, <2>2 DEF TextOf
<1>12. LeftInv'
  <2>1. typedLeft'[s] = y /\ \A r \in Senders : r # s => typedLeft'[r] = typedLeft[r]
    BY <1>5, PostsTypes
  <2>2. ASSUME NEW k \in 1 .. Len(y)
        PROVE  y[k] # Posts!Nul /\ (IF y[k] = Posts!NL THEN k = Len(y) ELSE y[k][1] = s)
    <3>1. n + k \in 1 .. Len(l) /\ y[k] = l[n + k] /\ (n + k = Len(l) => k = Len(y))
      BY <1>6, <1>7, <1>9, <2>2
    <3>. QED
      BY <1>10, <3>1
  <2>3. ASSUME NEW r \in Senders, NEW k \in 1 .. Len(typedLeft'[r])
        PROVE  LET d == typedLeft'[r][k]
               IN  d # Posts!Nul /\ (IF d = Posts!NL THEN k = Len(typedLeft'[r]) ELSE d[1] = r)
    <3>1. CASE r = s
      BY <2>1, <2>2, <2>3, <3>1
    <3>2. CASE r # s
      BY <2>1, <2>3, <3>2 DEF PostsInv, LeftInv
    <3>. QED
      BY <3>1, <3>2
  <2>. QED
    BY <2>3 DEF LeftInv
<1>13. \A r \in Senders : r # s => postAt'[r] = postAt[r] /\ takenIn'[r] = takenIn[r]
  BY <1>5, PostsTypes
<1>14. takenIn[s] \in Seq(Seq(Posts!Byte))
  BY PostsTypes
<1>15. \/ n = 1 /\ postAt'[s] = "remove" /\ takenIn'[s] = takenIn[s]
       \/ n # 1 /\ postAt'[s] = "msgsnd" /\ takenIn'[s] = Append(takenIn[s], x)
  BY <1>5, PostsTypes
<1>16. Posts!MessageTypeOK' /\ lastId' \in Nat
  <2>1. postAt' \in [Senders -> {"start", "fgets", "msgsnd", "remove", "over"}]
    BY <1>5, PostsTypes
  <2>2. typedLeft' \in [Senders -> Seq(Posts!Byte)]
    BY <1>5, <1>9, PostsTypes
  <2>3. takenIn' \in [Senders -> Seq(Seq(Posts!Byte))]
    <3>1. Append(takenIn[s], x) \in Seq(Seq(Posts!Byte))
      BY <1>8, <1>14, AppendProperties
    <3>2. takenIn \in [Senders -> Seq(Seq(Posts!Byte))]
      BY PostsTypes
    <3>3. takenIn' = takenIn \/ takenIn' = [takenIn EXCEPT ![s] = Append(takenIn[s], x)]
      BY <1>5
    <3>. QED
      BY <3>1, <3>2, <3>3
  <2>. QED
    BY <1>5, <2>1, <2>2, <2>3, PostsTypes DEF Posts!MessageTypeOK
<1>17. TakenInv'
  <2>1. ASSUME NEW r \in Senders
        PROVE  /\ \A k \in 1 .. Len(takenIn'[r]) : TextOf(r, takenIn'[r][k])
               /\ postAt'[r] = "msgsnd" => takenIn'[r] # <<>>
               /\ postAt'[r] = "start" =>
                    /\ takenIn'[r] = <<>> /\ myId'[r] = 0
                    /\ \A k \in 1 .. Len(posted') : posted'[k][1][1] # r
    <3>1. CASE r # s
      BY <1>5, <1>13, <3>1 DEF PostsInv, TakenInv
    <3>2. CASE r = s /\ n = 1
      BY <1>15, <3>2 DEF PostsInv, TakenInv
    <3>3. CASE r = s /\ n # 1
      <4>1. PICK u : u = Append(takenIn[s], x)
        OBVIOUS
      <4>2. /\ Len(u) = Len(takenIn[s]) + 1 /\ u[Len(takenIn[s]) + 1] = x /\ Len(takenIn[s]) \in Nat
            /\ \A k \in 1 .. Len(takenIn[s]) : u[k] = takenIn[s][k]
        BY <1>8, <1>14, <4>1, AppendProperties
      <4>3. \A k \in 1 .. Len(takenIn[s]) : TextOf(s, takenIn[s][k])
        BY DEF PostsInv, TakenInv
      <4>4. \A k \in 1 .. Len(u) : TextOf(s, u[k])
        <5>1. TextOf(s, x)
          BY <1>11, <3>3
        <5>. QED
          BY <4>2, <4>3, <5>1
      <4>5. u # <<>>
        BY <4>2
      <4>. QED
        BY <1>15, <3>3, <4>1, <4>4, <4>5
    <3>. QED
      BY <3>1, <3>2, <3>3
  <2>. QED
    BY <2>1 DEF TakenInv
<1>18. SentInOrderInv'
  <2>1. ASSUME NEW r \in Senders, myId'[r] = queueId', queueId' # 0
        PROVE  InOrderOf(posted', takenIn'[r], postAt'[r], r)
    <3>1. InOrderOf(posted, takenIn[r], postAt[r], r)
      BY <1>5, <2>1 DEF PostsInv, SentInOrderInv
    <3>2. CASE r # s
      BY <1>5, <1>13, <3>1, <3>2
    <3>3. CASE r = s /\ n = 1
      BY <1>5, <1>15, <3>1, <3>3, OrderEnd
    <3>4. CASE r = s /\ n # 1
      <4>1. InOrderOf(posted, takenIn[s], "fgets", s) /\ Len(posted) \in Nat
        BY <1>5, <3>1, <3>4, PostsTypes
      <4>2. InOrderOf(posted, Append(takenIn[s], x), "msgsnd", s)
        BY <1>8, <1>14, <4>1, OrderTake
      <4>. QED
        BY <1>5, <1>15, <3>4, <4>2
    <3>. QED
      BY <3>2, <3>3, <3>4
  <2>. QED
    BY <2>1 DEF SentInOrderInv
<1>19. PostedInv' /\ WatchInv'
  BY <1>5 DEF PostsInv, PostedInv, WatchInv
<1>. QED
  BY <1>12, <1>16, <1>17, <1>18, <1>19 DEF PostsInv

\* s is killed, or at the end of its input: what it has taken and not posted stays
\* with it.
LEMMA PostsEnd ==
  ASSUME PostsInv, NEW s \in Senders, Posts!EndOfInput(s) \/ Posts!Kill(s)
  PROVE  PostsInv'
<1>1. /\ \/ postAt[s] = "fgets" /\ postAt' = [postAt EXCEPT ![s] = "remove"]
         \/ postAt' = [postAt EXCEPT ![s] = "over"]
      /\ UNCHANGED <<myId, typedLeft, lineNo, queueId, lastId, messages, posted, takenIn,
                     watchAt, watchId, shownBuf, shownText>>
  BY DEF Posts!EndOfInput, Posts!Kill, Posts!keptVars, Posts!watchVars
<1>2. /\ postAt'[s] = "over" \/ (postAt[s] = "fgets" /\ postAt'[s] = "remove")
      /\ \A r \in Senders : r # s => postAt'[r] = postAt[r]
  BY <1>1, PostsTypes
<1>3. Posts!MessageTypeOK' /\ lastId' \in Nat
  <2>1. postAt' \in [Senders -> {"start", "fgets", "msgsnd", "remove", "over"}]
    BY <1>1, PostsTypes
  <2>. QED
    BY <1>1, <2>1, PostsTypes DEF Posts!MessageTypeOK
<1>4. TakenInv'
  BY <1>1, <1>2 DEF PostsInv, TakenInv
<1>5. SentInOrderInv'
  <2>1. ASSUME NEW r \in Senders, myId'[r] = queueId', queueId' # 0
        PROVE  InOrderOf(posted', takenIn'[r], postAt'[r], r)
    <3>1. InOrderOf(posted, takenIn[r], postAt[r], r)
      BY <1>1, <2>1 DEF PostsInv, SentInOrderInv
    <3>. QED
      BY <1>1, <1>2, <3>1, OrderEnd
  <2>. QED
    BY <2>1 DEF SentInOrderInv
<1>6. LeftInv' /\ PostedInv' /\ WatchInv'
  BY <1>1 DEF PostsInv, LeftInv, PostedInv, WatchInv
<1>. QED
  BY <1>3, <1>4, <1>5, <1>6 DEF PostsInv

LEMMA PostsSend ==
  ASSUME PostsInv, NEW s \in Senders, Posts!Send(s)
  PROVE  PostsInv'
<1>1. PICK x : x = takenIn[s][Len(takenIn[s])]
  OBVIOUS
<1>2. PICK m : m = Posts!Terminated(x)
  OBVIOUS
<1>3. /\ postAt[s] = "msgsnd" /\ postAt' = [postAt EXCEPT ![s] = "fgets"]
      /\ \/ myId[s] = queueId /\ messages' = Append(messages, m) /\ posted' = Append(posted, x)
         \/ myId[s] # queueId /\ UNCHANGED <<messages, posted>>
      /\ UNCHANGED <<myId, typedLeft, lineNo, queueId, lastId, takenIn, watchAt, watchId, shownBuf, shownText>>
  BY <1>1, <1>2 DEF Posts!Send, Posts!LastOf, Posts!watchVars
<1>4. takenIn[s] \in Seq(Seq(Posts!Byte)) /\ takenIn[s] # <<>>
  BY <1>3, PostsTypes DEF PostsInv, TakenInv
<1>5. Len(takenIn[s]) \in 1 .. Len(takenIn[s])
  BY <1>4, EmptySeq, LenProperties
<1>6. TextOf(s, x)
  BY <1>1, <1>5 DEF PostsInv, TakenInv
<1>7. x \in Seq(Posts!Byte) /\ Len(x) > 1 /\ x[1][1] = s
  BY <1>6 DEF TextOf
<1>8. m \in Seq(Posts!Byte)
  BY <1>2, <1>7, TerminatedIs
<1>9. messages \in Seq(Seq(Posts!Byte)) /\ posted \in Seq(Seq(Posts!Byte)) /\ Len(posted) \in Nat
  BY PostsTypes
<1>10. /\ Append(messages, m) \in Seq(Seq(Posts!Byte)) /\ Append(posted, x) \in Seq(Seq(Posts!Byte))
       /\ Len(Append(posted, x)) = Len(posted) + 1 /\ Append(posted, x)[Len(posted) + 1] = x
       /\ \A k \in 1 .. Len(posted) : Append(posted, x)[k] = posted[k]
  BY <1>7, <1>8, <1>9, AppendProperties
<1>11. postAt'[s] = "fgets" /\ \A r \in Senders : r # s => postAt'[r] = postAt[r]
  BY <1>3, PostsTypes
<1>12. Posts!MessageTypeOK' /\ lastId' \in Nat
  <2>1. postAt' \in [Senders -> {"start", "fgets", "msgsnd", "remove", "over"}]
    BY <1>3, PostsTypes
  <2>2. messages' \in Seq(Seq(Posts!Byte)) /\ posted' \in Seq(Seq(Posts!Byte))
    BY <1>3, <1>9, <1>10, Zenon
  <2>. QED
    BY <1>3, <2>1, <2>2, PostsTypes DEF Posts!MessageTypeOK
<1>13. LeftInv'
  BY <1>3 DEF PostsInv, LeftInv
<1>14. CASE myId[s] # queueId
  <2>1. UNCHANGED <<messages, posted>>
    BY <1>3, <1>14
  <2>2. TakenInv'
    BY <1>3, <1>11, <2>1 DEF PostsInv, TakenInv
  <2>3. SentInOrderInv'
    <3>1. ASSUME NEW r \in Senders, myId'[r] = queueId', queueId' # 0
          PROVE  InOrderOf(posted', takenIn'[r], postAt'[r], r)
      <4>1. r # s
        BY <1>3, <1>14, <3>1
      <4>2. InOrderOf(posted, takenIn[r], postAt[r], r)
        BY <1>3, <3>1 DEF PostsInv, SentInOrderInv
      <4>. QED
        BY <1>3, <1>11, <2>1, <4>1, <4>2
    <3>. QED
      BY <3>1 DEF SentInOrderInv
  <2>4. PostedInv' /\ WatchInv'
    BY <1>3, <2>1 DEF PostsInv, PostedInv, WatchInv
  <2>. QED
    BY <1>12, <1>13, <2>2, <2>3, <2>4 DEF PostsInv
<1>15. CASE myId[s] = queueId
  <2>1. messages' = Append(messages, m) /\ posted' = Append(posted, x)
    BY <1>3, <1>15
  <2>2. TakenInv'
    <3>1. ASSUME NEW r \in Senders, r # s, \A k \in 1 .. Len(posted) : posted[k][1][1] # r
          PROVE  \A k \in 1 .. Len(posted') : posted'[k][1][1] # r
      <4>1. x[1][1] # r
        BY <1>7, <3>1
      <4>. QED
        BY <1>9, <1>10, <2>1, <3>1, <4>1
    <3>. QED
      BY <1>3, <1>11, <3>1 DEF PostsInv, TakenInv
  <2>3. PostedInv'
    BY <1>6, <1>9, <1>10, <2>1 DEF PostsInv, PostedInv
  <2>4. SentInOrderInv'
    <3>1. ASSUME NEW r \in Senders, myId'[r] = queueId', queueId' # 0
          PROVE  InOrderOf(posted', takenIn'[r], postAt'[r], r)
      <4>1. InOrderOf(posted, takenIn[r], postAt[r], r)
        BY <1>3, <3>1 DEF PostsInv, SentInOrderInv
      <4>2. CASE r = s
        <5>1. InOrderOf(posted, takenIn[s], "msgsnd", s)
          BY <1>3, <4>1, <4>2
        <5>2. takenIn[s][Len(takenIn[s])][1][1] = s
          BY <1>1, <1>7
        <5>3. InOrderOf(Append(posted, takenIn[s][Len(takenIn[s])]), takenIn[s], "fgets", s)
          BY <1>4, <1>9, <5>1, <5>2, OrderPost
        <5>. QED
          BY <1>1, <1>3, <1>11, <2>1, <4>2, <5>3
      <4>3. CASE r # s
        <5>1. x[1][1] # r
          BY <1>7, <4>3
        <5>2. InOrderOf(Append(posted, x), takenIn[r], postAt[r], r)
          BY <1>7, <1>9, <4>1, <5>1, OrderOther
        <5>. QED
          BY <1>3, <1>11, <2>1, <4>3, <5>2
      <4>. QED
        BY <4>2, <4>3
    <3>. QED
      BY <3>1 DEF SentInOrderInv
  <2>5. WatchInv'
    <3>1. ASSUME queueId # 0, watchAt = "start" \/ watchId = queueId
          PROVE  QueueOf(shownText, messages', posted')
      <4>1. QueueOf(shownText, messages, posted) /\ Len(shownText) \in Nat
        BY <3>1, PostsTypes DEF PostsInv, WatchInv
      <4>. QED
        BY <1>2, <1>7, <1>8, <1>9, <2>1, <4>1, QueuePost
    <3>. QED
      BY <1>3, <3>1 DEF PostsInv, WatchInv
  <2>. QED
    BY <1>12, <1>13, <2>2, <2>3, <2>4, <2>5 DEF PostsInv
<1>. QED
  BY <1>14, <1>15

LEMMA PostsRemove ==
  ASSUME PostsInv, NEW s \in Senders, Posts!RemoveQueue(s)
  PROVE  PostsInv'
<1>1. /\ postAt[s] = "remove" /\ postAt' = [postAt EXCEPT ![s] = "over"]
      /\ \/ queueId' = 0 /\ messages' = <<>> /\ posted' = <<>>
         \/ myId[s] # queueId /\ UNCHANGED <<queueId, messages, posted>>
      /\ UNCHANGED <<myId, typedLeft, lineNo, lastId, takenIn, watchAt, watchId, shownBuf, shownText>>
  BY DEF Posts!RemoveQueue, Posts!watchVars
<1>2. postAt'[s] = "over" /\ \A r \in Senders : r # s => postAt'[r] = postAt[r]
  BY <1>1, PostsTypes
<1>3. \A k \in 1 .. Len(posted') : k \in 1 .. Len(posted) /\ posted'[k] = posted[k]
  BY <1>1
<1>4. queueId' = queueId \/ queueId' = 0
  BY <1>1
<1>5. Posts!MessageTypeOK' /\ lastId' \in Nat
  <2>1. postAt' \in [Senders -> {"start", "fgets", "msgsnd", "remove", "over"}]
    BY <1>1, PostsTypes
  <2>2. messages' \in Seq(Seq(Posts!Byte)) /\ posted' \in Seq(Seq(Posts!Byte))
    <3>1. <<>> \in Seq(Seq(Posts!Byte))
      OBVIOUS
    <3>2. messages \in Seq(Seq(Posts!Byte)) /\ posted \in Seq(Seq(Posts!Byte))
      BY PostsTypes
    <3>. QED
      BY <1>1, <3>1, <3>2, Zenon
  <2>3. queueId' \in 0 .. lastId'
    <3>1. lastId \in Nat /\ queueId \in 0 .. lastId
      BY PostsTypes
    <3>. QED
      BY <1>1, <3>1
  <2>. QED
    BY <1>1, <2>1, <2>2, <2>3, PostsTypes DEF Posts!MessageTypeOK
<1>6. LeftInv'
  BY <1>1 DEF PostsInv, LeftInv
<1>7. TakenInv'
  BY <1>1, <1>2, <1>3 DEF PostsInv, TakenInv
<1>8. PostedInv'
  BY <1>3 DEF PostsInv, PostedInv
<1>9. SentInOrderInv'
  <2>1. ASSUME NEW r \in Senders, myId'[r] = queueId', queueId' # 0
        PROVE  InOrderOf(posted', takenIn'[r], postAt'[r], r)
    <3>1. myId[s] # queueId /\ UNCHANGED <<queueId, messages, posted>>
      BY <1>1, <2>1
    <3>2. r # s /\ InOrderOf(posted, takenIn[r], postAt[r], r)
      BY <1>1, <2>1, <3>1 DEF PostsInv, SentInOrderInv
    <3>. QED
      BY <1>1, <1>2, <3>1, <3>2
  <2>. QED
    BY <2>1 DEF SentInOrderInv
<1>10. WatchInv'
  <2>1. CASE queueId' = 0
    BY <1>1, <2>1 DEF PostsInv, WatchInv
  <2>2. CASE UNCHANGED <<queueId, messages, posted>>
    BY <1>1, <2>2 DEF PostsInv, WatchInv
  <2>. QED
    BY <1>1, <2>1, <2>2
<1>. QED
  BY <1>5, <1>6, <1>7, <1>8, <1>9, <1>10 DEF PostsInv

LEMMA PostsWatch ==
  ASSUME PostsInv, Posts!Watch \/ Posts!ReceiveFails
  PROVE  PostsInv'
<1>1. /\ watchAt' \in {"msgrcv", "over"}
      /\ \/ watchAt = "start" /\ queueId # 0 /\ watchId' = queueId
         \/ watchAt # "start" /\ watchId # queueId /\ watchId' = watchId
      /\ UNCHANGED <<postAt, myId, typedLeft, lineNo, queueId, lastId, messages, posted, takenIn,
                     shownBuf, shownText>>
  BY DEF Posts!Watch, Posts!ReceiveFails, Posts!postVars, Posts!keptVars
<1>2. Posts!MessageTypeOK' /\ lastId' \in Nat
  <2>1. watchId' \in 0 .. lastId'
    BY <1>1, PostsTypes
  <2>. QED
    BY <1>1, <2>1, PostsTypes DEF Posts!MessageTypeOK
<1>3. LeftInv' /\ TakenInv' /\ PostedInv' /\ SentInOrderInv'
  BY <1>1 DEF PostsInv, LeftInv, TakenInv, PostedInv, SentInOrderInv
<1>4. WatchInv'
  <2>1. watchAt' # "start" /\ watchId' # 0
    BY <1>1 DEF PostsInv, WatchInv
  <2>2. ASSUME queueId # 0, watchId' = queueId PROVE QueueOf(shownText, messages, posted)
    BY <1>1, <2>2 DEF PostsInv, WatchInv
  <2>. QED
    BY <1>1, <2>1, <2>2 DEF WatchInv
<1>. QED
  BY <1>2, <1>3, <1>4 DEF PostsInv

LEMMA PostsReceive ==
  ASSUME PostsInv, Posts!Receive
  PROVE  PostsInv'
<1>1. PICK m : m = Head(messages)
  OBVIOUS
<1>2. PICK b : b = CopiedOver(m, shownBuf)
  OBVIOUS
<1>3. PICK y : y = Posts!Printed(b)
  OBVIOUS
<1>4. /\ watchAt = "msgrcv" /\ watchId = queueId /\ messages # <<>> /\ messages' = Tail(messages)
      /\ shownBuf' = b
      /\ UNCHANGED <<postAt, myId, typedLeft, lineNo, queueId, lastId, posted, takenIn, watchAt, watchId>>
  BY <1>1, <1>2 DEF Posts!Receive, Posts!postVars, CopiedOver
<1>5. shownText' = Append(shownText, y)
  BY <1>1, <1>2, <1>3, <1>4 DEF Posts!Receive, CopiedOver
<1>6. /\ messages \in Seq(Seq(Posts!Byte)) /\ posted \in Seq(Seq(Posts!Byte))
      /\ shownText \in Seq(Seq(Posts!Byte)) /\ shownBuf \in [1 .. MsgLength -> Posts!Byte]
  BY PostsTypes
<1>7. Tail(messages) \in Seq(Seq(Posts!Byte)) /\ Len(messages) \in Nat \ {0} /\ m = messages[1]
  BY <1>1, <1>4, <1>6, EmptySeq, HeadTailProperties
<1>8. ASSUME queueId # 0
      PROVE  /\ b \in [1 .. MsgLength -> Posts!Byte] /\ y \in Seq(Posts!Byte)
             /\ QueueOf(shownText', messages', posted')
  <2>1. QueueOf(shownText, messages, posted) /\ Len(shownText) \in Nat
    BY <1>4, <1>6, <1>8 DEF PostsInv, WatchInv
  <2>2. PICK k : k = Len(shownText) + 1
    OBVIOUS
  <2>3. k \in 1 .. Len(posted) /\ m = Posts!Terminated(posted[k])
    <3>1. Len(shownText) + Len(messages) = Len(posted) /\ 1 \in 1 .. Len(messages)
      BY <1>7, <2>1 DEF QueueOf
    <3>2. messages[1] = Posts!Terminated(posted[Len(shownText) + 1])
      BY <2>1, <3>1 DEF QueueOf
    <3>. QED
      BY <1>7, <2>1, <2>2, <3>1, <3>2
  <2>4. PICK s \in Senders : TextOf(s, posted[k])
    BY <2>3 DEF PostsInv, PostedInv
  <2>5. b \in [1 .. MsgLength -> Posts!Byte] /\ y \in Seq(Posts!Byte) /\ Shows(y, posted[k])
    <3>1. PICK x : x = posted[k]
      OBVIOUS
    <3>2. TextOf(s, x) /\ m = Posts!Terminated(x)
      BY <2>3, <2>4, <3>1
    <3>3. shownBuf \in [1 .. MsgLength -> Posts!Byte]
      BY <1>6
    <3>4. /\ b \in [1 .. MsgLength -> Posts!Byte] /\ Posts!Printed(b) \in Seq(Posts!Byte)
          /\ Shows(Posts!Printed(b), x)
      BY <1>2, <3>2, <3>3, PrintsText
    <3>. QED
      BY <1>3, <3>1, <3>4
  <2>6. QueueOf(Append(shownText, y), Tail(messages), posted)
    BY <1>4, <1>6, <2>1, <2>2, <2>5, QueueReceive
  <2>. QED
    BY <1>4, <1>5, <2>5, <2>6
<1>9. queueId # 0
  BY <1>4 DEF PostsInv, WatchInv
<1>10. Posts!MessageTypeOK' /\ lastId' \in Nat
  <2>1. messages' \in Seq(Seq(Posts!Byte)) /\ shownBuf' \in [1 .. MsgLength -> Posts!Byte]
    BY <1>4, <1>7, <1>8, <1>9
  <2>2. shownText' \in Seq(Seq(Posts!Byte))
    BY <1>5, <1>6, <1>8, <1>9, AppendProperties
  <2>. QED
    BY <1>4, <2>1, <2>2, PostsTypes DEF Posts!MessageTypeOK
<1>11. LeftInv' /\ TakenInv' /\ PostedInv' /\ SentInOrderInv'
  BY <1>4 DEF PostsInv, LeftInv, TakenInv, PostedInv, SentInOrderInv
<1>12. WatchInv'
  BY <1>4, <1>8, <1>9 DEF PostsInv, WatchInv
<1>. QED
  BY <1>10, <1>11, <1>12 DEF PostsInv

LEMMA PostsStep == PostsInv /\ (Posts!Next \/ UNCHANGED messageVars) => PostsInv'
<1>. SUFFICES ASSUME PostsInv, Posts!Next \/ UNCHANGED messageVars PROVE PostsInv'
  OBVIOUS
<1>1. CASE UNCHANGED messageVars
  <2>1. Posts!MessageTypeOK' /\ lastId' \in Nat
    BY <1>1, PostsTypes DEF messageVars, Posts!MessageTypeOK
  <2>2. LeftInv' /\ TakenInv' /\ PostedInv' /\ SentInOrderInv' /\ WatchInv'
    BY <1>1 DEF PostsInv, messageVars, LeftInv, TakenInv, PostedInv, SentInOrderInv, WatchInv
  <2>. QED
    BY <2>1, <2>2 DEF PostsInv
<1>2. CASE \E s \in Senders : Posts!Sender(s) \/ Posts!Kill(s)
  BY <1>2, PostsGet, PostsType, PostsFgets, PostsEnd, PostsSend, PostsRemove DEF Posts!Sender
<1>3. CASE Posts!Watch \/ Posts!Receive \/ Posts!ReceiveFails
  BY <1>3, PostsWatch, PostsReceive
<1>. QED
  BY <1>1, <1>2, <1>3 DEF Posts!Next

LEMMA PostsInit == Posts!Init => PostsInv
<1>. SUFFICES ASSUME Posts!Init PROVE PostsInv
  OBVIOUS
<1>1. /\ postAt = [s \in Senders |-> "start"] /\ myId = [s \in Senders |-> 0]
      /\ typedLeft = [s \in Senders |-> <<>>] /\ lineNo = [s \in Senders |-> 0]
      /\ takenIn = [s \in Senders |-> <<>>]
      /\ queueId = 0 /\ lastId = 0 /\ messages = <<>> /\ posted = <<>>
      /\ watchAt = "start" /\ watchId = 0
      /\ shownBuf = [k \in 1 .. MsgLength |-> Posts!Nul] /\ shownText = <<>>
  BY DEF Posts!Init
<1>2. MaxPosts \in Nat /\ MsgLength \in Nat
  BY MessagesAssumption
<1>3. Posts!MessageTypeOK /\ lastId \in Nat
  <2>1. postAt \in [Senders -> {"start", "fgets", "msgsnd", "remove", "over"}]
    BY <1>1
  <2>2. typedLeft \in [Senders -> Seq(Posts!Byte)]
    BY <1>1
  <2>3. takenIn \in [Senders -> Seq(Seq(Posts!Byte))]
    BY <1>1
  <2>4. lineNo \in [Senders -> 0 .. MaxPosts] /\ myId \in [Senders -> 0 .. lastId]
    BY <1>1, <1>2
  <2>5. {messages, posted, shownText} \subseteq Seq(Seq(Posts!Byte))
    <3>1. <<>> \in Seq(Seq(Posts!Byte))
      OBVIOUS
    <3>. QED
      BY <1>1, <3>1
  <2>6. shownBuf \in [1 .. MsgLength -> Posts!Byte]
    <3>1. Posts!Nul \in Posts!Byte
      BY DEF Posts!Byte
    <3>. QED
      BY <1>1, <3>1
  <2>. QED
    BY <1>1, <2>1, <2>2, <2>3, <2>4, <2>5, <2>6 DEF Posts!MessageTypeOK
<1>4. LeftInv
  BY <1>1 DEF LeftInv
<1>5. TakenInv /\ PostedInv
  BY <1>1 DEF TakenInv, PostedInv
<1>6. SentInOrderInv /\ WatchInv
  BY <1>1 DEF SentInOrderInv, WatchInv
<1>. QED
  BY <1>3, <1>4, <1>5, <1>6 DEF PostsInv

LEMMA PostsWhole == PostsInv => Posts!MessagesWhole
<1>. SUFFICES ASSUME PostsInv PROVE Posts!MessagesWhole
  OBVIOUS
<1>1. \A S : Posts!Cardinality(S) = Cardinality(S)
  BY DEF Cardinality, Posts!Cardinality
<1>2. \A s \in Senders : \A k : Posts!Sent(s, k) = CountOf(posted, s, k)
  BY <1>1 DEF Posts!Sent, CountOf
<1>3. ASSUME NEW s \in Senders, myId[s] = queueId, queueId # 0
      PROVE  LET unsent == Len(takenIn[s]) - Posts!Sent(s, Len(posted))
             IN /\ CASE postAt[s] = "over"   -> unsent \in {0, 1}
                     [] postAt[s] = "msgsnd" -> unsent = 1
                     [] OTHER                -> unsent = 0
                /\ \A k \in 1 .. Len(posted) :
                     posted[k][1][1] = s => posted[k] = takenIn[s][Posts!Sent(s, k)]
  <2>1. InOrderOf(posted, takenIn[s], postAt[s], s)
    BY <1>3 DEF PostsInv, SentInOrderInv
  <2>. QED
    BY <1>2, <2>1 DEF InOrderOf
<1>4. ASSUME watchId = queueId, queueId # 0
      PROVE  /\ Len(shownText) + Len(messages) = Len(posted)
             /\ \A k \in 1 .. Len(shownText) :
                  IF Posts!Unended(posted[k])
                  THEN \A n \in 1 .. Len(posted[k]) :
                         n <= Len(shownText[k]) /\ shownText[k][n] = posted[k][n]
                  ELSE shownText[k] = Posts!Start(posted[k])
  BY <1>4 DEF PostsInv, WatchInv, QueueOf, Shows
<1>. QED
  BY <1>3, <1>4 DEF Posts!MessagesWhole

-----------------------------------------------------------------------------
(* NioServer                                                               *)

NioByte == [from : Peers, no : 1 .. MaxSaid]
InLoop  == nioAt \in {"read", "write", "result"}

NioTypes ==
  /\ client \in [Nio!Fds -> Peers \union {NoPeer}] /\ open \subseteq Nio!Fds
  /\ line \in [Nio!Fds -> Seq(NioByte)] /\ read_index \in [Nio!Fds -> Nat]
  /\ \A f \in Nio!Fds : read_index[f] <= Len(line[f])
  /\ said \in [Peers -> 0 .. MaxSaid] /\ toRead \in [Peers -> Seq(NioByte)] /\ echoed \in [Peers -> Seq(NioByte)]
  /\ arrivals \subseteq Peers /\ abandoned \subseteq Peers
  /\ InLoop => i \in Nio!Fds /\ client[i] # NoPeer

\* A client has one connection, and until it is accepted has sent nothing.
ClientsInv ==
  /\ \A f, g \in Nio!Fds : client[f] # NoPeer /\ client[f] = client[g] => f = g
  /\ \A p \in arrivals : ~Nio!Served(p) /\ said[p] = 0 /\ echoed[p] = <<>>

\* What a client has sent is numbered up to said, wherever it is left.
SaidInv ==
  /\ \A f \in Nio!Fds : \A k \in 1 .. Len(line[f]) : line[f][k].no \in 1 .. said[line[f][k].from]
  /\ \A p \in Peers : \A k \in 1 .. Len(toRead[p]) :
       toRead[p][k].from = p /\ toRead[p][k].no \in 1 .. said[p]

\* The bytes of p in x are in order; they are among the first n; all n are there.
Ordered(p, x) ==
  \A a, b \in 1 .. Len(x) : a < b /\ x[a].from = p /\ x[b].from = p => x[a].no < x[b].no
Within(p, x, n) == \A a \in 1 .. Len(x) : x[a].from = p => x[a].no \in 1 .. n
Has(p, x, j)    == \E a \in 1 .. Len(x) : x[a].from = p /\ x[a].no = j
AllThere(p, x, n) == \A j \in 1 .. n : Has(p, x, j)

\* What is still to be sent to f.
Rest(f)  == SubSeq(line[f], read_index[f] + 1, Len(line[f]))
Under(f) == (echoed[client[f]] \o Rest(f)) \o toRead[client[f]]

\* What has been sent to a client, is to be sent, and is to be read holds its
\* bytes in order, and all of them unless some were abandoned.
OrderInv ==
  \A f \in Nio!Fds : client[f] # NoPeer =>
    /\ Ordered(client[f], Under(f)) /\ Within(client[f], Under(f), said[client[f]])
    /\ client[f] \notin abandoned => AllThere(client[f], Under(f), said[client[f]])

\* Of what has been sent to a client this is true also when it is gone.
SentInv ==
  \A p \in Peers :
    /\ Ordered(p, echoed[p]) /\ Within(p, echoed[p], said[p])
    /\ p \notin abandoned =>
         \A a \in 1 .. Len(echoed[p]) :
           echoed[p][a].from = p => AllThere(p, echoed[p], echoed[p][a].no)

NioInv == NioTypes /\ ClientsInv /\ SaidInv /\ OrderInv /\ SentInv

LEMMA OrderedFront ==
  ASSUME NEW p, NEW x \in Seq(NioByte), NEW y \in Seq(NioByte), NEW n
  PROVE  /\ Ordered(p, x \o y) => Ordered(p, x)
         /\ Within(p, x \o y, n) => Within(p, x, n)
<1>1. /\ Len(x) \in Nat /\ Len(y) \in Nat /\ Len(x \o y) = Len(x) + Len(y)
      /\ \A k \in 1 .. Len(x) : (x \o y)[k] = x[k]
  BY ConcatProperties
<1>2. \A k \in 1 .. Len(x) : k \in 1 .. Len(x \o y)
  BY <1>1
<1>. QED
  BY <1>1, <1>2 DEF Ordered, Within

\* Of the bytes in front of one that is there, all are in front of it.
LEMMA FrontThere ==
  ASSUME NEW p, NEW x \in Seq(NioByte), NEW y \in Seq(NioByte), NEW n \in Nat,
         Ordered(p, x \o y), Within(p, x \o y, n), AllThere(p, x \o y, n)
  PROVE  \A a \in 1 .. Len(x) : x[a].from = p => AllThere(p, x, x[a].no)
<1>1. /\ Len(x) \in Nat /\ Len(y) \in Nat /\ Len(x \o y) = Len(x) + Len(y)
      /\ \A k \in 1 .. Len(x) : (x \o y)[k] = x[k] /\ k \in 1 .. Len(x \o y)
      /\ x \o y \in Seq(NioByte)
  BY ConcatProperties
<1>2. PICK z \in Seq(NioByte) : z = x \o y
  BY <1>1
<1>3. ASSUME NEW a \in 1 .. Len(x), x[a].from = p, NEW j \in 1 .. x[a].no PROVE Has(p, x, j)
  <2>1. a \in 1 .. Len(z) /\ z[a] = x[a]
    BY <1>1, <1>2
  <2>2. x[a].no \in 1 .. n
    BY <1>2, <1>3, <2>1 DEF Within
  <2>3. j \in 1 .. n
    BY <2>2
  <2>4. PICK b \in 1 .. Len(z) : z[b].from = p /\ z[b].no = j
    BY <1>2, <2>3 DEF AllThere, Has
  <2>5. b <= a
    <3>1. ~(a < b)
      <4>1. a < b => z[a].no < z[b].no
        BY <1>2, <1>3, <2>1, <2>4 DEF Ordered
      <4>2. z[a].no \in Nat /\ z[b].no = j /\ j <= z[a].no
        BY <2>1, <2>2, <2>4
      <4>. QED
        BY <4>1, <4>2
    <3>. QED
      BY <1>1, <3>1
  <2>6. b \in 1 .. Len(x)
    BY <1>1, <2>5
  <2>. QED
    BY <1>1, <1>2, <2>4, <2>6 DEF Has
<1>. QED
  BY <1>3 DEF AllThere

\* A client that sends one more byte has it behind all the others.
LEMMA OneMoreByte ==
  ASSUME NEW p \in Peers, NEW x \in Seq(NioByte), NEW n \in Nat, NEW e \in NioByte,
         e.from = p, e.no = n + 1, Ordered(p, x), Within(p, x, n)
  PROVE  /\ Ordered(p, Append(x, e)) /\ Within(p, Append(x, e), n + 1)
         /\ AllThere(p, x, n) => AllThere(p, Append(x, e), n + 1)
<1>1. PICK z : z = Append(x, e)
  OBVIOUS
<1>2. /\ Len(x) \in Nat /\ Len(z) = Len(x) + 1 /\ z[Len(x) + 1] = e
      /\ \A k \in 1 .. Len(x) : z[k] = x[k]
  BY <1>1, AppendProperties
<1>3. \A k \in 1 .. Len(z) : k \in 1 .. Len(x) \/ k = Len(x) + 1
  BY <1>2
<1>4. \A k \in 1 .. Len(x) : x[k].from = p => x[k].no \in 1 .. n
  BY DEF Within
<1>5. Ordered(p, z)
  <2>. SUFFICES ASSUME NEW a \in 1 .. Len(z), NEW b \in 1 .. Len(z), a < b,
                       z[a].from = p, z[b].from = p
                PROVE  z[a].no < z[b].no
    BY DEF Ordered
  <2>1. a \in 1 .. Len(x)
    BY <1>2
  <2>2. z[a].no \in 1 .. n /\ z[a].no = x[a].no
    BY <1>2, <1>4, <2>1
  <2>3. CASE b = Len(x) + 1
    <3>1. z[b].no = n + 1
      BY <1>2, <2>3
    <3>. QED
      BY <2>2, <3>1
  <2>4. CASE b \in 1 .. Len(x)
    BY <1>2, <2>1, <2>4 DEF Ordered
  <2>. QED
    BY <1>3, <2>3, <2>4
<1>6. Within(p, z, n + 1)
  <2>. SUFFICES ASSUME NEW a \in 1 .. Len(z), z[a].from = p PROVE z[a].no \in 1 .. n + 1
    BY DEF Within
  <2>1. CASE a = Len(x) + 1
    <3>1. z[a].no = n + 1
      BY <1>2, <2>1
    <3>. QED
      BY <3>1
  <2>2. CASE a \in 1 .. Len(x)
    <3>1. z[a].no \in 1 .. n
      BY <1>2, <1>4, <2>2
    <3>. QED
      BY <3>1
  <2>. QED
    BY <1>3, <2>1, <2>2
<1>7. ASSUME AllThere(p, x, n), NEW j \in 1 .. n + 1 PROVE Has(p, z, j)
  <2>1. CASE j = n + 1
    <3>1. Len(x) + 1 \in 1 .. Len(z) /\ z[Len(x) + 1].from = p /\ z[Len(x) + 1].no = j
      BY <1>2, <2>1
    <3>. QED
      BY <3>1 DEF Has
  <2>2. CASE j # n + 1
    <3>1. j \in 1 .. n
      BY <2>2
    <3>2. PICK a \in 1 .. Len(x) : x[a].from = p /\ x[a].no = j
      BY <1>7, <3>1 DEF AllThere, Has
    <3>3. a \in 1 .. Len(z) /\ z[a] = x[a]
      BY <1>2
    <3>. QED
      BY <3>2, <3>3 DEF Has
  <2>. QED
    BY <2>1, <2>2
<1>. QED
  BY <1>1, <1>5, <1>6, <1>7 DEF AllThere

\* What is left of two sequences behind a place in the first.
LEMMA DropJoined ==
  ASSUME NEW S, NEW s \in Seq(S), NEW t \in Seq(S), NEW k \in 0 .. Len(s)
  PROVE  /\ SubSeq(s, k + 1, Len(s)) \in Seq(S) /\ k <= Len(s \o t)
         /\ SubSeq(s \o t, k + 1, Len(s \o t)) = SubSeq(s, k + 1, Len(s)) \o t
<1>1. /\ Len(s) \in Nat /\ Len(t) \in Nat /\ s \o t \in Seq(S) /\ Len(s \o t) = Len(s) + Len(t)
      /\ \A m \in 1 .. Len(s) + Len(t) : (s \o t)[m] = IF m <= Len(s) THEN s[m] ELSE t[m - Len(s)]
  BY ConcatProperties
<1>2. PICK z \in Seq(S) : z = s \o t
  BY <1>1
<1>3. PICK l \in Nat, n \in Nat : l = Len(s) /\ n = Len(t)
  BY <1>1
<1>4. PICK u : u = SubSeq(s, k + 1, l)
  OBVIOUS
<1>5. PICK v : v = SubSeq(z, k + 1, l + n)
  OBVIOUS
<1>6. u \in Seq(S) /\ Len(u) = l - k /\ \A m \in 1 .. l - k : u[m] = s[k + m]
  <2>1. k + 1 \in Int /\ l \in Int /\ \A m \in k + 1 .. l : s[m] \in S
    BY <1>3
  <2>2. /\ SubSeq(s, k + 1, l) \in Seq(S)
        /\ Len(SubSeq(s, k + 1, l)) = IF k + 1 <= l THEN l - (k + 1) + 1 ELSE 0
        /\ \A m \in 1 .. l - (k + 1) + 1 : SubSeq(s, k + 1, l)[m] = s[(k + 1) + m - 1]
    BY <2>1, SubSeqProperties
  <2>3. /\ (IF k + 1 <= l THEN l - (k + 1) + 1 ELSE 0) = l - k
        /\ l - (k + 1) + 1 = l - k /\ \A m \in 1 .. l - k : (k + 1) + m - 1 = k + m
    BY <1>3
  <2>. QED
    BY <1>4, <2>2, <2>3
<1>7. v \in Seq(S) /\ Len(v) = l + n - k /\ \A m \in 1 .. l + n - k : v[m] = z[k + m]
  <2>1. k + 1 \in Int /\ l + n \in Int /\ \A m \in k + 1 .. l + n : z[m] \in S
    BY <1>1, <1>2, <1>3
  <2>2. /\ SubSeq(z, k + 1, l + n) \in Seq(S)
        /\ Len(SubSeq(z, k + 1, l + n)) = IF k + 1 <= l + n THEN (l + n) - (k + 1) + 1 ELSE 0
        /\ \A m \in 1 .. (l + n) - (k + 1) + 1 : SubSeq(z, k + 1, l + n)[m] = z[(k + 1) + m - 1]
    BY <2>1, SubSeqProperties, SMTT(20)
  <2>3. /\ (IF k + 1 <= l + n THEN (l + n) - (k + 1) + 1 ELSE 0) = l + n - k
        /\ (l + n) - (k + 1) + 1 = l + n - k /\ \A m \in 1 .. l + n - k : (k + 1) + m - 1 = k + m
    BY <1>3
  <2>. QED
    BY <1>5, <2>2, <2>3
<1>8. /\ u \o t \in Seq(S) /\ Len(u \o t) = Len(u) + Len(t)
      /\ \A m \in 1 .. Len(u) + Len(t) : (u \o t)[m] = IF m <= Len(u) THEN u[m] ELSE t[m - Len(u)]
  BY <1>6, ConcatProperties
<1>9. Len(v) = Len(u \o t)
  BY <1>3, <1>6, <1>7, <1>8
<1>10. ASSUME NEW m \in 1 .. Len(v) PROVE v[m] = (u \o t)[m]
  <2>1. m \in 1 .. l + n - k /\ k + m \in 1 .. l + n
    BY <1>3, <1>7
  <2>2. v[m] = IF k + m <= l THEN s[k + m] ELSE t[k + m - l]
    BY <1>1, <1>2, <1>3, <1>7, <2>1
  <2>3. (u \o t)[m] = IF m <= l - k THEN u[m] ELSE t[m - (l - k)]
    <3>1. Len(u) = l - k /\ m \in 1 .. Len(u) + Len(t)
      BY <1>3, <1>6, <2>1
    <3>. QED
      BY <1>8, <3>1
  <2>4. m - (l - k) = k + m - l /\ (m <= l - k <=> k + m <= l)
    BY <1>3, <2>1
  <2>5. m <= l - k => u[m] = s[k + m]
    BY <1>6, <2>1
  <2>. QED
    BY <2>2, <2>3, <2>4, <2>5
<1>11. v = u \o t
  BY <1>7, <1>8, <1>9, <1>10, SeqEqual
<1>12. Len(s \o t) = l + n /\ k <= l + n /\ SubSeq(s \o t, k + 1, Len(s \o t)) = v
  BY <1>1, <1>2, <1>3, <1>5
<1>13. SubSeq(s, k + 1, Len(s)) = u
  BY <1>3, <1>4
<1>. QED
  BY <1>6, <1>11, <1>12, <1>13

LEMMA SmallestIn ==
  ASSUME NEW S \in SUBSET Nat, S # {}
  PROVE  Nio!Smallest(S) \in S
<1>1. \E n \in S : \A m \in S : n <= m
  BY LeastNumber
<1>. QED
  BY <1>1 DEF Nio!Smallest

LEMMA FdsAreNumbers == Nio!Fds \in SUBSET Nat
BY SizesAssumption DEF Nio!Fds

LEMMA GoOnTo ==
  ASSUME NEW f, Nio!GoOn(f)
  PROVE  nioAt' = "select" \/ (nioAt' = "read" /\ i' \in Nio!Fds /\ client'[i'] # NoPeer)
<1>1. PICK rest : rest = {g \in Nio!Fds : g > f /\ g <= max_fd /\ client'[g] # NoPeer}
  OBVIOUS
<1>2. \/ rest # {} /\ nioAt' = "read" /\ i' = Nio!Smallest(rest)
      \/ nioAt' = "select"
  BY <1>1 DEF Nio!GoOn
<1>3. rest \in SUBSET Nat
  BY <1>1, FdsAreNumbers
<1>4. rest # {} => Nio!Smallest(rest) \in rest
  BY <1>3, SmallestIn
<1>. QED
  BY <1>1, <1>2, <1>4

\* What a step does to the buffer of f and to the bytes of who is connected as f.
LEMMA UnderSame ==
  ASSUME NEW f \in Nio!Fds, client'[f] = client[f], line'[f] = line[f], read_index'[f] = read_index[f],
         echoed'[client[f]] = echoed[client[f]], toRead'[client[f]] = toRead[client[f]]
  PROVE  Under(f)' = Under(f)
BY DEF Under, Rest

LEMMA RestType ==
  ASSUME NioTypes, NEW f \in Nio!Fds
  PROVE  Rest(f) \in Seq(NioByte)
<1>1. PICK s \in Seq(NioByte) : s = line[f]
  BY DEF NioTypes
<1>2. PICK k \in 0 .. Len(s) : k = read_index[f]
  BY <1>1 DEF NioTypes
<1>3. SubSeq(s, k + 1, Len(s)) \in Seq(NioByte)
  BY DropJoined, EmptySeq
<1>. QED
  BY <1>1, <1>2, <1>3 DEF Rest

\* Select, NotReadable, NotWriteable, WriteFails, Continued and HangUp move no byte.
LEMMA NioQuiet ==
  ASSUME NioInv, UNCHANGED <<client, open, line, read_index, said, toRead, echoed, arrivals, abandoned>>,
         InLoop' => i' \in Nio!Fds /\ client[i'] # NoPeer
  PROVE  NioInv'
<1>1. NioTypes'
  BY DEF NioInv, NioTypes
<1>2. ClientsInv' /\ SaidInv' /\ SentInv'
  BY DEF NioInv, ClientsInv, SaidInv, SentInv, Nio!Served
<1>3. OrderInv'
  <2>1. \A f \in Nio!Fds : Under(f)' = Under(f)
    BY UnderSame
  <2>. QED
    BY <2>1 DEF NioInv, OrderInv
<1>. QED
  BY <1>1, <1>2, <1>3 DEF NioInv

LEMMA NioQuietStep ==
  ASSUME NioInv,
         \/ Nio!Select \/ Nio!NotReadable \/ Nio!NotWriteable \/ Nio!WriteFails \/ Nio!Continued
         \/ \E p \in Peers : Nio!HangUp(p)
  PROVE  NioInv'
<1>0. NioTypes
  BY DEF NioInv
<1>. USE DEF Nio!bufferVars, Nio!peerVars, Nio!loopVars
<1>1. CASE Nio!Select
  <2>1. /\ nioAt' \in {"accept", "read"}
        /\ nioAt' = "read" => i' = Nio!Smallest(Nio!Connected) /\ Nio!Connected # {}
    BY <1>1 DEF Nio!Select
  <2>2. Nio!Connected \in SUBSET Nat
    BY FdsAreNumbers DEF Nio!Connected
  <2>3. Nio!Connected # {} => Nio!Smallest(Nio!Connected) \in Nio!Connected
    <3>1. PICK c : c = Nio!Connected
      OBVIOUS
    <3>2. c # {} => Nio!Smallest(c) \in c
      BY <2>2, <3>1, SmallestIn
    <3>. QED
      BY <3>1, <3>2
  <2>4. InLoop' => i' \in Nio!Fds /\ client[i'] # NoPeer
    BY <2>1, <2>3 DEF InLoop, Nio!Connected
  <2>5. UNCHANGED <<client, open, line, read_index, said, toRead, echoed, arrivals, abandoned>>
    BY <1>1 DEF Nio!Select
  <2>. QED
    BY <2>4, <2>5, NioQuiet
<1>2. CASE Nio!NotReadable \/ Nio!NotWriteable \/ Nio!WriteFails
  <2>1. /\ InLoop /\ i' = i
        /\ UNCHANGED <<client, open, line, read_index, said, toRead, echoed, arrivals, abandoned>>
    BY <1>2 DEF Nio!NotReadable, Nio!NotWriteable, Nio!WriteFails, InLoop
  <2>2. i' \in Nio!Fds /\ client[i'] # NoPeer
    BY <1>0, <2>1 DEF NioTypes
  <2>. QED
    BY <2>1, <2>2, NioQuiet
<1>3. CASE Nio!Continued
  <2>1. /\ UNCHANGED <<client, open, line, read_index, said, toRead, echoed, arrivals, abandoned>>
        /\ Nio!GoOn(i)
    BY <1>3 DEF Nio!Continued
  <2>2. InLoop' => i' \in Nio!Fds /\ client[i'] # NoPeer
    BY <2>1, GoOnTo DEF InLoop
  <2>. QED
    BY <2>1, <2>2, NioQuiet
<1>4. ASSUME NEW p \in Peers, Nio!HangUp(p) PROVE NioInv'
  <2>1. UNCHANGED <<nioAt, i, client, open, line, read_index, said, toRead, echoed, arrivals, abandoned>>
    BY <1>4 DEF Nio!HangUp
  <2>2. InLoop' => i' \in Nio!Fds /\ client[i'] # NoPeer
    BY <1>0, <2>1 DEF NioTypes, InLoop
  <2>. QED
    BY <2>1, <2>2, NioQuiet
<1>. QED
  BY <1>1, <1>2, <1>3, <1>4

\* Only who has not been served before arrives.
LEMMA NioArrive ==
  ASSUME NioInv, NEW p \in Peers, Nio!Arrive(p)
  PROVE  NioInv'
<1>1. /\ ~Nio!Served(p) /\ said[p] = 0 /\ echoed[p] = <<>> /\ arrivals' = arrivals \union {p}
      /\ UNCHANGED <<nioAt, i, client, open, line, read_index, said, toRead, echoed, abandoned>>
  BY DEF Nio!Arrive, Nio!bufferVars, Nio!loopVars
<1>2. NioTypes'
  BY <1>1 DEF NioInv, NioTypes, InLoop
<1>3. ClientsInv' /\ SaidInv' /\ SentInv'
  BY <1>1 DEF NioInv, ClientsInv, SaidInv, SentInv, Nio!Served
<1>4. OrderInv'
  <2>1. \A f \in Nio!Fds : Under(f)' = Under(f)
    BY <1>1, UnderSame
  <2>. QED
    BY <1>1, <2>1 DEF NioInv, OrderInv
<1>. QED
  BY <1>2, <1>3, <1>4 DEF NioInv

\* A connection that is closed: what its client was sent stays.
LEMMA NioClosed ==
  ASSUME NioInv, Nio!Closed
  PROVE  NioInv'
<1>1. /\ nioAt = "result" /\ client' = [client EXCEPT ![i] = NoPeer] /\ open' = open \ {i} /\ Nio!GoOn(i)
      /\ UNCHANGED <<line, read_index, said, toRead, echoed, arrivals, abandoned>>
  BY DEF Nio!Closed, Nio!bufferVars, Nio!peerVars
<1>2. InLoop' => i' \in Nio!Fds /\ client'[i'] # NoPeer
  BY <1>1, GoOnTo DEF InLoop
<1>3. client' \in [Nio!Fds -> Peers \union {NoPeer}] /\ \A f \in Nio!Fds : client'[f] \in {client[f], NoPeer}
  BY <1>1 DEF NioInv, NioTypes
<1>4. NioTypes'
  BY <1>1, <1>2, <1>3 DEF NioInv, NioTypes
<1>5. ClientsInv'
  <2>1. \A p \in Peers : Nio!Served(p)' => Nio!Served(p)
    BY <1>3, NoPeerAssumption DEF Nio!Served
  <2>. QED
    BY <1>1, <1>3, <2>1 DEF NioInv, NioTypes, ClientsInv
<1>6. SaidInv' /\ SentInv'
  BY <1>1 DEF NioInv, SaidInv, SentInv
<1>7. OrderInv'
  <2>1. \A f \in Nio!Fds : client'[f] # NoPeer => client'[f] = client[f] /\ Under(f)' = Under(f)
    BY <1>1, <1>3, UnderSame
  <2>. QED
    BY <1>1, <2>1 DEF NioInv, OrderInv
<1>. QED
  BY <1>4, <1>5, <1>6, <1>7 DEF NioInv

\* Who has no byte in x has them in order, and all of none.
LEMMA NoneThere ==
  ASSUME NEW p, NEW x \in Seq(NioByte), \A a \in 1 .. Len(x) : x[a].from # p
  PROVE  /\ Ordered(p, x) /\ \A n \in Nat : Within(p, x, n)
         /\ AllThere(p, x, 0)
<1>1. 1 .. 0 = {}
  OBVIOUS
<1>. QED
  BY <1>1 DEF Ordered, Within, AllThere

\* What is left of s holds what s held.
LEMMA RestOf ==
  ASSUME NEW s \in Seq(NioByte), NEW k \in 0 .. Len(s)
  PROVE  \A m \in 1 .. Len(SubSeq(s, k + 1, Len(s))) :
           k + m \in 1 .. Len(s) /\ SubSeq(s, k + 1, Len(s))[m] = s[k + m]
<1>1. PICK l \in Nat : l = Len(s)
  OBVIOUS
<1>2. k + 1 \in Int /\ l \in Int /\ \A m \in k + 1 .. l : s[m] \in NioByte
  BY <1>1
<1>3. /\ Len(SubSeq(s, k + 1, l)) = IF k + 1 <= l THEN l - (k + 1) + 1 ELSE 0
      /\ \A m \in 1 .. l - (k + 1) + 1 : SubSeq(s, k + 1, l)[m] = s[(k + 1) + m - 1]
  BY <1>2, SubSeqProperties
<1>4. /\ (IF k + 1 <= l THEN l - (k + 1) + 1 ELSE 0) = l - k
      /\ l - (k + 1) + 1 = l - k /\ \A m \in 1 .. l - k : (k + 1) + m - 1 = k + m /\ k + m \in 1 .. l
  BY <1>1
<1>. QED
  BY <1>1, <1>3, <1>4

\* A buffer that is given to a new client may hold bytes of the last one, none of
\* the new one.
LEMMA NewClient ==
  ASSUME NioInv, NEW p \in arrivals, NEW f \in Nio!Fds,
         NEW x, x = (echoed[p] \o Rest(f)) \o toRead[p]
  PROVE  x \in Seq(NioByte) /\ \A a \in 1 .. Len(x) : x[a].from # p
<1>1. /\ p \in Peers /\ said[p] = 0 /\ echoed[p] = <<>>
      /\ toRead[p] \in Seq(NioByte) /\ line[f] \in Seq(NioByte)
      /\ read_index[f] \in Nat /\ read_index[f] <= Len(line[f])
  BY DEF NioInv, NioTypes, ClientsInv
<1>2. 1 .. 0 = {}
  OBVIOUS
<1>3. toRead[p] = <<>>
  <2>1. \A k \in 1 .. Len(toRead[p]) : toRead[p][k].no \in 1 .. 0
    BY <1>1 DEF NioInv, SaidInv
  <2>2. Len(toRead[p]) \in Nat
    BY <1>1
  <2>3. ~(1 \in 1 .. Len(toRead[p]))
    BY <1>2, <2>1
  <2>4. Len(toRead[p]) = 0
    BY <2>2, <2>3
  <2>. QED
    BY <1>1, <2>4, EmptySeq
<1>4. PICK s \in Seq(NioByte) : s = line[f]
  BY <1>1
<1>5. PICK k \in 0 .. Len(s) : k = read_index[f]
  BY <1>1, <1>4
<1>6. PICK r \in Seq(NioByte) : r = Rest(f)
  BY RestType DEF NioInv
<1>7. x = r
  <2>1. <<>> \o r = r /\ r \o <<>> = r
    BY ConcatEmptySeq
  <2>. QED
    BY <1>1, <1>3, <1>6, <2>1
<1>8. \A a \in 1 .. Len(s) : s[a].from # p
  BY <1>1, <1>2, <1>4 DEF NioInv, SaidInv
<1>9. r = SubSeq(s, k + 1, Len(s))
  BY <1>4, <1>5, <1>6 DEF Rest
<1>10. \A m \in 1 .. Len(r) : r[m].from # p
  BY <1>8, <1>9, RestOf
<1>. QED
  BY <1>7, <1>10

LEMMA NioAccept ==
  ASSUME NioInv, Nio!Accept
  PROVE  NioInv'
<1>0. PICK new : new = Nio!Smallest((1 .. FdInitSize + 1) \ open)
  OBVIOUS
<1>1. PICK p \in arrivals :
        /\ new = Nio!Smallest((1 .. FdInitSize + 1) \ open)
        /\ arrivals' = arrivals \ {p}
        /\ IF new < FdInitSize /\ client[new] = NoPeer
           THEN client' = [client EXCEPT ![new] = p] /\ open' = open \union {new} /\ Nio!GoOn(0)
           ELSE /\ nioAt' \in {"undefined", "exit"}
                /\ UNCHANGED <<client, open>>
  BY <1>0 DEF Nio!Accept
<1>2. UNCHANGED <<line, read_index, said, toRead, echoed, abandoned>>
  BY DEF Nio!Accept, Nio!bufferVars
<1>3. NioTypes /\ p \in Peers
  BY DEF NioInv, NioTypes
<1>4. SaidInv' /\ SentInv'
  BY <1>2 DEF NioInv, SaidInv, SentInv
<1>5. CASE new < FdInitSize /\ client[new] = NoPeer
  <2>1. PICK free \in SUBSET Nat : free = (1 .. FdInitSize + 1) \ open
    <3>1. PICK all : all = 1 .. FdInitSize + 1
      OBVIOUS
    <3>2. \A m \in all : m \in Nat
      BY <3>1, SizesAssumption
    <3>. QED
      BY <3>1, <3>2
  <2>2. FdInitSize + 1 \in free
    BY <1>3, <2>1, SizesAssumption DEF NioTypes, Nio!Fds
  <2>3. new \in free
    BY <1>1, <2>1, <2>2, SmallestIn
  <2>4. new \in Nio!Fds
    BY <1>5, <2>1, <2>3, SizesAssumption DEF Nio!Fds
  <2>5. client' = [client EXCEPT ![new] = p] /\ open' = open \union {new} /\ Nio!GoOn(0)
    BY <1>1, <1>5
  <2>6. /\ client' \in [Nio!Fds -> Peers \union {NoPeer}] /\ client'[new] = p
        /\ \A g \in Nio!Fds : g # new => client'[g] = client[g]
    BY <1>3, <2>4, <2>5 DEF NioTypes
  <2>7. InLoop' => i' \in Nio!Fds /\ client'[i'] # NoPeer
    BY <2>5, GoOnTo DEF InLoop
  <2>8. NioTypes'
    BY <1>1, <1>2, <1>3, <2>4, <2>5, <2>6, <2>7 DEF NioTypes
  <2>9. p # NoPeer /\ \A g \in Nio!Fds : client[g] # p
    BY <1>3, NoPeerAssumption DEF NioInv, ClientsInv, Nio!Served
  <2>10. ClientsInv'
    <3>1. ASSUME NEW f \in Nio!Fds, NEW g \in Nio!Fds, client'[f] # NoPeer, client'[f] = client'[g]
          PROVE  f = g
      BY <2>6, <2>9, <3>1 DEF NioInv, ClientsInv
    <3>2. ASSUME NEW q \in arrivals' PROVE ~Nio!Served(q)' /\ said'[q] = 0 /\ echoed'[q] = <<>>
      <4>1. q \in arrivals /\ q # p
        BY <1>1, <3>2
      <4>2. \A g \in Nio!Fds : client[g] # q
        BY <4>1 DEF NioInv, ClientsInv, Nio!Served
      <4>3. \A g \in Nio!Fds : client'[g] # q
        BY <2>6, <4>1, <4>2
      <4>. QED
        BY <1>2, <4>1, <4>3 DEF NioInv, ClientsInv, Nio!Served
    <3>. QED
      BY <3>1, <3>2 DEF ClientsInv
  <2>11. ASSUME NEW f \in Nio!Fds, client'[f] # NoPeer
         PROVE  /\ Ordered(client'[f], Under(f)') /\ Within(client'[f], Under(f)', said'[client'[f]])
                /\ client'[f] \notin abandoned' => AllThere(client'[f], Under(f)', said'[client'[f]])
    <3>1. CASE f # new
      <4>1. client'[f] = client[f]
        BY <2>6, <3>1
      <4>2. Under(f)' = Under(f)
        BY <1>2, <4>1, UnderSame
      <4>. QED
        BY <1>2, <2>11, <4>1, <4>2 DEF NioInv, OrderInv
    <3>2. CASE f = new
      <4>1. PICK x : x = Under(f)'
        OBVIOUS
      <4>2. x = (echoed[p] \o Rest(f)) \o toRead[p]
        BY <1>2, <2>6, <3>2, <4>1 DEF Under, Rest
      <4>3. x \in Seq(NioByte) /\ \A a \in 1 .. Len(x) : x[a].from # p
        BY <4>2, NewClient
      <4>4. Ordered(p, x) /\ Within(p, x, 0) /\ AllThere(p, x, 0)
        BY <4>3, NoneThere
      <4>5. said'[p] = 0
        BY <1>2 DEF NioInv, ClientsInv
      <4>. QED
        BY <2>6, <3>2, <4>1, <4>4, <4>5
    <3>. QED
      BY <3>1, <3>2
  <2>12. OrderInv'
    BY <2>11 DEF OrderInv
  <2>. QED
    BY <1>4, <2>8, <2>10, <2>12 DEF NioInv
<1>6. CASE ~(new < FdInitSize /\ client[new] = NoPeer)
  <2>1. nioAt' \in {"undefined", "exit"} /\ UNCHANGED <<client, open>>
    BY <1>1, <1>6
  <2>2. NioTypes'
    BY <1>1, <1>2, <1>3, <2>1 DEF NioTypes, InLoop
  <2>3. ClientsInv'
    BY <1>1, <1>2, <2>1 DEF NioInv, ClientsInv, Nio!Served
  <2>4. \A f \in Nio!Fds : Under(f)' = Under(f)
    BY <1>2, <2>1, UnderSame
  <2>5. OrderInv'
    BY <1>2, <2>1, <2>4 DEF NioInv, OrderInv
  <2>. QED
    BY <1>4, <2>2, <2>3, <2>5 DEF NioInv
<1>. QED
  BY <1>5, <1>6

LEMMA JoinedAppend ==
  ASSUME NEW u \in Seq(NioByte), NEW t \in Seq(NioByte), NEW e \in NioByte
  PROVE  u \o Append(t, e) = Append(u \o t, e)
BY AppendAtEnd

LEMMA NioSay ==
  ASSUME NioInv, NEW p \in Peers, Nio!Say(p)
  PROVE  NioInv'
<1>1. PICK e : e = [from |-> p, no |-> said'[p]]
  OBVIOUS
<1>2. /\ said' = [said EXCEPT ![p] = said[p] + 1] /\ toRead' = [toRead EXCEPT ![p] = Append(toRead[p], e)]
      /\ UNCHANGED <<nioAt, i, client, open, line, read_index, echoed, arrivals, abandoned>>
      /\ Nio!Served(p)
  BY <1>1 DEF Nio!Say, Nio!bufferVars, Nio!loopVars
<1>3. NioTypes
  BY DEF NioInv
<1>4. /\ said[p] \in Nat /\ said'[p] = said[p] + 1 /\ said' \in [Peers -> 0 .. MaxSaid]
      /\ said[p] + 1 \in 1 .. MaxSaid /\ \A q \in Peers : q # p => said'[q] = said[q]
  <2>1. said[p] \in 0 .. MaxSaid /\ said[p] < MaxSaid
    BY <1>3 DEF NioTypes, Nio!Say
  <2>2. said[p] \in Nat /\ said[p] + 1 \in 1 .. MaxSaid /\ said[p] + 1 \in 0 .. MaxSaid
    BY <2>1, SizesAssumption
  <2>. QED
    BY <1>2, <1>3, <2>2 DEF NioTypes
<1>5. e \in NioByte /\ e.from = p /\ e.no = said[p] + 1
  BY <1>1, <1>4 DEF NioByte
<1>6. /\ toRead[p] \in Seq(NioByte) /\ toRead'[p] = Append(toRead[p], e)
      /\ \A q \in Peers : q # p => toRead'[q] = toRead[q]
  BY <1>2, <1>3 DEF NioTypes
<1>7. toRead' \in [Peers -> Seq(NioByte)]
  <2>1. Append(toRead[p], e) \in Seq(NioByte)
    BY <1>5, <1>6, AppendProperties
  <2>. QED
    BY <1>2, <1>3, <2>1 DEF NioTypes
<1>8. NioTypes'
  BY <1>2, <1>3, <1>4, <1>7 DEF NioTypes, InLoop
<1>9. ClientsInv'
  <2>1. p \notin arrivals
    BY <1>2 DEF NioInv, ClientsInv
  <2>2. \A q \in arrivals : said'[q] = said[q]
    BY <1>3, <1>4, <2>1 DEF NioTypes
  <2>. QED
    BY <1>2, <2>2 DEF NioInv, ClientsInv, Nio!Served
<1>10. \A q \in Peers : said[q] \in Nat /\ said'[q] \in Nat /\ said[q] <= said'[q]
  <2>1. ASSUME NEW q \in Peers PROVE said[q] \in Nat /\ said'[q] \in Nat
    BY <1>3, <1>4, <2>1 DEF NioTypes
  <2>. QED
    BY <1>4, <2>1
<1>11. \A q \in Peers : \A m \in 1 .. said[q] : m \in 1 .. said'[q]
  BY <1>10
<1>12. SaidInv'
  <2>1. ASSUME NEW f \in Nio!Fds, NEW k \in 1 .. Len(line[f])
        PROVE  line[f][k].no \in 1 .. said'[line[f][k].from]
    <3>1. line[f][k] \in NioByte
      BY <1>3 DEF NioTypes
    <3>2. line[f][k].from \in Peers
      BY <3>1 DEF NioByte
    <3>3. line[f][k].no \in 1 .. said[line[f][k].from]
      BY DEF NioInv, SaidInv
    <3>. QED
      BY <1>11, <3>2, <3>3
  <2>2. ASSUME NEW q \in Peers, NEW k \in 1 .. Len(toRead'[q])
        PROVE  toRead'[q][k].from = q /\ toRead'[q][k].no \in 1 .. said'[q]
    <3>1. CASE q # p
      BY <1>6, <1>11, <2>2, <3>1 DEF NioInv, SaidInv
    <3>2. CASE q = p
      <4>1. PICK x \in Seq(NioByte) : x = toRead[p]
        BY <1>6
      <4>2. /\ Len(x) \in Nat /\ Len(Append(x, e)) = Len(x) + 1 /\ Append(x, e)[Len(x) + 1] = e
            /\ \A m \in 1 .. Len(x) : Append(x, e)[m] = x[m]
        BY <4>1, <1>5, AppendProperties
      <4>3. CASE k = Len(x) + 1
        <5>1. toRead'[q][k] = e
          BY <1>6, <3>2, <4>1, <4>2, <4>3
        <5>2. e.no \in 1 .. said'[p]
          BY <1>4, <1>5
        <5>. QED
          BY <1>5, <3>2, <5>1, <5>2
      <4>4. CASE k # Len(x) + 1
        <5>1. k \in 1 .. Len(x)
          BY <1>6, <2>2, <3>2, <4>1, <4>2, <4>4
        <5>2. toRead'[q][k] = x[k]
          BY <1>6, <3>2, <4>1, <4>2, <5>1
        <5>3. x[k].from = p /\ x[k].no \in 1 .. said[p]
          BY <4>1, <5>1 DEF NioInv, SaidInv
        <5>. QED
          BY <1>11, <3>2, <5>2, <5>3
      <4>. QED
        BY <4>3, <4>4
    <3>. QED
      BY <3>1, <3>2
  <2>. QED
    BY <1>2, <2>1, <2>2 DEF SaidInv
<1>13. SentInv'
  <2>1. \A q \in Peers : Within(q, echoed[q], said[q]) => Within(q, echoed[q], said'[q])
    BY <1>11 DEF Within
  <2>. QED
    BY <1>2, <2>1 DEF NioInv, SentInv
<1>14. ASSUME NEW f \in Nio!Fds, client'[f] # NoPeer
       PROVE  /\ Ordered(client'[f], Under(f)') /\ Within(client'[f], Under(f)', said'[client'[f]])
              /\ client'[f] \notin abandoned' => AllThere(client'[f], Under(f)', said'[client'[f]])
  <2>1. client'[f] = client[f] /\ client[f] \in Peers
    BY <1>2, <1>3, <1>14 DEF NioTypes
  <2>2. CASE client[f] # p
    <3>1. said'[client[f]] = said[client[f]] /\ toRead'[client[f]] = toRead[client[f]]
      BY <1>4, <1>6, <2>1, <2>2
    <3>2. Under(f)' = Under(f)
      BY <1>2, <3>1, UnderSame
    <3>. QED
      BY <1>2, <1>14, <2>1, <3>1, <3>2 DEF NioInv, OrderInv
  <2>3. CASE client[f] = p
    <3>1. PICK a \in Seq(NioByte) : a = echoed[p]
      BY <1>3 DEF NioTypes
    <3>2. PICK r \in Seq(NioByte) : r = Rest(f)
      BY <1>3, RestType
    <3>3. PICK t \in Seq(NioByte) : t = toRead[p]
      BY <1>6
    <3>4. PICK u \in Seq(NioByte) : u = a \o r
      BY ConcatProperties
    <3>5. Under(f)' = u \o Append(t, e)
      BY <1>2, <1>6, <2>3, <3>1, <3>2, <3>3, <3>4 DEF Under, Rest
    <3>6. u \o Append(t, e) = Append(u \o t, e)
      BY <1>5, JoinedAppend
    <3>7. PICK x \in Seq(NioByte) : x = u \o t
      BY ConcatProperties
    <3>8. x = Under(f)
      BY <2>3, <3>1, <3>2, <3>3, <3>4, <3>7 DEF Under
    <3>9. PICK n \in Nat : n = said[p]
      BY <1>4
    <3>10. /\ Ordered(p, x) /\ Within(p, x, n)
           /\ p \notin abandoned => AllThere(p, x, n)
      BY <1>14, <2>1, <2>3, <3>8, <3>9 DEF NioInv, OrderInv
    <3>11. /\ Ordered(p, Append(x, e)) /\ Within(p, Append(x, e), n + 1)
           /\ AllThere(p, x, n) => AllThere(p, Append(x, e), n + 1)
      BY <1>5, <3>9, <3>10, OneMoreByte
    <3>12. Under(f)' = Append(x, e) /\ said'[client'[f]] = n + 1 /\ client'[f] = p /\ abandoned' = abandoned
      BY <1>2, <1>4, <2>1, <2>3, <3>5, <3>6, <3>7, <3>9
    <3>. QED
      BY <3>10, <3>11, <3>12
  <2>. QED
    BY <2>2, <2>3
<1>15. OrderInv'
  BY <1>14 DEF OrderInv
<1>. QED
  BY <1>8, <1>9, <1>12, <1>13, <1>15 DEF NioInv

\* Of s the first k, and what is behind them.
LEMMA FrontOf ==
  ASSUME NEW s \in Seq(NioByte), NEW k \in Int, k <= Len(s),
         NEW x, x = SubSeq(s, 1, k),
         NEW u, u = IF 1 <= k THEN SubSeq(s, k + 1, Len(s)) ELSE s
  PROVE  /\ x \in Seq(NioByte) /\ \A m \in 1 .. Len(x) : m \in 1 .. Len(s) /\ x[m] = s[m]
         /\ u \in Seq(NioByte) /\ s = x \o u
<1>0. PICK l \in Nat : l = Len(s)
  OBVIOUS
<1>1. \A m \in 1 .. k : s[m] \in NioByte
  BY <1>0
<1>2. /\ x \in Seq(NioByte) /\ Len(x) = IF 1 <= k THEN k - 1 + 1 ELSE 0
      /\ \A m \in 1 .. k - 1 + 1 : x[m] = s[1 + m - 1]
  BY <1>1, SubSeqProperties
<1>3. Len(x) = (IF 1 <= k THEN k ELSE 0) /\ \A m \in 1 .. k : x[m] = s[m]
  BY <1>2
<1>4. \A m \in 1 .. Len(x) : m \in 1 .. k /\ m \in 1 .. Len(s)
  BY <1>0, <1>3
<1>5. CASE 1 <= k
  <2>1. k \in 1 - 1 .. Len(s) /\ 1 \in 1 .. Len(s) + 1 /\ Len(s) \in k .. Len(s)
    BY <1>0, <1>5
  <2>2. x \o SubSeq(s, k + 1, Len(s)) = SubSeq(s, 1, Len(s))
    BY <2>1, ConcatAdjacentSubSeq
  <2>3. SubSeq(s, 1, Len(s)) = s
    BY SubSeqFull
  <2>4. SubSeq(s, k + 1, Len(s)) \in Seq(NioByte)
    BY <2>1, EmptySeq, DropJoined
  <2>5. u = SubSeq(s, k + 1, Len(s)) /\ x = SubSeq(s, 1, k)
    BY <1>5
  <2>6. u \in Seq(NioByte) /\ s = x \o u
    BY <2>2, <2>3, <2>4, <2>5, Zenon
  <2>. QED
    BY <1>2, <1>3, <1>4, <2>6
<1>6. CASE ~(1 <= k)
  <2>1. x = <<>>
    BY <1>2, <1>3, <1>6, EmptySeq
  <2>2. s = x \o s
    BY <2>1, ConcatEmptySeq
  <2>. QED
    BY <1>2, <1>3, <1>4, <2>2
<1>. QED
  BY <1>5, <1>6

LEMMA BytesJoined ==
  ASSUME NEW s \in Seq(NioByte), NEW t \in Seq(NioByte)
  PROVE  /\ Len(s) \in Nat /\ Len(t) \in Nat /\ s \o t \in Seq(NioByte) /\ Len(s \o t) = Len(s) + Len(t)
         /\ \A m \in 1 .. Len(s) + Len(t) : (s \o t)[m] = IF m <= Len(s) THEN s[m] ELSE t[m - Len(s)]
BY ConcatProperties

LEMMA DropBytes ==
  ASSUME NEW s \in Seq(NioByte), NEW t \in Seq(NioByte), NEW k \in 0 .. Len(s)
  PROVE  /\ SubSeq(s, k + 1, Len(s)) \in Seq(NioByte) /\ k <= Len(s \o t)
         /\ SubSeq(s \o t, k + 1, Len(s \o t)) = SubSeq(s, k + 1, Len(s)) \o t
BY DropJoined

LEMMA Regrouped ==
  ASSUME NEW a \in Seq(NioByte), NEW b \in Seq(NioByte), NEW c \in Seq(NioByte)
  PROVE  (a \o b) \o c = a \o (b \o c)
BY ConcatAssociative

\* What is read goes behind what is still to be sent; what does not fit is lost.
LEMMA NioRead ==
  ASSUME NioInv, Nio!OnSocketReadable
  PROVE  NioInv'
<1>0. NioTypes
  BY DEF NioInv
<1>1. i \in Nio!Fds /\ client[i] # NoPeer
  BY <1>0 DEF NioTypes, InLoop, Nio!OnSocketReadable
<1>2. PICK p \in Peers : p = client[i]
  BY <1>0, <1>1 DEF NioTypes
<1>3. PICK t : t = toRead[p] /\ t \in Seq(NioByte)
  BY <1>0 DEF NioTypes
<1>4. PICK s : s = line[i] /\ s \in Seq(NioByte)
  BY <1>0, <1>1 DEF NioTypes
<1>5. PICK k \in Int : k = IF Len(t) < MaxLine - Len(s) THEN Len(t) ELSE MaxLine - Len(s)
  BY <1>3, <1>4, SizesAssumption
<1>8. k <= Len(t)
  <2>1. Len(t) \in Nat /\ Len(s) \in Nat /\ MaxLine \in Nat
    BY <1>3, <1>4, SizesAssumption
  <2>. QED
    BY <1>5, <2>1
<1>6. PICK x : x = SubSeq(t, 1, k) /\ x \in Seq(NioByte)
  <2>1. PICK v : v = IF 1 <= k THEN SubSeq(t, k + 1, Len(t)) ELSE t
    OBVIOUS
  <2>2. PICK y : y = SubSeq(t, 1, k)
    OBVIOUS
  <2>3. y \in Seq(NioByte)
    BY <1>3, <1>8, <2>1, <2>2, FrontOf
  <2>. QED
    BY <2>2, <2>3
<1>7. /\ line' = [line EXCEPT ![i] = s \o x]
      /\ abandoned' = (IF x = t THEN abandoned ELSE abandoned \union {p})
      /\ toRead' = [toRead EXCEPT ![p] = <<>>]
      /\ UNCHANGED <<i, client, open, read_index, echoed, arrivals, said>>
  BY <1>2, <1>3, <1>4, <1>5, <1>6 DEF Nio!OnSocketReadable, Nio!peerVars
<1>9. \A m \in 1 .. Len(x) : m \in 1 .. Len(t) /\ x[m] = t[m]
  <2>1. PICK v : v = IF 1 <= k THEN SubSeq(t, k + 1, Len(t)) ELSE t
    OBVIOUS
  <2>. QED
    BY <1>3, <1>6, <1>8, <2>1, FrontOf
<1>10. PICK u : t = x \o u /\ u \in Seq(NioByte)
  <2>1. PICK v : v = IF 1 <= k THEN SubSeq(t, k + 1, Len(t)) ELSE t
    OBVIOUS
  <2>2. v \in Seq(NioByte) /\ t = x \o v
    BY <1>3, <1>6, <1>8, <2>1, FrontOf
  <2>. QED
    BY <2>2
<1>11. /\ Len(s) \in Nat /\ Len(x) \in Nat /\ s \o x \in Seq(NioByte) /\ Len(s \o x) = Len(s) + Len(x)
       /\ \A m \in 1 .. Len(s) + Len(x) : (s \o x)[m] = IF m <= Len(s) THEN s[m] ELSE x[m - Len(s)]
  BY <1>4, <1>6, BytesJoined
<1>12. /\ line' \in [Nio!Fds -> Seq(NioByte)] /\ line'[i] = s \o x
       /\ \A f \in Nio!Fds : f # i => line'[f] = line[f]
  BY <1>0, <1>1, <1>7, <1>11 DEF NioTypes
<1>13. /\ toRead' \in [Peers -> Seq(NioByte)] /\ toRead'[p] = <<>>
       /\ \A q \in Peers : q # p => toRead'[q] = toRead[q]
  <2>1. <<>> \in Seq(NioByte)
    BY EmptySeq
  <2>. QED
    BY <1>0, <1>7, <2>1 DEF NioTypes
<1>14. PICK r : r = read_index[i] /\ r \in 0 .. Len(s)
  BY <1>0, <1>1, <1>4 DEF NioTypes
<1>15. NioTypes'
  <2>1. \A f \in Nio!Fds : read_index[f] <= Len(line'[f])
    <3>1. r <= Len(s \o x)
      BY <1>4, <1>6, <1>14, DropBytes
    <3>. QED
      BY <1>0, <1>12, <1>14, <3>1 DEF NioTypes
  <2>2. abandoned' \subseteq Peers
    BY <1>0, <1>7 DEF NioTypes
  <2>3. i' \in Nio!Fds /\ client'[i'] # NoPeer
    BY <1>1, <1>7
  <2>. QED
    BY <1>0, <1>7, <1>12, <1>13, <2>1, <2>2, <2>3 DEF NioTypes
<1>16. ClientsInv'
  BY <1>7 DEF NioInv, ClientsInv, Nio!Served
<1>17. SaidInv'
  <2>1. ASSUME NEW f \in Nio!Fds, NEW m \in 1 .. Len(line'[f])
        PROVE  line'[f][m].no \in 1 .. said'[line'[f][m].from]
    <3>1. CASE f # i
      BY <1>7, <1>12, <2>1, <3>1 DEF NioInv, SaidInv
    <3>2. CASE f = i
      <4>1. m \in 1 .. Len(s) + Len(x)
        BY <1>11, <1>12, <2>1, <3>2
      <4>2. CASE m <= Len(s)
        <5>1. m \in 1 .. Len(s)
          BY <1>11, <4>1, <4>2
        <5>2. line'[f][m] = line[i][m]
          BY <1>4, <1>11, <1>12, <3>2, <4>1, <4>2
        <5>. QED
          BY <1>1, <1>4, <1>7, <5>1, <5>2 DEF NioInv, SaidInv
      <4>3. CASE ~(m <= Len(s))
        <5>1. m - Len(s) \in 1 .. Len(x)
          BY <1>11, <4>1, <4>3
        <5>2. line'[f][m] = toRead[p][m - Len(s)] /\ m - Len(s) \in 1 .. Len(toRead[p])
          BY <1>3, <1>9, <1>11, <1>12, <3>2, <4>1, <4>3, <5>1
        <5>3. toRead[p][m - Len(s)].from = p /\ toRead[p][m - Len(s)].no \in 1 .. said[p]
          BY <5>2 DEF NioInv, SaidInv
        <5>. QED
          BY <1>7, <5>2, <5>3
      <4>. QED
        BY <4>2, <4>3
    <3>. QED
      BY <3>1, <3>2
  <2>2. ASSUME NEW q \in Peers, NEW m \in 1 .. Len(toRead'[q])
        PROVE  toRead'[q][m].from = q /\ toRead'[q][m].no \in 1 .. said'[q]
    <3>1. CASE q # p
      BY <1>7, <1>13, <2>2, <3>1 DEF NioInv, SaidInv
    <3>2. CASE q = p
      <4>1. 1 .. 0 = {} /\ Len(toRead'[q]) = 0
        BY <1>13, <3>2, EmptySeq
      <4>. QED
        BY <2>2, <4>1
    <3>. QED
      BY <3>1, <3>2
  <2>. QED
    BY <2>1, <2>2 DEF SaidInv
<1>18. SentInv'
  <2>1. \A q \in Peers : q \notin abandoned' => q \notin abandoned
    BY <1>7
  <2>. QED
    BY <1>7, <2>1 DEF NioInv, SentInv
<1>19. ASSUME NEW f \in Nio!Fds, client'[f] # NoPeer
       PROVE  /\ Ordered(client'[f], Under(f)') /\ Within(client'[f], Under(f)', said'[client'[f]])
              /\ client'[f] \notin abandoned' => AllThere(client'[f], Under(f)', said'[client'[f]])
  <2>1. client'[f] = client[f] /\ client[f] \in Peers
    BY <1>0, <1>7, <1>19 DEF NioTypes
  <2>2. CASE f # i
    <3>1. client[f] # p
      BY <1>1, <1>2, <1>19, <2>1, <2>2 DEF NioInv, ClientsInv
    <3>2. Under(f)' = Under(f)
      BY <1>7, <1>12, <1>13, <2>1, <2>2, <3>1, UnderSame
    <3>3. client[f] \notin abandoned' => client[f] \notin abandoned
      BY <1>7
    <3>. QED
      BY <1>7, <1>19, <2>1, <3>2, <3>3 DEF NioInv, OrderInv
  <2>3. CASE f = i
    <3>1. PICK a : a = echoed[p] /\ a \in Seq(NioByte)
      BY <1>0 DEF NioTypes
    <3>2. PICK b : b = SubSeq(s, r + 1, Len(s)) /\ b \in Seq(NioByte)
      BY <1>4, <1>6, <1>14, DropBytes
    <3>3. Rest(i) = b
      BY <1>4, <1>14, <3>2 DEF Rest
    <3>4. Rest(i)' = b \o x
      <4>1. s \in Seq(NioByte) /\ x \in Seq(NioByte) /\ r \in 0 .. Len(s)
        BY <1>4, <1>6, <1>14
      <4>2. SubSeq(s \o x, r + 1, Len(s \o x)) = SubSeq(s, r + 1, Len(s)) \o x
        BY <4>1, DropBytes
      <4>. QED
        BY <1>7, <1>12, <1>14, <3>2, <4>2 DEF Rest
    <3>5. PICK y : y = Under(f)
      OBVIOUS
    <3>6. y = (a \o b) \o t
      BY <1>2, <1>3, <2>3, <3>1, <3>3, <3>5 DEF Under
    <3>7. PICK z : z = Under(f)'
      OBVIOUS
    <3>8. z = (a \o (b \o x)) \o <<>>
      BY <1>2, <1>7, <1>13, <2>3, <3>1, <3>4, <3>7 DEF Under
    <3>9. PICK n : n = said[p]
      OBVIOUS
    <3>10. /\ Ordered(p, y) => Ordered(p, z)
           /\ Within(p, y, n) => Within(p, z, n)
           /\ x = t => z = y
      <4>1. a \in Seq(NioByte) /\ b \in Seq(NioByte) /\ x \in Seq(NioByte)
        BY <1>6, <3>1, <3>2
      <4>2. (a \o b) \o x = a \o (b \o x)
        BY <4>1, Regrouped
      <4>3. PICK c : c = a \o b /\ c \in Seq(NioByte)
        BY <4>1, BytesJoined
      <4>4. c \in Seq(NioByte) /\ x \in Seq(NioByte) /\ u \in Seq(NioByte)
        BY <1>6, <1>10, <4>3
      <4>5. (c \o x) \o u = c \o (x \o u)
        BY <4>4, Regrouped
      <4>6. PICK d : d = c \o x /\ d \in Seq(NioByte)
        BY <4>4, BytesJoined
      <4>7. d \in Seq(NioByte) /\ u \in Seq(NioByte)
        BY <4>4, <4>6
      <4>8. /\ Ordered(p, d \o u) => Ordered(p, d)
            /\ Within(p, d \o u, n) => Within(p, d, n)
        BY <4>7, OrderedFront
      <4>9. d \o <<>> = d
        BY <4>7, ConcatEmptySeq
      <4>10. y = d \o u
        BY <1>10, <3>6, <4>3, <4>5, <4>6
      <4>11. z = d
        BY <3>8, <4>2, <4>3, <4>6, <4>9
      <4>12. x = t => d = y
        BY <3>6, <4>3, <4>6
      <4>. QED
        BY <4>8, <4>10, <4>11, <4>12
    <3>11. /\ Ordered(p, y) /\ Within(p, y, n)
           /\ p \notin abandoned => AllThere(p, y, n)
      BY <1>1, <1>2, <2>3, <3>5, <3>9 DEF NioInv, OrderInv
    <3>12. p \notin abandoned' => x = t /\ p \notin abandoned
      BY <1>7
    <3>13. client'[f] = p /\ said'[p] = n
      BY <1>2, <1>7, <2>3, <3>9
    <3>. QED
      BY <3>7, <3>10, <3>11, <3>12, <3>13
  <2>. QED
    BY <2>2, <2>3
<1>20. OrderInv'
  BY <1>19 DEF OrderInv
<1>. QED
  BY <1>15, <1>16, <1>17, <1>18, <1>20 DEF NioInv

\* What is sent of s from k on, and what is left of it.
LEMMA SentAndLeft ==
  ASSUME NEW s \in Seq(NioByte), NEW k \in 0 .. Len(s), NEW n \in 0 .. Len(s) - k
  PROVE  /\ SubSeq(s, k + 1, k + n) \in Seq(NioByte) /\ SubSeq(s, (k + n) + 1, Len(s)) \in Seq(NioByte)
         /\ SubSeq(s, k + 1, k + n) \o SubSeq(s, (k + n) + 1, Len(s)) = SubSeq(s, k + 1, Len(s))
<1>1. PICK l \in Nat : l = Len(s)
  OBVIOUS
<1>2. /\ k + 1 \in 1 .. Len(s) + 1 /\ k + n \in (k + 1) - 1 .. Len(s) /\ Len(s) \in k + n .. Len(s)
      /\ k + n \in 0 .. Len(s)
  BY <1>1
<1>3. SubSeq(s, k + 1, k + n) \o SubSeq(s, (k + n) + 1, Len(s)) = SubSeq(s, k + 1, Len(s))
  BY <1>2, ConcatAdjacentSubSeq
<1>4. SubSeq(s, (k + n) + 1, Len(s)) \in Seq(NioByte)
  BY <1>2, EmptySeq, DropBytes
<1>5. SubSeq(s, k + 1, k + n) \in Seq(NioByte)
  <2>1. k + 1 \in Int /\ k + n \in Int /\ \A m \in k + 1 .. k + n : s[m] \in NioByte
    BY <1>1
  <2>. QED
    BY <2>1, SubSeqProperties
<1>. QED
  BY <1>3, <1>4, <1>5

\* What is sent leaves the buffer.
LEMMA NioWrite ==
  ASSUME NioInv, Nio!OnSocketWriteable
  PROVE  NioInv'
<1>0. NioTypes
  BY DEF NioInv
<1>1. i \in Nio!Fds /\ client[i] # NoPeer
  BY <1>0 DEF NioTypes, InLoop, Nio!OnSocketWriteable
<1>2. PICK p \in Peers : p = client[i]
  BY <1>0, <1>1 DEF NioTypes
<1>3. PICK a : a = echoed[p] /\ a \in Seq(NioByte)
  BY <1>0 DEF NioTypes
<1>4. PICK s : s = line[i] /\ s \in Seq(NioByte)
  BY <1>0, <1>1 DEF NioTypes
<1>5. PICK k : k = read_index[i] /\ k \in 0 .. Len(s)
  BY <1>0, <1>1, <1>4 DEF NioTypes
<1>6. PICK n \in 0 .. Len(s) - k :
        /\ echoed' = [echoed EXCEPT ![p] = a \o SubSeq(s, k + 1, k + n)]
        /\ IF k + n = Len(s)
           THEN line' = [line EXCEPT ![i] = <<>>] /\ read_index' = [read_index EXCEPT ![i] = 0]
           ELSE read_index' = [read_index EXCEPT ![i] = k + n] /\ line' = line
  BY <1>2, <1>3, <1>4, <1>5 DEF Nio!OnSocketWriteable, Nio!Drained, Nio!PartlySent
<1>7. UNCHANGED <<i, client, open, toRead, arrivals, said, abandoned>>
  BY DEF Nio!OnSocketWriteable, Nio!peerVars
<1>8. PICK v : v = SubSeq(s, k + 1, k + n)
  OBVIOUS
<1>9. PICK w : w = SubSeq(s, (k + n) + 1, Len(s))
  OBVIOUS
<1>10. v \in Seq(NioByte) /\ w \in Seq(NioByte) /\ SubSeq(s, k + 1, Len(s)) = v \o w
  <2>1. s \in Seq(NioByte) /\ k \in 0 .. Len(s) /\ n \in 0 .. Len(s) - k
    BY <1>4, <1>5
  <2>2. /\ SubSeq(s, k + 1, k + n) \in Seq(NioByte) /\ SubSeq(s, (k + n) + 1, Len(s)) \in Seq(NioByte)
        /\ SubSeq(s, k + 1, k + n) \o SubSeq(s, (k + n) + 1, Len(s)) = SubSeq(s, k + 1, Len(s))
    BY <2>1, SentAndLeft
  <2>. QED
    BY <1>8, <1>9, <2>2
<1>11. a \o v \in Seq(NioByte)
  BY <1>3, <1>10, BytesJoined
<1>12. /\ echoed' \in [Peers -> Seq(NioByte)] /\ echoed'[p] = a \o v
       /\ \A q \in Peers : q # p => echoed'[q] = echoed[q]
  <2>1. echoed' = [echoed EXCEPT ![p] = a \o v]
    BY <1>6, <1>8
  <2>. QED
    BY <1>0, <1>11, <2>1 DEF NioTypes
<1>13. \A f \in Nio!Fds : f # i => line'[f] = line[f] /\ read_index'[f] = read_index[f]
  BY <1>0, <1>1, <1>6 DEF NioTypes
<1>14. /\ line' \in [Nio!Fds -> Seq(NioByte)] /\ read_index' \in [Nio!Fds -> Nat]
       /\ read_index'[i] <= Len(line'[i]) /\ line'[i] \in {s, <<>>} /\ Rest(i)' = w
  <2>0. k \in Nat /\ n \in Nat /\ Len(s) \in Nat /\ k + n \in Nat /\ k + n <= Len(s)
    <3>1. Len(s) \in Nat
      BY <1>4
    <3>. QED
      BY <1>5, <3>1
  <2>1. CASE k + n = Len(s)
    <3>1. line' = [line EXCEPT ![i] = <<>>] /\ read_index' = [read_index EXCEPT ![i] = 0]
      BY <1>6, <2>1
    <3>2. line'[i] = <<>> /\ read_index'[i] = 0
      BY <1>0, <1>1, <3>1 DEF NioTypes
    <3>3. <<>> \in Seq(NioByte) /\ Len(<<>>) = 0
      BY EmptySeq
    <3>4. line' \in [Nio!Fds -> Seq(NioByte)]
      BY <1>0, <3>1, <3>3 DEF NioTypes
    <3>5. read_index' \in [Nio!Fds -> Nat]
      BY <1>0, <3>1 DEF NioTypes
    <3>6. Rest(i)' = SubSeq(<<>>, 1, 0)
      BY <1>7, <3>2, <3>3 DEF Rest
    <3>7. SubSeq(<<>>, 1, 0) = <<>> /\ w = <<>>
      <4>1. SubSeq(<<>>, 1, 0) = <<>>
        BY <3>3, SubSeqFull
      <4>2. Len(w) = 0
        <5>1. (k + n) + 1 \in Int /\ Len(s) \in Int /\ ~((k + n) + 1 <= Len(s))
              /\ \A m \in (k + n) + 1 .. Len(s) : s[m] \in NioByte
          BY <2>0, <2>1
        <5>. QED
          BY <1>9, <5>1, SubSeqProperties
      <4>. QED
        BY <1>10, <4>1, <4>2, EmptySeq
    <3>. QED
      BY <3>2, <3>3, <3>4, <3>5, <3>6, <3>7
  <2>2. CASE k + n # Len(s)
    <3>1. read_index' = [read_index EXCEPT ![i] = k + n] /\ line' = line
      BY <1>6, <2>2
    <3>2. line'[i] = s /\ read_index'[i] = k + n
      BY <1>0, <1>1, <1>4, <3>1 DEF NioTypes
    <3>3. read_index' \in [Nio!Fds -> Nat]
      BY <1>0, <2>0, <3>1 DEF NioTypes
    <3>4. Rest(i)' = w
      BY <1>7, <1>9, <3>2 DEF Rest
    <3>. QED
      BY <1>0, <2>0, <3>1, <3>2, <3>3, <3>4 DEF NioTypes
  <2>. QED
    BY <2>1, <2>2
<1>15. NioTypes'
  <2>1. \A f \in Nio!Fds : read_index'[f] <= Len(line'[f])
    BY <1>0, <1>13, <1>14 DEF NioTypes
  <2>2. i' \in Nio!Fds /\ client'[i'] # NoPeer
    BY <1>1, <1>7
  <2>. QED
    BY <1>0, <1>7, <1>12, <1>14, <2>1, <2>2 DEF NioTypes
<1>16. ClientsInv'
  <2>1. p \notin arrivals
    BY <1>1, <1>2 DEF NioInv, ClientsInv, Nio!Served
  <2>2. \A q \in arrivals : echoed'[q] = echoed[q]
    BY <1>0, <1>12, <2>1 DEF NioTypes
  <2>. QED
    BY <1>7, <2>2 DEF NioInv, ClientsInv, Nio!Served
<1>17. SaidInv'
  <2>1. ASSUME NEW f \in Nio!Fds, NEW m \in 1 .. Len(line'[f])
        PROVE  line'[f][m].no \in 1 .. said'[line'[f][m].from]
    <3>1. line'[f] = line[f] \/ line'[f] = <<>>
      BY <1>4, <1>13, <1>14
    <3>2. 1 .. 0 = {} /\ Len(<<>>) = 0
      BY EmptySeq
    <3>3. line'[f] = line[f]
      BY <2>1, <3>1, <3>2
    <3>. QED
      BY <1>7, <2>1, <3>3 DEF NioInv, SaidInv
  <2>. QED
    BY <1>7, <2>1 DEF NioInv, SaidInv
<1>18. PICK t : t = toRead[p] /\ t \in Seq(NioByte)
  BY <1>0 DEF NioTypes
<1>19. /\ ((a \o v) \o w) \o t = (a \o (v \o w)) \o t
       /\ ((a \o v) \o w) \o t = (a \o v) \o (w \o t)
       /\ w \o t \in Seq(NioByte)
  <2>1. a \in Seq(NioByte) /\ v \in Seq(NioByte) /\ w \in Seq(NioByte)
    BY <1>3, <1>10
  <2>2. (a \o v) \o w = a \o (v \o w)
    BY <2>1, Regrouped
  <2>3. PICK d : d = a \o v /\ d \in Seq(NioByte)
    BY <1>11
  <2>4. d \in Seq(NioByte) /\ w \in Seq(NioByte) /\ t \in Seq(NioByte)
    BY <1>10, <1>18, <2>3
  <2>5. (d \o w) \o t = d \o (w \o t)
    BY <2>4, Regrouped
  <2>6. w \o t \in Seq(NioByte)
    BY <2>4, BytesJoined
  <2>. QED
    BY <2>2, <2>3, <2>5, <2>6
<1>20. Under(i)' = Under(i)
  <2>1. Under(i)' = ((a \o v) \o w) \o t
    BY <1>2, <1>7, <1>12, <1>14, <1>18 DEF Under
  <2>2. Rest(i) = v \o w
    BY <1>4, <1>5, <1>10 DEF Rest
  <2>3. Under(i) = (a \o (v \o w)) \o t
    BY <1>2, <1>3, <1>18, <2>2 DEF Under
  <2>. QED
    BY <1>19, <2>1, <2>3
<1>21. \A f \in Nio!Fds : client[f] # NoPeer => Under(f)' = Under(f)
  <2>1. ASSUME NEW f \in Nio!Fds, client[f] # NoPeer, f # i PROVE Under(f)' = Under(f)
    <3>1. client[f] \in Peers /\ client[f] # p
      BY <1>0, <1>1, <1>2, <2>1 DEF NioInv, ClientsInv, NioTypes
    <3>. QED
      BY <1>7, <1>12, <1>13, <2>1, <3>1, UnderSame
  <2>2. ASSUME NEW f \in Nio!Fds, f = i PROVE Under(f)' = Under(f)
    <3>1. Under(f)' = Under(i)' /\ Under(f) = Under(i)
      BY <1>7, <2>2 DEF Under, Rest
    <3>. QED
      BY <1>20, <3>1
  <2>. QED
    BY <2>1, <2>2
<1>22. OrderInv'
  BY <1>7, <1>21 DEF NioInv, OrderInv
<1>23. SentInv'
  <2>1. ASSUME NEW q \in Peers, q # p
        PROVE  /\ Ordered(q, echoed'[q]) /\ Within(q, echoed'[q], said'[q])
               /\ q \notin abandoned' =>
                    \A m \in 1 .. Len(echoed'[q]) :
                      echoed'[q][m].from = q => AllThere(q, echoed'[q], echoed'[q][m].no)
    BY <1>7, <1>12, <2>1 DEF NioInv, SentInv
  <2>2. PICK x : x = a \o v /\ x \in Seq(NioByte)
    BY <1>11
  <2>3. PICK y : y = w \o t /\ y \in Seq(NioByte)
    BY <1>19
  <2>4. PICK h : h = said[p] /\ h \in Nat
    BY <1>0 DEF NioTypes
  <2>5. Under(i) = x \o y
    <3>1. Under(i)' = ((a \o v) \o w) \o t
      BY <1>2, <1>7, <1>12, <1>14, <1>18 DEF Under
    <3>. QED
      BY <1>19, <1>20, <2>2, <2>3, <3>1
  <2>6. /\ Ordered(p, x \o y) /\ Within(p, x \o y, h)
        /\ p \notin abandoned => AllThere(p, x \o y, h)
    BY <1>1, <1>2, <2>4, <2>5 DEF NioInv, OrderInv
  <2>7. x \in Seq(NioByte) /\ y \in Seq(NioByte) /\ h \in Nat
    BY <2>2, <2>3, <2>4
  <2>8. Ordered(p, x) /\ Within(p, x, h)
    BY <2>6, <2>7, OrderedFront
  <2>9. p \notin abandoned => \A m \in 1 .. Len(x) : x[m].from = p => AllThere(p, x, x[m].no)
    BY <2>6, <2>7, FrontThere
  <2>10. echoed'[p] = x /\ said'[p] = h /\ abandoned' = abandoned
    BY <1>7, <1>12, <2>2, <2>4
  <2>. QED
    BY <2>1, <2>8, <2>9, <2>10 DEF SentInv
<1>. QED
  BY <1>15, <1>16, <1>17, <1>22, <1>23 DEF NioInv

LEMMA SameCount == \A S : Nio!Cardinality(S) = Cardinality(S)
BY DEF Cardinality, Nio!Cardinality

\* Of bytes in order, all there up to the one at n, that one is the x[n].no-th.
LEMMA CountOwn ==
  ASSUME NEW p, NEW x \in Seq(NioByte), NEW h \in Nat, Ordered(p, x), Within(p, x, h),
         NEW n \in 1 .. Len(x), x[n].from = p, AllThere(p, x, x[n].no),
         NEW M, M = {m \in {k \in 1 .. Len(x) : x[k].from = p} : m <= n}
  PROVE  Cardinality(M) = x[n].no
<1>0. PICK l \in Nat : l = Len(x)
  OBVIOUS
<1>1. PICK top \in Nat : top = x[n].no
  BY DEF Within
<1>2. \A m \in M : m \in 1 .. l /\ m <= n /\ x[m].from = p /\ x[m].no \in 1 .. h
  BY <1>0 DEF Within
<1>3. \A m \in M : x[m].no \in 1 .. top
  <2>1. ASSUME NEW m \in M PROVE x[m].no \in 1 .. top
    <3>1. m = n \/ m < n
      BY <1>0, <1>2
    <3>2. m < n => x[m].no < x[n].no
      BY <1>0, <1>2 DEF Ordered
    <3>. QED
      BY <1>1, <1>2, <3>1, <3>2
  <2>. QED
    BY <2>1
<1>4. \A m1, m2 \in M : x[m1].no = x[m2].no => m1 = m2
  <2>1. ASSUME NEW m1 \in M, NEW m2 \in M, x[m1].no = x[m2].no PROVE m1 = m2
    <3>1. m1 < m2 => x[m1].no < x[m2].no
      BY <1>0, <1>2 DEF Ordered
    <3>2. m2 < m1 => x[m2].no < x[m1].no
      BY <1>0, <1>2 DEF Ordered
    <3>3. x[m1].no \in Nat /\ m1 \in Nat /\ m2 \in Nat
      BY <1>2
    <3>. QED
      BY <2>1, <3>1, <3>2, <3>3
  <2>. QED
    BY <2>1
<1>5. \A j \in 1 .. top : \E m \in M : x[m].no = j
  <2>1. ASSUME NEW j \in 1 .. top PROVE \E m \in M : x[m].no = j
    <3>1. PICK a \in 1 .. Len(x) : x[a].from = p /\ x[a].no = j
      BY <1>1, <2>1 DEF AllThere, Has
    <3>2. n < a => top < j
      BY <1>1, <3>1 DEF Ordered
    <3>3. a <= n
      <4>1. a \in Nat /\ n \in Nat /\ j <= top /\ j \in Nat
        BY <1>0
      <4>. QED
        BY <3>2, <4>1
    <3>. QED
      BY <3>1, <3>3
  <2>. QED
    BY <2>1
<1>6. PICK F : F = [m \in M |-> x[m].no]
  OBVIOUS
<1>7. F \in Bijection(M, 1 .. top)
  <2>1. F \in [M -> 1 .. top]
    BY <1>3, <1>6
  <2>2. \A m1, m2 \in M : F[m1] = F[m2] => m1 = m2
    BY <1>4, <1>6
  <2>3. \A j \in 1 .. top : \E m \in M : F[m] = j
    BY <1>5, <1>6
  <2>. QED
    BY <2>1, <2>2, <2>3 DEF Bijection, Injection, Surjection, IsInjective
<1>8. IsFiniteSet(M)
  <2>1. IsFiniteSet(1 .. l)
    BY FS_Interval
  <2>2. M \subseteq 1 .. l
    BY <1>2
  <2>. QED
    BY <2>1, <2>2, FS_Subset
<1>9. Cardinality(1 .. top) = Cardinality(M)
  BY <1>7, <1>8, FS_Bijection DEF ExistsBijection
<1>10. Cardinality(1 .. top) = top
  <2>1. Cardinality(1 .. top) = IF 1 > top THEN 0 ELSE top - 1 + 1
    BY FS_Interval
  <2>. QED
    BY <2>1
<1>. QED
  BY <1>1, <1>9, <1>10

LEMMA NioInvEcho == NioInv => Nio!EchoInOrder
<1>. SUFFICES ASSUME NioInv PROVE Nio!EchoInOrder
  OBVIOUS
<1>. SUFFICES ASSUME NEW p \in Peers,
                     NEW n \in {k \in 1 .. Len(echoed[p]) : echoed[p][k].from = p}
              PROVE  /\ \A m \in {k \in 1 .. Len(echoed[p]) : echoed[p][k].from = p} :
                          m < n => echoed[p][m].no < echoed[p][n].no
                     /\ p \notin abandoned =>
                          echoed[p][n].no =
                            Nio!Cardinality({m \in {k \in 1 .. Len(echoed[p]) : echoed[p][k].from = p} : m <= n})
  BY DEF Nio!EchoInOrder
<1>1. /\ Ordered(p, echoed[p]) /\ Within(p, echoed[p], said[p])
      /\ p \notin abandoned => AllThere(p, echoed[p], echoed[p][n].no)
  BY DEF NioInv, SentInv
<1>2. \A m \in {k \in 1 .. Len(echoed[p]) : echoed[p][k].from = p} :
        m < n => echoed[p][m].no < echoed[p][n].no
  BY <1>1 DEF Ordered
<1>3. ASSUME p \notin abandoned
      PROVE  echoed[p][n].no =
               Nio!Cardinality({m \in {k \in 1 .. Len(echoed[p]) : echoed[p][k].from = p} : m <= n})
  <2>1. PICK M : M = {m \in {k \in 1 .. Len(echoed[p]) : echoed[p][k].from = p} : m <= n}
    OBVIOUS
  <2>2. PICK x \in Seq(NioByte) : x = echoed[p]
    BY DEF NioInv, NioTypes
  <2>3. PICK h \in Nat : h = said[p]
    BY DEF NioInv, NioTypes
  <2>4. /\ Ordered(p, x) /\ Within(p, x, h) /\ AllThere(p, x, x[n].no)
        /\ n \in 1 .. Len(x) /\ x[n].from = p
        /\ M = {m \in {k \in 1 .. Len(x) : x[k].from = p} : m <= n}
    BY <1>1, <1>3, <2>1, <2>2, <2>3
  <2>5. Cardinality(M) = x[n].no
    BY <2>4, CountOwn
  <2>. QED
    BY <2>1, <2>2, <2>5, SameCount
<1>. QED
  BY <1>2, <1>3

LEMMA NioInit == Nio!Init => NioInv
<1>. SUFFICES ASSUME Nio!Init PROVE NioInv
  OBVIOUS
<1>1. Nio!Init
  OBVIOUS
<1>2. <<>> \in Seq(NioByte) /\ Len(<<>>) = 0 /\ 1 .. 0 = {}
  BY EmptySeq
<1>3. /\ client = [f \in Nio!Fds |-> NoPeer] /\ open = {} /\ nioAt = "select"
      /\ line = [f \in Nio!Fds |-> <<>>] /\ read_index = [f \in Nio!Fds |-> 0]
      /\ arrivals = {} /\ said = [p \in Peers |-> 0] /\ toRead = [p \in Peers |-> <<>>]
      /\ abandoned = {} /\ echoed = [p \in Peers |-> <<>>]
  BY <1>1 DEF Nio!Init
<1>4. NioTypes
  BY <1>2, <1>3, SizesAssumption DEF NioTypes, InLoop
<1>5. ClientsInv /\ SaidInv /\ OrderInv
  BY <1>2, <1>3 DEF ClientsInv, SaidInv, OrderInv
<1>6. SentInv
  BY <1>2, <1>3 DEF SentInv, Ordered, Within
<1>. QED
  BY <1>4, <1>5, <1>6 DEF NioInv

-----------------------------------------------------------------------------
(* The types of the programs: what their TypeOK says beyond the invariants *)
(* above.                                                                  *)

LEMMA LargestIn ==
  ASSUME NEW n \in Nat, NEW S \in SUBSET (0 .. n), S # {}
  PROVE  Nio!Largest(S) \in S
<1>. DEFINE Above == {m \in Nat : \A k \in S : k <= m}
<1>1. n \in Above
  OBVIOUS
<1>2. PICK m \in Above : \A o \in Above : m <= o
  BY <1>1, LeastNumber
<1>3. m \in S
  <2>. SUFFICES ASSUME m \notin S PROVE FALSE
    OBVIOUS
  <2>1. \A k \in S : k \in Nat /\ k <= m /\ k # m
    BY <1>2
  <2>2. m # 0
    <3>1. PICK k \in S : TRUE
      OBVIOUS
    <3>. QED
      BY <2>1, <3>1
  <2>3. m - 1 \in Nat /\ \A k \in S : k <= m - 1
    BY <2>1, <2>2
  <2>4. m - 1 \in Above
    BY <2>3
  <2>. QED
    BY <1>2, <2>2, <2>4
<1>4. \A k \in S : k <= m
  BY <1>2
<1>. QED
  BY <1>3, <1>4 DEF Nio!Largest

\* What the loop over the descriptors works with, and that a buffer does not overflow.
NioPlaces ==
  /\ nioAt \in {"select", "accept", "read", "write", "result", "exit", "undefined"}
  /\ max_fd \in 0 .. FdInitSize /\ i \in 0 .. FdInitSize
  /\ result \in {"any", "continue", "exit"}
  /\ read_set \subseteq 0 .. FdInitSize /\ write_set \subseteq Nio!Fds
  /\ readable \in [Nio!Fds -> BOOLEAN] /\ hangup \in [Peers -> {"no", "fin", "rst"}]
  /\ \A f \in Nio!Fds : Len(line[f]) <= MaxLine

LEMMA NioTypesFit == NioInv /\ NioPlaces => Nio!NioTypeOK
<1>. SUFFICES ASSUME NioInv, NioPlaces PROVE Nio!NioTypeOK
  OBVIOUS
<1>1. NioByte = Nio!Bytes
  BY DEF NioByte, Nio!Bytes
<1>2. \A f \in Nio!Fds :
        line[f] \in Seq(Nio!Bytes) /\ read_index[f] \in 0 .. Len(line[f]) /\ Len(line[f]) <= MaxLine
  <2>. SUFFICES ASSUME NEW f \in Nio!Fds
                PROVE  line[f] \in Seq(Nio!Bytes) /\ read_index[f] \in 0 .. Len(line[f])
    BY DEF NioPlaces
  <2>1. line[f] \in Seq(Nio!Bytes) /\ read_index[f] \in Nat /\ read_index[f] <= Len(line[f])
    BY <1>1 DEF NioInv, NioTypes
  <2>2. Len(line[f]) \in Nat
    BY <2>1
  <2>. QED
    BY <2>1, <2>2
<1>3. \A p \in Peers : {toRead[p], echoed[p]} \subseteq Seq(Nio!Bytes)
  BY <1>1 DEF NioInv, NioTypes
<1>. QED
  BY <1>2, <1>3 DEF NioInv, NioTypes, NioPlaces, Nio!NioTypeOK

LEMMA GoOnPlaces ==
  ASSUME NioPlaces, NEW f, Nio!GoOn(f)
  PROVE  /\ nioAt' \in {"read", "select"} /\ result' = "any"
         /\ max_fd' \in 0 .. FdInitSize /\ i' \in 0 .. FdInitSize
         /\ read_set' \subseteq 0 .. FdInitSize /\ write_set' \subseteq Nio!Fds
<1>1. PICK rest : rest = {g \in Nio!Fds : g > f /\ g <= max_fd /\ client'[g] # NoPeer}
  OBVIOUS
<1>2. /\ result' = "any"
      /\ \/ /\ rest # {} /\ nioAt' = "read" /\ i' = Nio!Smallest(rest)
            /\ UNCHANGED <<max_fd, read_set, write_set>>
         \/ nioAt' = "select" /\ i' = 0 /\ max_fd' = 0 /\ read_set' = {} /\ write_set' = {}
  BY <1>1 DEF Nio!GoOn
<1>3. rest \in SUBSET Nat /\ rest \subseteq 0 .. FdInitSize /\ 0 \in 0 .. FdInitSize
  BY <1>1, FdsAreNumbers, SizesAssumption DEF Nio!Fds
<1>4. rest # {} => Nio!Smallest(rest) \in rest
  BY <1>3, SmallestIn
<1>. QED
  BY <1>2, <1>3, <1>4 DEF NioPlaces

LEMMA NioPlacesStep == NioInv /\ NioPlaces /\ [Nio!Next]_nioVars => NioPlaces'
<1>. SUFFICES ASSUME NioInv, NioPlaces, [Nio!Next]_nioVars PROVE NioPlaces'
  OBVIOUS
<1>. USE DEF Nio!bufferVars, Nio!peerVars, Nio!loopVars
<1>1. CASE UNCHANGED nioVars
  BY <1>1 DEF NioPlaces, nioVars
<1>2. CASE Nio!Select
  <2>1. /\ nioAt' \in {"accept", "read"} /\ UNCHANGED <<result, readable, hangup, line>>
        /\ read_set' \subseteq Nio!Connected \union {0} /\ write_set' \subseteq Nio!Connected
        /\ max_fd' = Nio!Largest(Nio!Connected \union {0})
        /\ i' = 0 \/ (Nio!Connected # {} /\ i' = Nio!Smallest(Nio!Connected))
    BY <1>2 DEF Nio!Select
  <2>2. /\ Nio!Connected \subseteq Nio!Fds /\ Nio!Connected \in SUBSET Nat
        /\ Nio!Connected \union {0} \in SUBSET (0 .. FdInitSize)
    BY FdsAreNumbers, SizesAssumption DEF Nio!Connected, Nio!Fds
  <2>3. max_fd' \in 0 .. FdInitSize
    <3>1. PICK all : all = Nio!Connected \union {0}
      OBVIOUS
    <3>2. Nio!Largest(all) \in all
      BY <2>2, <3>1, LargestIn, SizesAssumption
    <3>. QED
      BY <2>1, <2>2, <3>1, <3>2
  <2>4. i' \in 0 .. FdInitSize
    <3>1. Nio!Connected # {} => Nio!Smallest(Nio!Connected) \in Nio!Connected
      BY <2>2, SmallestIn
    <3>. QED
      BY <2>1, <2>2, <3>1, SizesAssumption
  <2>5. read_set' \subseteq 0 .. FdInitSize /\ write_set' \subseteq Nio!Fds
    BY <2>1, <2>2
  <2>. QED
    BY <2>1, <2>3, <2>4, <2>5 DEF NioPlaces
<1>3. CASE Nio!Accept
  <2>1. UNCHANGED <<readable, hangup, line>>
    BY <1>3 DEF Nio!Accept
  <2>2. CASE nioAt' \in {"undefined", "exit"} /\ UNCHANGED <<max_fd, read_set, write_set, i, result>>
    BY <2>1, <2>2 DEF NioPlaces
  <2>3. CASE Nio!GoOn(0)
    BY <2>1, <2>3, GoOnPlaces DEF NioPlaces
  <2>. QED
    BY <1>3, <2>2, <2>3 DEF Nio!Accept
<1>4. CASE Nio!NotReadable \/ Nio!NotWriteable \/ Nio!WriteFails
  <2>1. /\ nioAt' \in {"write", "result"} /\ result' \in {result, "exit"}
        /\ UNCHANGED <<max_fd, read_set, write_set, i, readable, hangup, line>>
    BY <1>4 DEF Nio!NotReadable, Nio!NotWriteable, Nio!WriteFails
  <2>. QED
    BY <2>1 DEF NioPlaces
<1>5. CASE Nio!Closed \/ Nio!Continued
  <2>1. Nio!GoOn(i) /\ UNCHANGED <<readable, hangup, line>>
    BY <1>5 DEF Nio!Closed, Nio!Continued
  <2>. QED
    BY <2>1, GoOnPlaces DEF NioPlaces
<1>6. CASE Nio!OnSocketReadable
  <2>1. i \in Nio!Fds /\ client[i] # NoPeer
    BY <1>6 DEF NioInv, NioTypes, InLoop, Nio!OnSocketReadable
  <2>2. PICK p \in Peers : p = client[i]
    BY <2>1 DEF NioInv, NioTypes
  <2>3. PICK t \in Seq(NioByte) : t = toRead[p]
    BY DEF NioInv, NioTypes
  <2>4. PICK s \in Seq(NioByte) : s = line[i]
    BY <2>1 DEF NioInv, NioTypes
  <2>5. Len(t) \in Nat /\ Len(s) \in Nat /\ Len(s) <= MaxLine /\ MaxLine \in Nat
    BY <2>1, <2>4, SizesAssumption DEF NioPlaces
  <2>6. PICK k \in Nat : k = IF Len(t) < MaxLine - Len(s) THEN Len(t) ELSE MaxLine - Len(s)
    BY <2>5
  <2>7. PICK x : x = SubSeq(t, 1, k)
    OBVIOUS
  <2>8. x \in Seq(NioByte) /\ Len(x) = k
    <3>1. k <= Len(t) /\ \A m \in 1 .. k : t[m] \in NioByte
      BY <2>5, <2>6
    <3>2. /\ SubSeq(t, 1, k) \in Seq(NioByte)
          /\ Len(SubSeq(t, 1, k)) = IF 1 <= k THEN k - 1 + 1 ELSE 0
      BY <3>1, SubSeqProperties
    <3>3. (IF 1 <= k THEN k - 1 + 1 ELSE 0) = k
      OBVIOUS
    <3>. QED
      BY <2>7, <3>2, <3>3
  <2>9. line' = [line EXCEPT ![i] = s \o x]
    BY <1>6, <2>2, <2>3, <2>4, <2>6, <2>7 DEF Nio!OnSocketReadable
  <2>10. Len(s \o x) <= MaxLine
    <3>1. Len(s \o x) = Len(s) + k
      BY <2>8, ConcatProperties
    <3>2. Len(s) + k <= MaxLine
      BY <2>5, <2>6
    <3>. QED
      BY <3>1, <3>2
  <2>11. \A f \in Nio!Fds : Len(line'[f]) <= MaxLine
    BY <2>1, <2>9, <2>10 DEF NioInv, NioTypes, NioPlaces
  <2>12. /\ nioAt' = "write" /\ result' \in {"continue", "exit"}
         /\ UNCHANGED <<max_fd, read_set, write_set, i, hangup>>
    BY <1>6 DEF Nio!OnSocketReadable
  <2>13. readable' \in [Nio!Fds -> BOOLEAN]
    <3>1. PICK any \in BOOLEAN : any = \E n \in 1 .. Len(t) : Nio!EndsLine(t[n])
      BY Zenon
    <3>2. readable' = [readable EXCEPT ![i] = @ \/ any]
      BY <1>6, <2>2, <2>3, <3>1 DEF Nio!OnSocketReadable
    <3>. QED
      BY <2>1, <3>2 DEF NioPlaces
  <2>. QED
    BY <2>11, <2>12, <2>13 DEF NioPlaces
<1>7. CASE Nio!OnSocketWriteable
  <2>1. i \in Nio!Fds
    BY <1>7 DEF NioInv, NioTypes, InLoop, Nio!OnSocketWriteable
  <2>2. /\ nioAt' = "result" /\ result' = "continue"
        /\ UNCHANGED <<max_fd, read_set, write_set, i, hangup>>
    BY <1>7 DEF Nio!OnSocketWriteable
  <2>3. \/ line' = [line EXCEPT ![i] = <<>>] /\ readable' = [readable EXCEPT ![i] = FALSE]
        \/ UNCHANGED <<line, readable>>
    BY <1>7 DEF Nio!OnSocketWriteable, Nio!Drained, Nio!PartlySent
  <2>4. readable' \in [Nio!Fds -> BOOLEAN]
    BY <2>1, <2>3 DEF NioPlaces
  <2>5. \A f \in Nio!Fds : Len(line'[f]) <= MaxLine
    <3>1. Len(<<>>) <= MaxLine
      BY SizesAssumption
    <3>. QED
      BY <2>1, <2>3, <3>1 DEF NioInv, NioTypes, NioPlaces
  <2>. QED
    BY <2>2, <2>4, <2>5 DEF NioPlaces
<1>8. ASSUME NEW p \in Peers, Nio!Arrive(p) \/ Nio!Say(p) \/ Nio!HangUp(p) PROVE NioPlaces'
  <2>1. UNCHANGED <<nioAt, max_fd, read_set, write_set, i, result, readable, line>>
    BY <1>8 DEF Nio!Arrive, Nio!Say, Nio!HangUp
  <2>2. hangup' \in [Peers -> {"no", "fin", "rst"}]
    BY <1>8 DEF Nio!Arrive, Nio!Say, Nio!HangUp, NioPlaces
  <2>. QED
    BY <2>1, <2>2 DEF NioPlaces
<1>. QED
  BY <1>1, <1>2, <1>3, <1>4, <1>5, <1>6, <1>7, <1>8 DEF Nio!Next, Nio!NioLoop

LEMMA NioPlacesInit == Nio!Init => NioPlaces
<1>. SUFFICES ASSUME Nio!Init PROVE NioPlaces
  OBVIOUS
<1>1. /\ nioAt = "select" /\ max_fd = 0 /\ read_set = {} /\ write_set = {} /\ i = 0
      /\ result = "any" /\ line = [f \in Nio!Fds |-> <<>>]
      /\ readable = [f \in Nio!Fds |-> FALSE] /\ hangup = [p \in Peers |-> "no"]
  BY DEF Nio!Init
<1>2. 0 \in 0 .. FdInitSize /\ Len(<<>>) <= MaxLine
  BY SizesAssumption
<1>. QED
  BY <1>1, <1>2 DEF NioPlaces

\* What FrameTypes does not say of the types of Framing.
FrameFit ==
  /\ Len(typedIn) <= MaxMessages /\ Len(stream) <= Capacity
  /\ remaining \in Seq(Frame!Bytes) /\ stream \in Seq(Frame!Bytes) /\ got \in Seq(Frame!Bytes)
  /\ delivered \in Seq(Seq(Frame!Bytes)) /\ message_length \in 0 .. BufferSize + 1

LEMMA PieceFits ==
  ASSUME NEW m \in 1 .. MaxMessages, NEW part \in Frame!Parts, NEW size \in Nat,
         size <= MessageSize + BufferSize + FieldSize
  PROVE  Frame!Piece(m, part, size) \in Seq(Frame!Bytes)
<1>1. \A n \in 1 .. size : [of |-> m, part |-> part, no |-> n] \in Frame!Bytes
  BY FramingAssumption DEF Frame!Bytes
<1>2. Frame!Piece(m, part, size) \in [1 .. size -> Frame!Bytes]
  BY <1>1 DEF Frame!Piece
<1>. HIDE DEF Frame!Piece
<1>. QED
  BY <1>2, SeqDef

LEMMA MessageFits ==
  ASSUME NEW m \in 1 .. MaxMessages, NEW length \in Lengths
  PROVE  Frame!Message(m, length) \in Seq(Frame!Bytes)
<1>1. /\ FieldSize \in Nat /\ length \in Nat /\ {"length", "type", "data"} = Frame!Parts
      /\ FieldSize <= MessageSize + BufferSize + FieldSize
      /\ length <= MessageSize + BufferSize + FieldSize
  BY FramingAssumption DEF Frame!Parts
<1>. DEFINE x == Frame!Piece(m, "length", FieldSize)
            y == Frame!Piece(m, "type", FieldSize)
            z == Frame!Piece(m, "data", length)
<1>2. x \in Seq(Frame!Bytes) /\ y \in Seq(Frame!Bytes) /\ z \in Seq(Frame!Bytes)
  BY <1>1, PieceFits
<1>3. Frame!Message(m, length) = (x \o y) \o z
  BY DEF Frame!Message
<1>. HIDE DEF x, y, z
<1>4. x \o y \in Seq(Frame!Bytes)
  BY <1>2, ConcatProperties
<1>. QED
  BY <1>2, <1>3, <1>4, ConcatProperties

\* A length field says the length of a line that was typed.
LEMMA DecodedFits ==
  ASSUME FrameTypes, NEW u \in Seq(FrameByte), NEW d \in Frame!Decoded(u)
  PROVE  d \in 0 .. BufferSize + 1
<1>1. CASE \E m \in 1 .. Len(typedIn) : u = Frame!Piece(m, "length", FieldSize)
  <2>1. PICK m \in 1 .. Len(typedIn) : u = Frame!Piece(m, "length", FieldSize)
    BY <1>1
  <2>2. d = typedIn[u[1].of]
    BY <1>1 DEF Frame!Decoded
  <2>3. 1 \in 1 .. FieldSize
    BY FramingAssumption
  <2>4. u[1].of = m
    BY <2>1, <2>3 DEF Frame!Piece
  <2>5. d = typedIn[m] /\ typedIn[m] \in Lengths
    BY <2>1, <2>2, <2>4 DEF FrameTypes
  <2>6. d \in 1 .. BufferSize
    BY <2>5, FramingAssumption
  <2>. QED
    BY <2>6, FramingAssumption
<1>2. CASE ~\E m \in 1 .. Len(typedIn) : u = Frame!Piece(m, "length", FieldSize)
  BY <1>2 DEF Frame!Decoded
<1>. QED
  BY <1>1, <1>2

LEMMA FrameFitInit == Frame!Init => FrameFit
<1>. SUFFICES ASSUME Frame!Init PROVE FrameFit
  OBVIOUS
<1>1. /\ typedIn = <<>> /\ stream = <<>> /\ got = <<>> /\ delivered = <<>> /\ message_length = 0
      /\ remaining = IF course = 16 THEN <<>> ELSE Frame!Piece(1, "data", MessageSize)
  BY DEF Frame!Init
<1>2. <<>> \in Seq(Frame!Bytes) /\ <<>> \in Seq(Seq(Frame!Bytes)) /\ Len(<<>>) = 0
  OBVIOUS
<1>3. 1 \in 1 .. MaxMessages /\ "data" \in Frame!Parts
  BY FramingAssumption DEF Frame!Parts
<1>4. MessageSize \in Nat /\ MessageSize <= MessageSize + BufferSize + FieldSize
  BY FramingAssumption
<1>5. Frame!Piece(1, "data", MessageSize) \in Seq(Frame!Bytes)
  BY <1>3, <1>4, PieceFits
<1>6. remaining \in Seq(Frame!Bytes)
  BY <1>1, <1>2, <1>5
<1>7. 0 <= MaxMessages /\ 0 <= Capacity /\ 0 \in 0 .. BufferSize + 1
  BY FramingAssumption
<1>. QED
  BY <1>1, <1>2, <1>6, <1>7 DEF FrameFit

LEMMA FrameFitStep == FrameTypes /\ FrameFit /\ [Frame!Next]_frameVars => FrameFit'
<1>. SUFFICES ASSUME FrameTypes, FrameFit, [Frame!Next]_frameVars PROVE FrameFit'
  OBVIOUS
<1>1. /\ Len(typedIn) <= MaxMessages /\ Len(stream) <= Capacity
      /\ remaining \in Seq(Frame!Bytes) /\ stream \in Seq(Frame!Bytes) /\ got \in Seq(Frame!Bytes)
      /\ delivered \in Seq(Seq(Frame!Bytes)) /\ message_length \in 0 .. BufferSize + 1
  BY DEF FrameFit
<1>2. <<>> \in Seq(Frame!Bytes) /\ Append(delivered, got) \in Seq(Seq(Frame!Bytes))
  BY <1>1
<1>3. \A n \in 1 .. Len(stream) :
        /\ SubSeq(stream, 1, n) \in Seq(Frame!Bytes)
        /\ SubSeq(stream, n + 1, Len(stream)) \in Seq(Frame!Bytes)
        /\ Len(SubSeq(stream, n + 1, Len(stream))) <= Capacity
  <2>1. \A n \in 1 .. Len(stream) : Len(SubSeq(stream, n + 1, Len(stream))) = Len(stream) - n
    BY <1>1, DropProperties
  <2>. QED
    BY <1>1, <2>1, MoveOver, FramingAssumption
<1>4. CASE Frame!ReadSome
  <2>1. PICK n \in 1 .. left : n <= Len(stream) /\ Frame!Take(n)
    BY <1>4 DEF Frame!ReadSome
  <2>2. n \in 1 .. Len(stream)
    BY <2>1 DEF FrameTypes
  <2>3. got \o SubSeq(stream, 1, n) \in Seq(Frame!Bytes)
    BY <1>1, <1>3, <2>2, ConcatProperties
  <2>4. /\ got' = got \o SubSeq(stream, 1, n) /\ stream' = SubSeq(stream, n + 1, Len(stream))
        /\ UNCHANGED <<typedIn, remaining, delivered, message_length>>
    BY <1>4, <2>1 DEF Frame!ReadSome, Frame!Take, Frame!senderVars
  <2>. QED
    BY <1>1, <1>3, <2>2, <2>3, <2>4 DEF FrameFit
<1>5. CASE Frame!ReadNothing \/ Frame!Accept \/ Frame!TypeRead \/ Frame!CutOff
  <2>1. /\ UNCHANGED <<typedIn, remaining, stream, delivered, message_length>>
        /\ got' = got \/ got' = <<>>
    BY <1>5 DEF Frame!ReadNothing, Frame!Accept, Frame!TypeRead, Frame!CutOff, Frame!Readn,
                Frame!senderVars
  <2>. QED
    BY <1>1, <1>2, <2>1 DEF FrameFit
<1>6. CASE Frame!LengthRead
  <2>1. /\ UNCHANGED <<typedIn, remaining, stream, delivered>> /\ got' = <<>>
        /\ message_length' \in Frame!Decoded(got)
    BY <1>6 DEF Frame!LengthRead, Frame!Readn, Frame!senderVars
  <2>2. got \in Seq(FrameByte)
    BY DEF FrameTypes
  <2>3. message_length' \in 0 .. BufferSize + 1
    BY <2>1, <2>2, DecodedFits
  <2>. QED
    BY <1>1, <1>2, <2>1, <2>3 DEF FrameFit
<1>7. CASE Frame!BodyRead \/ Frame!BulkRead
  <2>1. /\ UNCHANGED <<typedIn, remaining, stream, message_length>>
        /\ \/ UNCHANGED <<got, delivered>>
           \/ delivered' = Append(delivered, got) /\ got' = <<>>
    BY <1>7 DEF Frame!BodyRead, Frame!BulkRead, Frame!Readn, Frame!senderVars
  <2>. QED
    BY <1>1, <1>2, <2>1 DEF FrameFit
<1>8. CASE Frame!ReadRaw
  <2>1. /\ UNCHANGED <<typedIn, remaining, got, message_length>>
        /\ \/ \E n \in 1 .. Len(stream) :
                /\ delivered' = Append(delivered, SubSeq(stream, 1, n))
                /\ stream' = SubSeq(stream, n + 1, Len(stream))
           \/ UNCHANGED <<stream, delivered>>
    BY <1>8 DEF Frame!ReadRaw, Frame!senderVars
  <2>2. CASE UNCHANGED <<stream, delivered>>
    BY <1>1, <2>1, <2>2 DEF FrameFit
  <2>3. CASE ~UNCHANGED <<stream, delivered>>
    <3>1. PICK n \in 1 .. Len(stream) :
                /\ delivered' = Append(delivered, SubSeq(stream, 1, n))
                /\ stream' = SubSeq(stream, n + 1, Len(stream))
      BY <2>1, <2>3
    <3>2. Append(delivered, SubSeq(stream, 1, n)) \in Seq(Seq(Frame!Bytes))
      BY <1>1, <1>3, <3>1, AppendProperties
    <3>. QED
      BY <1>1, <1>3, <2>1, <3>1, <3>2 DEF FrameFit
  <2>. QED
    BY <2>2, <2>3
<1>9. CASE Frame!KillReader \/ Frame!Leave \/ UNCHANGED frameVars
  <2>1. UNCHANGED <<typedIn, remaining, stream, got, delivered, message_length>>
    BY <1>9 DEF Frame!KillReader, Frame!Leave, frameVars, Frame!senderVars, Frame!readVars
  <2>. QED
    BY <1>1, <2>1 DEF FrameFit
<1>10. CASE Frame!Typed
  <2>1. PICK length \in Lengths :
          typedIn' = Append(typedIn, length) /\ remaining' = Frame!Message(Len(typedIn'), length)
    BY <1>10 DEF Frame!Typed
  <2>2. UNCHANGED <<stream, got, delivered, message_length>> /\ Len(typedIn) < MaxMessages
    BY <1>10 DEF Frame!Typed, Frame!readVars
  <2>3. Len(typedIn') = Len(typedIn) + 1 /\ Len(typedIn) \in Nat
    BY <2>1, AppendProperties DEF FrameTypes
  <2>4. Len(typedIn') \in 1 .. MaxMessages
    BY <2>2, <2>3, FramingAssumption
  <2>5. remaining' \in Seq(Frame!Bytes)
    BY <2>1, <2>4, MessageFits
  <2>. QED
    BY <1>1, <2>2, <2>4, <2>5 DEF FrameFit
<1>11. CASE Frame!Send
  <2>1. PICK n \in 1 .. Len(remaining) :
          /\ Len(stream) + n <= Capacity /\ stream' = stream \o SubSeq(remaining, 1, n)
          /\ remaining' = SubSeq(remaining, n + 1, Len(remaining))
    BY <1>11 DEF Frame!Send
  <2>2. UNCHANGED <<typedIn, got, delivered, message_length>>
    BY <1>11 DEF Frame!Send, Frame!readVars
  <2>3. /\ SubSeq(remaining, 1, n) \in Seq(Frame!Bytes) /\ Len(SubSeq(remaining, 1, n)) = n
        /\ SubSeq(remaining, n + 1, Len(remaining)) \in Seq(Frame!Bytes)
    <3>1. Len(SubSeq(remaining, 1, n)) = n
      BY <1>1, <2>1
    <3>. QED
      BY <1>1, <3>1, MoveOver
  <2>4. stream' \in Seq(Frame!Bytes) /\ Len(stream') = Len(stream) + n
    BY <1>1, <2>1, <2>3, ConcatProperties
  <2>. QED
    BY <1>1, <2>1, <2>2, <2>3, <2>4 DEF FrameFit
<1>. QED
  BY <1>4, <1>5, <1>6, <1>7, <1>8, <1>9, <1>10, <1>11 DEF Frame!Next, Frame!Reader

LEMMA FrameTyped == FrameInv /\ FrameFit => Frame!FrameTypeOK
<1>. SUFFICES ASSUME FrameInv, FrameFit PROVE Frame!FrameTypeOK
  OBVIOUS
<1>1. FrameTypes
  BY DEF FrameInv
<1>2. readerAt \in {"accept", "length", "type", "body", "bulk", "read",
                    "closed", "error", "spins", "killed"}
  BY <1>1 DEF FrameTypes
<1>. QED
  BY <1>1, <1>2 DEF FrameTypes, FrameFit, Frame!FrameTypeOK

\* What HiTypes and WaysInv do not say of the types of HiServer.
HiFit ==
  /\ typedLines \in 0 .. MaxLines
  /\ questions \in Seq(Hi!Lines) /\ handed \in Seq(Hi!Lines)
  /\ replies \in Seq(Hi!Lines) /\ printed \in Seq(Hi!Lines)
  /\ answered \in Seq(Seq(Hi!Lines))

LEMMA HiFitStep == HiTypes /\ OpenInv /\ HiFit /\ [Hi!Next]_hiVars => HiFit'
<1>. SUFFICES ASSUME HiTypes, OpenInv, HiFit, [Hi!Next]_hiVars PROVE HiFit'
  OBVIOUS
<1>1. /\ typedLines \in 0 .. MaxLines
      /\ questions \in Seq(Hi!Lines) /\ handed \in Seq(Hi!Lines)
      /\ replies \in Seq(Hi!Lines) /\ printed \in Seq(Hi!Lines)
      /\ answered \in Seq(Seq(Hi!Lines))
  BY DEF HiFit
<1>2. <<>> \in Seq(Hi!Lines)
  OBVIOUS
<1>3. Hi!CutOff => questions' \in Seq(Hi!Lines)
  <2>. SUFFICES ASSUME Hi!CutOff PROVE questions' \in Seq(Hi!Lines)
    OBVIOUS
  <2>1. PICK n \in 0 .. Len(questions) : questions' = SubSeq(questions, 1, n)
    BY DEF Hi!CutOff
  <2>. QED
    BY <1>1, <2>1
<1>4. CASE Hi!ReadLines
  <2>1. PICK n \in 1 .. Len(questions) :
          /\ handed' = SubSeq(questions, 1, n)
          /\ questions' = SubSeq(questions, n + 1, Len(questions))
    BY <1>4 DEF Hi!ReadLines
  <2>2. UNCHANGED <<typedLines, replies, answered, printed>>
    BY <1>4 DEF Hi!ReadLines
  <2>3. handed' \in Seq(Hi!Lines) /\ questions' \in Seq(Hi!Lines)
    BY <1>1, <2>1, MoveOver
  <2>. QED
    BY <1>1, <2>2, <2>3 DEF HiFit
<1>5. CASE Hi!ReadError
  <2>1. UNCHANGED <<typedLines, questions, replies, answered, printed>> /\ handed' = <<>>
    BY <1>5 DEF Hi!ReadError
  <2>. QED
    BY <1>1, <1>2, <2>1 DEF HiFit
<1>6. CASE Hi!Reply \/ Hi!Echo
  <2>1. /\ UNCHANGED <<typedLines, handed, printed>> /\ hiServer = "write"
        /\ answered' = Append(answered, handed)
        /\ UNCHANGED questions \/ Hi!CutOff
    BY <1>6 DEF Hi!Reply, Hi!Echo, Hi!Refused
  <2>2. \/ replies' = replies \/ replies' = replies \o handed
        \/ HiOpen /\ replies' = Append(replies, handed[1])
    BY <1>6 DEF Hi!Reply, Hi!Echo, Hi!Refused, Hi!ClientOpen, HiOpen
  <2>3. ASSUME HiOpen PROVE Append(replies, handed[1]) \in Seq(Hi!Lines)
    <3>1. handed # <<>>
      BY <2>1, <2>3 DEF OpenInv
    <3>2. 1 \in 1 .. Len(handed)
      BY <1>1, <3>1, EmptySeq
    <3>3. handed[1] \in Hi!Lines
      BY <1>1, <3>2, ElementOfSeq
    <3>. QED
      BY <1>1, <3>3, AppendProperties
  <2>4. replies \o handed \in Seq(Hi!Lines)
    BY <1>1, ConcatProperties
  <2>5. replies' \in Seq(Hi!Lines)
    BY <1>1, <2>2, <2>3, <2>4
  <2>6. Append(answered, handed) \in Seq(Seq(Hi!Lines))
    BY <1>1, AppendProperties
  <2>7. questions' \in Seq(Hi!Lines)
    BY <1>1, <2>1, <1>3
  <2>. QED
    BY <1>1, <2>1, <2>5, <2>6, <2>7 DEF HiFit
<1>7. CASE Hi!SendLine
  <2>1. /\ typedLines < MaxLines /\ typedLines' = typedLines + 1
        /\ questions' = Append(questions, typedLines')
        /\ UNCHANGED <<handed, replies, answered, printed>>
    BY <1>7 DEF Hi!SendLine
  <2>2. typedLines' \in 0 .. MaxLines /\ typedLines' \in Hi!Lines
    BY <1>1, <2>1, SizesAssumption DEF Hi!Lines
  <2>3. Append(questions, typedLines') \in Seq(Hi!Lines)
    BY <1>1, <2>2, AppendProperties
  <2>. QED
    BY <1>1, <2>1, <2>2, <2>3 DEF HiFit
<1>8. CASE Hi!PrintAnswer
  <2>1. /\ replies # <<>> /\ printed' = Append(printed, Head(replies)) /\ replies' = Tail(replies)
        /\ UNCHANGED <<typedLines, questions, handed, answered>>
    BY <1>8 DEF Hi!PrintAnswer
  <2>2. Head(replies) \in Hi!Lines /\ Tail(replies) \in Seq(Hi!Lines)
    BY <1>1, <2>1, HeadTailProperties
  <2>3. Append(printed, Head(replies)) \in Seq(Hi!Lines)
    BY <1>1, <2>2, AppendProperties
  <2>. QED
    BY <1>1, <2>1, <2>2, <2>3 DEF HiFit
<1>9. CASE HiLeaves
  <2>1. /\ UNCHANGED <<typedLines, handed, answered, printed>> /\ replies' = <<>>
        /\ UNCHANGED questions \/ Hi!CutOff
    BY <1>9, LeavesMove
  <2>2. questions' \in Seq(Hi!Lines)
    BY <1>1, <1>3, <2>1
  <2>. QED
    BY <1>1, <1>2, <2>1, <2>2 DEF HiFit
<1>10. CASE HiEnds \/ UNCHANGED hiVars
  <2>1. UNCHANGED <<typedLines, questions, handed, replies, answered, printed>>
    BY <1>10, EndsMoveNothing DEF hiVars
  <2>. QED
    BY <1>1, <2>1 DEF HiFit
<1>. QED
  BY <1>4, <1>5, <1>6, <1>7, <1>8, <1>9, <1>10, HiCases

LEMMA HiFitInit == Hi!Init => HiFit
<1>. SUFFICES ASSUME Hi!Init PROVE HiFit
  OBVIOUS
<1>1. /\ typedLines = 0 /\ questions = <<>> /\ handed = <<>> /\ replies = <<>> /\ printed = <<>>
      /\ answered = <<>>
  BY DEF Hi!Init, Hi!AcceptedOne, Hi!Connected
<1>2. <<>> \in Seq(Hi!Lines) /\ <<>> \in Seq(Seq(Hi!Lines)) /\ 0 \in 0 .. MaxLines
  BY SizesAssumption
<1>. QED
  BY <1>1, <1>2 DEF HiFit

LEMMA HiTyped == HiInv /\ HiFit => Hi!HiTypeOK
<1>. SUFFICES ASSUME HiInv, HiFit PROVE Hi!HiTypeOK
  OBVIOUS
<1>1. HiTypes /\ WaysInv
  BY DEF HiInv
<1>2. /\ hiClient \in {"type", "wait", "quiet", "asleep", "terminated", "exited"}
      /\ command \in {"none", "shutdown", "close", "quit", "kill"}
  BY <1>1 DEF HiTypes, WaysInv, InTurn
<1>. QED
  BY <1>1, <1>2 DEF HiTypes, HiFit, Hi!HiTypeOK

=============================================================================
