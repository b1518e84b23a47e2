------------------------ MODULE TcpConnectionProofs ------------------------
(***************************************************************************)
(* Proofs about TcpConnection, for any number of bytes, any size of the    *)
(* socket's send queue and whatever the client does.                       *)
(***************************************************************************)
EXTENDS TcpConnection, SequenceTheorems, TLAPS

\* Everything between the client's send and its read, in order.
Stream == received \o toClient \o output \o input \o toServer

Bytes == Seq(Nat)

SeqsType ==
  /\ sent \in Nat
  /\ received \in Bytes /\ toClient \in Bytes /\ output \in Bytes
  /\ input \in Bytes /\ toServer \in Bytes

\* What moves from the front of one sequence to the end of the one before it
\* does not change the stream.
LEMMA Cat == \A x, y \in Bytes : x \o y \in Bytes
BY ConcatProperties DEF Bytes

\* The provers rewrite with an operator of no meaning better than with \o.
Join(x, y) == x \o y

LEMMA JoinAssoc == \A x, y, z \in Bytes : Join(Join(x, y), z) = Join(x, Join(y, z))
<1>1. ASSUME NEW x \in Seq(Nat), NEW y \in Seq(Nat), NEW z \in Seq(Nat)
      PROVE  (x \o y) \o z = x \o (y \o z)
  BY SMTT(60)
<1>. QED
  BY <1>1, Zenon DEF Bytes, Join

LEMMA JoinType == \A x, y \in Bytes : Join(x, y) \in Bytes
BY Cat DEF Join

LEMMA Assoc == \A x, y, z \in Bytes : x \o (y \o z) = (x \o y) \o z
<1>1. \A x, y, z \in Bytes : Join(x, Join(y, z)) = Join(Join(x, y), z)
  BY JoinAssoc
<1>. QED
  BY <1>1, Zenon DEF Join

LEMMA Split ==
  ASSUME NEW s \in Bytes, NEW n \in 0 .. Len(s)
  PROVE  /\ SubSeq(s, 1, n) \in Bytes
         /\ Dropped(s, n) \in Bytes
         /\ SubSeq(s, 1, n) \o Dropped(s, n) = s
<1>1. /\ 1 \in 1 .. Len(s) + 1 /\ n \in 1 - 1 .. Len(s) /\ Len(s) \in n .. Len(s)
      /\ n + 1 \in Nat /\ n \in Nat /\ Len(s) \in Nat
  BY DEF Bytes
<1>2. SubSeq(s, 1, n) \o SubSeq(s, n + 1, Len(s)) = SubSeq(s, 1, Len(s))
  BY <1>1, ConcatAdjacentSubSeq DEF Bytes
<1>3. SubSeq(s, 1, Len(s)) = s
  BY SubSeqFull DEF Bytes
<1>4. \A i \in 1 .. Len(s) : s[i] \in Nat
  BY DEF Bytes
<1>5. SubSeq(s, 1, n) \in Bytes /\ SubSeq(s, n + 1, Len(s)) \in Bytes
  BY <1>1, <1>4, SubSeqProperties DEF Bytes
<1>. QED
  BY <1>2, <1>3, <1>5, Zenon DEF Dropped

\* The first n bytes of s move to the end of y.
LEMMA FrontMoved ==
  ASSUME NEW x \in Bytes, NEW y \in Bytes, NEW s \in Bytes, NEW n \in 0 .. Len(s)
  PROVE  Join(Join(x, Join(y, SubSeq(s, 1, n))), Dropped(s, n)) = Join(Join(x, y), s)
<1>. DEFINE a == SubSeq(s, 1, n)
<1>. DEFINE b == Dropped(s, n)
<1>1. a \in Bytes /\ b \in Bytes /\ Join(a, b) = s
  BY Split DEF Join
<1>. HIDE DEF a, b
<1>2. Join(Join(x, Join(y, a)), b) = Join(Join(x, y), s)
  BY <1>1, JoinAssoc, JoinType
<1>. QED
  BY <1>2 DEF a, b

LEMMA None == \A s \in Bytes : s \o <<>> = s /\ <<>> \o s = s /\ <<>> \in Bytes
BY ConcatEmptySeq, EmptySeq DEF Bytes

LEMMA DropNone == \A s \in Bytes : Dropped(s, 0) = s /\ SubSeq(s, 1, 0) = <<>>
BY SubSeqFull, SubSeqEmpty DEF Bytes, Dropped

\* Buffered leaves in output_buffer what was not written.
LEMMA BufferedOutput ==
  ASSUME output \in Bytes, NEW data \in Bytes, NEW n \in 0 .. Len(data), Buffered(data, n)
  PROVE  output' = output \o Dropped(data, n)
<1>1. CASE n = Len(data)
  <2>1. Dropped(data, n) = <<>>
    BY <1>1, SubSeqEmpty DEF Dropped, Bytes
  <2>. QED
    BY <1>1, <2>1, None DEF Buffered
<1>2. CASE n # Len(data)
  BY <1>2 DEF Buffered
<1>. QED
  BY <1>1, <1>2

LEMMA UptoNext ==
  ASSUME NEW n \in Nat
  PROVE  Upto(n) \in Bytes /\ Upto(n + 1) = Append(Upto(n), n + 1)
<1>1. /\ Upto(n) \in Bytes /\ Len(Upto(n)) = n
      /\ Upto(n + 1) \in Bytes /\ Len(Upto(n + 1)) = n + 1
  BY DEF Upto, Bytes
<1>2. /\ Append(Upto(n), n + 1) \in Bytes /\ Len(Append(Upto(n), n + 1)) = n + 1
      /\ \A i \in 1 .. n : Append(Upto(n), n + 1)[i] = i
      /\ Append(Upto(n), n + 1)[n + 1] = n + 1
  BY <1>1, AppendProperties DEF Bytes, Upto
<1>3. \A i \in 1 .. n + 1 : Upto(n + 1)[i] = Append(Upto(n), n + 1)[i]
  BY <1>2 DEF Upto
<1>. QED
  BY <1>1, <1>2, <1>3, SeqEqual DEF Bytes

-----------------------------------------------------------------------------
StreamInv == SeqsType /\ BytesConserved

LEMMA StreamInit == Init => StreamInv
<1>. SUFFICES ASSUME Init PROVE StreamInv
  OBVIOUS
<1>1. SeqsType
  BY EmptySeq DEF Init, SeqsType, Bytes
<1>2. Stream = <<>>
  BY None DEF Init, Stream
<1>3. Upto(sent) = <<>>
  BY DEF Init, Upto
<1>. QED
  BY <1>1, <1>2, <1>3 DEF StreamInv, BytesConserved, Stream

\* The stream after the step is the stream before it, for every step of the
\* loop and for the client's read.
LEMMA StreamStep ==
  ASSUME SeqsType, Next, rst' = "no", ~PeerSend
  PROVE  SeqsType' /\ Stream' = Stream /\ sent' = sent
<1>0. sent' = sent
  BY DEF Next, Peer, Loop, PeerRead, PeerFinish, PeerReset, Established, Wait,
         Dispatched, HandleRead, Send, HandleWrite, peerVars
<1>. USE DEF SeqsType
<1>1. CASE PeerRead
  <2>1. /\ received' = Append(received, Head(toClient)) /\ toClient' = Tail(toClient)
        /\ UNCHANGED <<output, input, toServer>>
    BY <1>1 DEF PeerRead, connVars
  <2>2. Head(toClient) \in Nat /\ Tail(toClient) \in Bytes
        /\ toClient = <<Head(toClient)>> \o Tail(toClient)
    <3>1. toClient # <<>> /\ toClient \in Seq(Nat)
      BY <1>1 DEF PeerRead, Bytes
    <3>2. Len(toClient) \in Nat \ {0}
      BY <3>1, EmptySeq
    <3>3. /\ SubSeq(toClient, 1, Len(toClient)) = toClient
          /\ SubSeq(toClient, 1, Len(toClient))
               = <<toClient[1]>> \o SubSeq(toClient, 1 + 1, Len(toClient))
      <4>1. 1 \in 1 .. Len(toClient) /\ Len(toClient) \in 1 .. Len(toClient)
        BY <3>2
      <4>. QED
        BY <3>1, <4>1, SubSeqFull, SubSeqRecursiveFirst
    <3>4. Tail(toClient) = SubSeq(toClient, 2, Len(toClient)) /\ Head(toClient) = toClient[1]
      BY <3>1, TailIsSubSeq
    <3>. QED
      BY <3>1, <3>3, <3>4, HeadTailProperties DEF Bytes
  <2>3. /\ <<Head(toClient)>> \in Bytes
        /\ Append(received, Head(toClient)) = received \o <<Head(toClient)>>
        /\ Append(received, Head(toClient)) \in Bytes
    BY <2>2, AppendIsConcat, AppendProperties DEF Bytes
  <2>4. received' \o toClient' = received \o toClient
    <3>. DEFINE head == <<Head(toClient)>>
    <3>1. head \in Bytes /\ head \o Tail(toClient) = toClient
      BY <2>2, <2>3
    <3>. DEFINE tail == Tail(toClient)
    <3>2. (received \o head) \o tail = received \o toClient
      <4>1. tail \in Bytes /\ Join(head, tail) = toClient
        BY <2>2, <3>1 DEF Join
      <4>2. Join(Join(received, head), tail) = Join(received, toClient)
        <5>. HIDE DEF head, tail
        <5>. QED
          BY <3>1, <4>1, JoinAssoc
      <4>. QED
        BY <4>2 DEF Join
    <3>. QED
      BY <2>1, <2>3, <3>2 DEF head
  <2>. QED
    BY <1>0, <2>1, <2>2, <2>3, <2>4 DEF Stream
<1>2. CASE HandleRead
  <2>1. UNCHANGED <<received, toClient, output>>
    BY <1>2 DEF HandleRead, peerVars
  <2>2. \/ UNCHANGED <<input, toServer>>
        \/ \E n \in 1 .. Len(toServer) :
             input' = input \o SubSeq(toServer, 1, n) /\ toServer' = Dropped(toServer, n)
    BY <1>2 DEF HandleRead
  <2>3. CASE UNCHANGED <<input, toServer>>
    BY <1>0, <2>1, <2>3 DEF Stream
  <2>4. ASSUME NEW n \in 1 .. Len(toServer),
               input' = input \o SubSeq(toServer, 1, n), toServer' = Dropped(toServer, n)
        PROVE  SeqsType' /\ Stream' = Stream
    <3>1. n \in 0 .. Len(toServer)
      BY DEF Bytes
    <3>2. /\ SubSeq(toServer, 1, n) \in Bytes /\ Dropped(toServer, n) \in Bytes
          /\ SubSeq(toServer, 1, n) \o Dropped(toServer, n) = toServer
      BY <3>1, Split
    <3>. DEFINE front == received \o toClient \o output
    <3>3. front \in Bytes
      BY Cat
    <3>4. (front \o (input \o SubSeq(toServer, 1, n))) \o Dropped(toServer, n)
            = (front \o input) \o toServer
      <4>. HIDE DEF front
      <4>. QED
        <5>1. Join(Join(front, Join(input, SubSeq(toServer, 1, n))), Dropped(toServer, n))
                = Join(Join(front, input), toServer)
          BY <3>1, <3>3, FrontMoved
        <5>. QED
          BY <5>1 DEF Join
    <3>5. input' \in Bytes /\ toServer' \in Bytes
      BY <2>4, <3>2, Cat
    <3>. QED
      BY <1>0, <2>1, <2>4, <3>4, <3>5 DEF Stream
  <2>. QED
    BY <1>0, <2>2, <2>3, <2>4
<1>3. CASE Send
  <2>1. UNCHANGED <<received, toServer>> /\ input' = <<>>
    BY <1>3 DEF Send, peerVars
  <2>2. \/ /\ output = <<>>
           /\ \E n \in 0 .. Len(input) :
                toClient' = toClient \o SubSeq(input, 1, n) /\ Buffered(input, n)
        \/ Buffered(input, 0) /\ UNCHANGED toClient
    <3>1. (IF Free = 0 THEN {0} ELSE 1 .. Len(input)) \subseteq 0 .. Len(input)
      <4>1. Len(input) \in Nat
        BY DEF Bytes
      <4>. QED
        BY <4>1
    <3>2. \/ /\ WriteNow
             /\ \E n \in (IF Free = 0 THEN {0} ELSE 1 .. Len(input)) :
                  toClient' = toClient \o SubSeq(input, 1, n) /\ Buffered(input, n)
          \/ WriteNow /\ WriteFails
          \/ Buffered(input, 0) /\ UNCHANGED toClient
      BY <1>3 DEF Send
    <3>3. CASE WriteNow /\ WriteFails
      BY <3>3 DEF WriteFails
    <3>. QED
      BY <3>1, <3>2, <3>3 DEF WriteNow
  <2>3. PICK n \in 0 .. Len(input) :
          /\ toClient' = toClient \o SubSeq(input, 1, n)
          /\ output' = output \o Dropped(input, n)
          /\ output = <<>> \/ n = 0
    <3>1. CASE output = <<>> /\ \E n \in 0 .. Len(input) :
                 toClient' = toClient \o SubSeq(input, 1, n) /\ Buffered(input, n)
      BY <3>1, BufferedOutput
    <3>2. CASE Buffered(input, 0) /\ UNCHANGED toClient
      <4>1. 0 \in 0 .. Len(input)
        BY DEF Bytes
      <4>2. toClient' = toClient \o SubSeq(input, 1, 0)
        BY <3>2, None, DropNone
      <4>3. output' = output \o Dropped(input, 0)
        BY <3>2, <4>1, BufferedOutput
      <4>. QED
        BY <4>1, <4>2, <4>3
    <3>. QED
      BY <2>2, <3>1, <3>2
  <2>4. /\ SubSeq(input, 1, n) \in Bytes /\ Dropped(input, n) \in Bytes
        /\ SubSeq(input, 1, n) \o Dropped(input, n) = input
    BY Split
  <2>5. toClient' \in Bytes /\ output' \in Bytes /\ input' \in Bytes /\ toServer' \in Bytes
    BY <2>1, <2>3, <2>4, Cat, None
  <2>6. received \o toClient \in Bytes
    BY Cat
  <2>7. received' \o toClient' \o output' = received \o toClient \o output \o input
    <3>1. CASE output = <<>>
      <4>1. output' = Dropped(input, n) /\ received \o toClient \o output = received \o toClient
        BY <2>3, <2>4, <2>6, <3>1, None
      <4>2. (received \o (toClient \o SubSeq(input, 1, n))) \o Dropped(input, n)
              = (received \o toClient) \o input
        <5>1. Join(Join(received, Join(toClient, SubSeq(input, 1, n))), Dropped(input, n))
                = Join(Join(received, toClient), input)
          BY FrontMoved
        <5>. QED
          BY <5>1 DEF Join
      <4>. QED
        BY <2>1, <2>3, <4>1, <4>2
    <3>2. CASE n = 0
      <4>1. toClient' = toClient /\ output' = output \o input
        BY <2>3, <3>2, None, DropNone
      <4>. DEFINE r == received \o toClient
      <4>2. r \in Bytes
        BY <2>6
      <4>. HIDE DEF r
      <4>3. r \o (output \o input) = (r \o output) \o input
        BY <4>2, Assoc, ZenonT(60)
      <4>4. (received \o toClient) \o (output \o input)
              = ((received \o toClient) \o output) \o input
        BY <4>3 DEF r
      <4>. QED
        BY <2>1, <4>1, <4>4 DEF r
    <3>. QED
      BY <2>3, <3>1, <3>2
  <2>8. received \o toClient \o output \o input \in Bytes
    BY <2>6, Cat
  <2>. QED
    BY <1>0, <2>1, <2>5, <2>7, <2>8, None DEF Stream
<1>4. CASE HandleWrite
  <2>1. UNCHANGED <<received, input, toServer>>
    BY <1>4 DEF HandleWrite, peerVars
  <2>2. \/ UNCHANGED <<toClient, output>>
        \/ \E n \in 1 .. Len(output) :
             toClient' = toClient \o SubSeq(output, 1, n) /\ output' = Dropped(output, n)
    BY <1>4 DEF HandleWrite, Written, WriteFails
  <2>3. CASE UNCHANGED <<toClient, output>>
    BY <1>0, <2>1, <2>3 DEF Stream
  <2>4. ASSUME NEW n \in 1 .. Len(output),
               toClient' = toClient \o SubSeq(output, 1, n), output' = Dropped(output, n)
        PROVE  SeqsType' /\ Stream' = Stream
    <3>1. n \in 0 .. Len(output)
      BY DEF Bytes
    <3>2. /\ SubSeq(output, 1, n) \in Bytes /\ Dropped(output, n) \in Bytes
          /\ SubSeq(output, 1, n) \o Dropped(output, n) = output
      BY <3>1, Split
    <3>3. (received \o (toClient \o SubSeq(output, 1, n))) \o Dropped(output, n)
            = (received \o toClient) \o output
      <4>1. Join(Join(received, Join(toClient, SubSeq(output, 1, n))), Dropped(output, n))
              = Join(Join(received, toClient), output)
        BY <3>1, FrontMoved
      <4>. QED
        BY <4>1 DEF Join
    <3>4. toClient' \in Bytes /\ output' \in Bytes
      BY <2>4, <3>2, Cat
    <3>. QED
      BY <1>0, <2>1, <2>4, <3>3, <3>4 DEF Stream
  <2>. QED
    BY <1>0, <2>2, <2>3, <2>4
<1>5. CASE PeerReset
  BY <1>5 DEF PeerReset
<1>6. CASE PeerFinish \/ Established \/ Wait \/ Dispatched
  <2>1. UNCHANGED <<received, toClient, output, input, toServer>>
    BY <1>6 DEF PeerFinish, Established, Wait, Dispatched, peerVars, sockVars, connVars
  <2>. QED
    BY <1>0, <2>1 DEF Stream
<1>. QED
  BY <1>0, <1>1, <1>2, <1>3, <1>4, <1>5, <1>6 DEF Next, Peer, Loop

LEMMA StreamInvStep == SeqsType /\ BytesConserved /\ [Next]_vars => BytesConserved'
<1>. SUFFICES ASSUME SeqsType, BytesConserved, [Next]_vars, rst' = "no"
              PROVE  Stream' = Upto(sent')
  BY DEF BytesConserved, Stream
<1>1. rst = "no"
  BY DEF Next, Peer, Loop, PeerSend, PeerRead, PeerFinish, PeerReset, Established,
         Wait, Dispatched, HandleRead, Send, HandleWrite, WriteFails, sockVars, vars
<1>2. Stream = Upto(sent)
  BY <1>1 DEF BytesConserved, Stream
<1>3. CASE PeerSend
  <2>. DEFINE front == received \o toClient \o output \o input
  <2>1. /\ sent' = sent + 1 /\ toServer' = Append(toServer, sent + 1)
        /\ Stream' = front \o toServer' /\ Stream = front \o toServer
    BY <1>3 DEF PeerSend, connVars, Stream
  <2>2. front \in Bytes
    BY Cat DEF SeqsType
  <2>3. /\ toServer \in Bytes /\ <<sent + 1>> \in Bytes
        /\ Append(toServer, sent + 1) = toServer \o <<sent + 1>>
        /\ Append(Upto(sent), sent + 1) = Upto(sent) \o <<sent + 1>>
    <3>1. sent + 1 \in Nat /\ toServer \in Bytes /\ Upto(sent) \in Bytes
      BY UptoNext DEF SeqsType
    <3>2. <<sent + 1>> \in Bytes
      BY <3>1 DEF Bytes
    <3>. QED
      BY <3>1, <3>2, AppendIsConcat DEF Bytes
  <2>. HIDE DEF front
  <2>4. front \o (toServer \o <<sent + 1>>) = (front \o toServer) \o <<sent + 1>>
    BY <2>2, <2>3, Assoc
  <2>. QED
    BY <1>2, <2>1, <2>3, <2>4, UptoNext DEF SeqsType
<1>4. CASE Next /\ ~PeerSend
  BY <1>2, <1>4, StreamStep
<1>5. CASE UNCHANGED vars
  <2>1. Stream' = Stream /\ sent' = sent
    BY <1>5 DEF vars, peerVars, sockVars, connVars, Stream
  <2>. QED
    BY <1>2, <2>1
<1>. QED
  BY <1>3, <1>4, <1>5

\* The sequences stay sequences of bytes, resets included.
LEMMA SeqsStep == SeqsType /\ [Next]_vars => SeqsType'
<1>. SUFFICES ASSUME SeqsType, [Next]_vars PROVE SeqsType'
  OBVIOUS
<1>1. CASE PeerSend
  <2>1. Append(toServer, sent + 1) \in Bytes
    BY AppendProperties DEF SeqsType, Bytes
  <2>. QED
    BY <1>1, <2>1 DEF PeerSend, SeqsType, connVars
<1>2. CASE Next /\ ~PeerSend /\ rst' = "no"
  BY <1>2, StreamStep
<1>3. CASE Next /\ ~PeerSend /\ rst' # "no"
  <2>1. CASE PeerReset
    BY <2>1, None DEF PeerReset, SeqsType, peerVars, connVars
  <2>2. CASE HandleRead
    <3>1. UNCHANGED <<sent, received, toClient, output>>
      BY <2>2 DEF HandleRead, peerVars
    <3>2. CASE UNCHANGED <<input, toServer>>
      BY <3>1, <3>2 DEF SeqsType
    <3>3. CASE \E n \in 1 .. Len(toServer) :
                 input' = input \o SubSeq(toServer, 1, n) /\ toServer' = Dropped(toServer, n)
      <4>1. PICK n \in 1 .. Len(toServer) :
              input' = input \o SubSeq(toServer, 1, n) /\ toServer' = Dropped(toServer, n)
        BY <3>3
      <4>2. n \in 0 .. Len(toServer)
        BY DEF SeqsType, Bytes
      <4>3. SubSeq(toServer, 1, n) \in Bytes /\ Dropped(toServer, n) \in Bytes
        BY <4>2, Split DEF SeqsType
      <4>. QED
        BY <3>1, <4>1, <4>3, Cat DEF SeqsType
    <3>. QED
      BY <2>2, <3>2, <3>3 DEF HandleRead
  <2>3. CASE Send
    <3>1. UNCHANGED <<sent, received, toServer, toClient>> /\ input' = <<>>
      BY <1>3, <2>3 DEF Send, WriteFails, peerVars
    <3>2. UNCHANGED output \/ Buffered(input, 0)
      BY <1>3, <2>3 DEF Send, WriteFails
    <3>3. output' \in Bytes
      <4>1. 0 \in 0 .. Len(input)
        BY DEF SeqsType, Bytes
      <4>2. Dropped(input, 0) = input
        BY DropNone DEF SeqsType
      <4>. QED
        <5>1. CASE UNCHANGED output
          BY <5>1 DEF SeqsType
        <5>2. CASE Buffered(input, 0)
          <6>1. output \in Bytes /\ input \in Bytes
            BY DEF SeqsType
          <6>2. output' = output \o Dropped(input, 0)
            BY <4>1, <5>2, <6>1, BufferedOutput
          <6>. QED
            BY <4>2, <6>1, <6>2, Cat
        <5>. QED
          BY <3>2, <5>1, <5>2
    <3>. QED
      BY <3>1, <3>3, None DEF SeqsType
  <2>4. CASE HandleWrite
    BY <1>3, <2>4 DEF HandleWrite, WriteFails, SeqsType, peerVars
  <2>5. CASE PeerRead \/ PeerFinish \/ Established \/ Wait \/ Dispatched
    BY <1>3, <2>5 DEF PeerRead, PeerFinish, Established, Wait, Dispatched,
                     SeqsType, peerVars, sockVars, connVars
  <2>. QED
    BY <1>3, <2>1, <2>2, <2>3, <2>4, <2>5 DEF Next, Peer, Loop
<1>4. CASE UNCHANGED vars
  BY <1>4 DEF vars, peerVars, sockVars, connVars, SeqsType
<1>. QED
  BY <1>1, <1>2, <1>3, <1>4

\* Until the connection is reset, every byte the client sent is in exactly one
\* place between its send and its read, in order.
THEOREM BytesAlwaysConserved == Spec => []BytesConserved
<1>1. StreamInv /\ [Next]_vars => StreamInv'
  BY SeqsStep, StreamInvStep DEF StreamInv
<1>2. StreamInv => BytesConserved
  BY DEF StreamInv
<1>. QED
  BY <1>1, <1>2, StreamInit, PTL DEF Spec

-----------------------------------------------------------------------------
\* A channel that has left the loop, by either way, is never dispatched again;
\* and while READ is still to come there is something to read or the stream has
\* ended, because only handle_read empties the receive queue.
CloseInv ==
  /\ closings \in {0, 1}
  /\ closings = 1 =>
       /\ open /\ interest = {} /\ pc \in {"wait", "dispatch"}
       /\ rst = "no" => fin /\ toServer = <<>>
  /\ ~open => interest = {} /\ pc # "new"
  /\ pc # "send" => input = <<>>
  /\ "READ" \in ready /\ rst = "no" => toServer # <<>> \/ fin

LEMMA CloseStep == SeqsType /\ CloseInv /\ [Next]_vars => CloseInv'
<1>. SUFFICES ASSUME SeqsType, CloseInv, [Next]_vars PROVE CloseInv'
  OBVIOUS
<1>. USE DEF At, peerVars, sockVars, connVars, loopVars
<1>1. CASE PeerSend
  <2>1. toServer' # <<>>
    <3>1. toServer \in Seq(Nat) /\ sent + 1 \in Nat
      BY DEF SeqsType, Bytes
    <3>2. Len(Append(toServer, sent + 1)) = Len(toServer) + 1 /\ Len(toServer) \in Nat
      BY <3>1, AppendProperties
    <3>3. Len(Append(toServer, sent + 1)) # 0
      BY <3>2
    <3>. QED
      BY <1>1, <3>3, EmptySeq DEF PeerSend
  <2>. QED
    BY <1>1, <2>1 DEF PeerSend, CloseInv
<1>2. CASE PeerRead \/ PeerFinish \/ PeerReset
  BY <1>2 DEF PeerRead, PeerFinish, PeerReset, CloseInv
<1>3. CASE Established \/ Dispatched
  BY <1>3 DEF Established, Dispatched, CloseInv
<1>4. CASE Wait
  BY <1>4 DEF Wait, ReadyNow, CloseInv
<1>5. CASE HandleRead
  BY <1>5 DEF HandleRead, Closed, CloseInv
<1>6. CASE Send
  <2>1. /\ pc = "send" /\ pc' = "dispatch" /\ input' = <<>> /\ (rst = "no" <=> rst' = "no")
        /\ UNCHANGED <<fin, toServer, ready, open, closings>>
    BY <1>6 DEF Send, WriteFails
  <2>2. interest = {} => interest' = {}
    BY <1>6 DEF Send, WriteFails, Buffered, SetEvents
  <2>. QED
    BY <2>1, <2>2 DEF CloseInv
<1>7. CASE HandleWrite
  <2>1. /\ interest # {} /\ ready' \subseteq ready /\ (rst = "no" <=> rst' = "no")
        /\ UNCHANGED <<fin, toServer, input, open, closings, pc>>
    BY <1>7 DEF HandleWrite, WriteFails
  <2>. QED
    BY <2>1 DEF CloseInv
<1>8. CASE UNCHANGED vars
  BY <1>8 DEF vars, CloseInv
<1>. QED
  BY <1>1, <1>2, <1>3, <1>4, <1>5, <1>6, <1>7, <1>8 DEF Next, Peer, Loop

\* on_connection_closed is called once, and never for a descriptor that the
\* dispatcher closed itself; a client that only finished was read to the end.
THEOREM ClosedExactlyOnce == Spec => []ClosedOnce
<1>1. Init => StreamInv /\ CloseInv
  BY StreamInit DEF Init, CloseInv
<1>2. StreamInv /\ CloseInv /\ [Next]_vars => StreamInv' /\ CloseInv'
  BY SeqsStep, StreamInvStep, CloseStep DEF StreamInv
<1>3. CloseInv => ClosedOnce
  BY DEF CloseInv, ClosedOnce
<1>. QED
  BY <1>1, <1>2, <1>3, PTL DEF Spec

=============================================================================
