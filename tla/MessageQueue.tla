---------------------------- MODULE MessageQueue ----------------------------
(***************************************************************************)
(* The System V message queue of linux-c-programming/ipc: senders          *)
(* (sysv_msg_sender.c) that find or make the queue of one key, post what   *)
(* is typed, and remove the queue when they end; and a receiver            *)
(* (sysv_msg_receiver.c) that is given the queue's id.                     *)
(*                                                                         *)
(* A character is the sender it was typed for and the number of its line;  *)
(* a newline and the terminating \0 are of line 0.                         *)
(***************************************************************************)
EXTENDS Integers, Sequences, FiniteSets

CONSTANTS
  Senders,
  MsgLength,     \* MSG_LENGTH
  TypedLengths,  \* bound: the lengths of lines, without their newline
  MaxPosts       \* bound: lines of a sender

VARIABLES
  postAt,     \* "start", "fgets", "msgsnd", "remove" or "over"
  myId,       \* messageQueueId of each sender
  typedLeft,  \* the rest of the line that fgets has not taken
  lineNo,     \* lines typed
  queueId,    \* the queue of the key, 0 when there is none
  lastId,     \* ids are not given twice
  messages,   \* the queue's messages
  posted,     \* history: the text of each message that has been posted to it
  taken,      \* history: the texts that each sender's fgets has returned and it posts
  watchAt,    \* the receiver: "start", "msgrcv" or "over"
  watchId,
  shownBuf,   \* its message.content
  shownText   \* history: what it has printed

postVars  == <<postAt, myId, typedLeft, lineNo>>
keptVars  == <<queueId, lastId, messages, posted, taken>>
watchVars == <<watchAt, watchId, shownBuf, shownText>>
messageVars == <<postVars, keptVars, watchVars>>

Char == Senders \X (1 .. MaxPosts)
NL   == <<"nl", 0>>
Nul  == <<"nul", 0>>
Byte == Char \union {NL, Nul}

MessageTypeOK ==
  /\ postAt \in [Senders -> {"start", "fgets", "msgsnd", "remove", "over"}]
  /\ typedLeft \in [Senders -> Seq(Byte)] /\ lineNo \in [Senders -> 0 .. MaxPosts]
  /\ queueId \in 0 .. lastId /\ watchId \in 0 .. lastId /\ myId \in [Senders -> 0 .. lastId]
  /\ {messages, posted, shownText} \subseteq Seq(Seq(Byte)) /\ taken \in [Senders -> Seq(Seq(Byte))]
  /\ watchAt \in {"start", "msgrcv", "over"} /\ shownBuf \in [1 .. MsgLength -> Byte]

Init ==
  /\ postAt = [s \in Senders |-> "start"] /\ myId = [s \in Senders |-> 0]
  /\ typedLeft = [s \in Senders |-> <<>>] /\ lineNo = [s \in Senders |-> 0]
  /\ taken = [s \in Senders |-> <<>>]
  /\ queueId = 0 /\ lastId = 0 /\ messages = <<>> /\ posted = <<>>
  /\ watchAt = "start" /\ watchId = 0
  /\ shownBuf = [k \in 1 .. MsgLength |-> Nul] /\ shownText = <<>>

-----------------------------------------------------------------------------
(* The senders                                                             *)

\* msgget with IPC_CREAT
Get(s) ==
  /\ postAt[s] = "start" /\ postAt' = [postAt EXCEPT ![s] = "fgets"]
  /\ IF queueId # 0
     THEN UNCHANGED <<queueId, lastId, messages, posted>>
     ELSE /\ lastId' = lastId + 1 /\ queueId' = lastId' /\ messages' = <<>> /\ posted' = <<>>
  /\ myId' = [myId EXCEPT ![s] = queueId']
  /\ UNCHANGED <<typedLeft, lineNo, taken, watchVars>>

\* A line is typed; one without a newline is the last.
Type(s) ==
  /\ postAt[s] = "fgets" /\ typedLeft[s] = <<>> /\ lineNo[s] < MaxPosts
  /\ lineNo' = [lineNo EXCEPT ![s] = @ + 1]
  /\ \E n \in TypedLengths : \E ended \in BOOLEAN :
       /\ ended \/ (n > 0 /\ lineNo'[s] = MaxPosts)
       /\ typedLeft' = [typedLeft EXCEPT ![s] =
            [k \in 1 .. n |-> <<s, lineNo'[s]>>] \o (IF ended THEN <<NL>> ELSE <<>>)]
  /\ UNCHANGED <<postAt, myId, keptVars, watchVars>>

Unended(t) == t[Len(t)] # NL
Start(t)   == SubSeq(t, 1, Len(t) - 1)
LastOf(ts) == ts[Len(ts)]

\* Mutant of Terminated: the newline is cut off and nothing put in its place.
CutOnly(t) == IF Unended(t) THEN t ELSE Start(t)
Terminated(t) == IF Unended(t) THEN t ELSE Append(Start(t), Nul)

\* fgets takes up to MSG_LENGTH - 1 characters, the rest next time.  One
\* character ends the sender: an empty line, and the newline of a line that
\* fills the buffer but for it.
Fgets(s) ==
  LET n    == IF Len(typedLeft[s]) < MsgLength THEN Len(typedLeft[s]) ELSE MsgLength - 1
      text == SubSeq(typedLeft[s], 1, n)
  IN /\ postAt[s] = "fgets" /\ n > 0
     /\ typedLeft' = [typedLeft EXCEPT ![s] = SubSeq(@, n + 1, Len(@))]
     /\ IF n = 1
        THEN postAt' = [postAt EXCEPT ![s] = "remove"] /\ UNCHANGED taken
        ELSE /\ postAt' = [postAt EXCEPT ![s] = "msgsnd"]
             /\ taken' = [taken EXCEPT ![s] = Append(@, text)]
     /\ UNCHANGED <<myId, lineNo, queueId, lastId, messages, posted, watchVars>>

EndOfInput(s) ==
  /\ postAt[s] = "fgets" /\ typedLeft[s] = <<>> /\ postAt' = [postAt EXCEPT ![s] = "remove"]
  /\ UNCHANGED <<myId, typedLeft, lineNo, keptVars, watchVars>>

\* msgsnd waits while the queue is full; what it returns is printed, no more.
Send(s) ==
  /\ postAt[s] = "msgsnd" /\ postAt' = [postAt EXCEPT ![s] = "fgets"]
  /\ IF myId[s] = queueId
     THEN /\ messages' = Append(messages, Terminated(LastOf(taken[s])))
          /\ posted' = Append(posted, LastOf(taken[s]))
     ELSE UNCHANGED <<messages, posted>>
  /\ UNCHANGED <<myId, typedLeft, lineNo, queueId, lastId, taken, watchVars>>

\* msgctl with IPC_RMID: the first sender that ends removes the queue for all.
RemoveQueue(s) ==
  /\ postAt[s] = "remove" /\ postAt' = [postAt EXCEPT ![s] = "over"]
  /\ IF myId[s] = queueId
     THEN queueId' = 0 /\ messages' = <<>> /\ posted' = <<>>
     ELSE UNCHANGED <<queueId, messages, posted>>
  /\ UNCHANGED <<myId, typedLeft, lineNo, lastId, taken, watchVars>>

Kill(s) ==
  /\ postAt[s] # "over" /\ postAt' = [postAt EXCEPT ![s] = "over"]
  /\ UNCHANGED <<myId, typedLeft, lineNo, keptVars, watchVars>>

-----------------------------------------------------------------------------
(* The receiver                                                            *)

Watch ==
  /\ watchAt = "start" /\ queueId # 0
  /\ watchAt' = "msgrcv" /\ watchId' = queueId
  /\ UNCHANGED <<postVars, keptVars, shownBuf, shownText>>

\* What printf("%s") prints of b: all before the first \0.
Printed(b) ==
  LET text == {n \in 0 .. MsgLength : \A k \in 1 .. n : b[k] # Nul}
  IN SubSeq(b, 1, CHOOSE n \in text : \A m \in text : m <= n)

\* The message is copied over what was there.
Receive ==
  LET m == Head(messages) IN
  /\ watchAt = "msgrcv" /\ watchId = queueId /\ messages # <<>>
  /\ messages' = Tail(messages)
  /\ shownBuf' = [k \in 1 .. MsgLength |-> IF k <= Len(m) THEN m[k] ELSE shownBuf[k]]
  /\ shownText' = Append(shownText, Printed(shownBuf'))
  /\ UNCHANGED <<postVars, queueId, lastId, posted, taken, watchAt, watchId>>

\* The queue has been removed.
ReceiveFails ==
  /\ watchAt = "msgrcv" /\ watchId # queueId /\ watchAt' = "over"
  /\ UNCHANGED <<postVars, keptVars, watchId, shownBuf, shownText>>

-----------------------------------------------------------------------------
Sender(s) == Get(s) \/ Type(s) \/ Fgets(s) \/ EndOfInput(s) \/ Send(s) \/ RemoveQueue(s)

Next ==
  \/ \E s \in Senders : Sender(s) \/ Kill(s)
  \/ Watch \/ Receive \/ ReceiveFails

Spec == Init /\ [][Next]_messageVars

-----------------------------------------------------------------------------
\* The messages of s among the first k that have been posted.
Sent(s, k) == Cardinality({j \in 1 .. k : posted[j][1][1] = s})

\* As long as the queue is there, all that each sender has read is in it or has
\* been received, in its order, but for the one it is killed before it can post;
\* and the receiver prints each message as it was typed.  Only text without a
\* newline can have the end of an earlier message behind it.
MessagesWhole ==
  /\ \A s \in Senders :
       myId[s] = queueId /\ queueId # 0 =>
         LET unsent == Len(taken[s]) - Sent(s, Len(posted))
         IN /\ CASE postAt[s] = "over"   -> unsent \in {0, 1}
                 [] postAt[s] = "msgsnd" -> unsent = 1
                 [] OTHER                -> unsent = 0
            /\ \A k \in 1 .. Len(posted) :
                 posted[k][1][1] = s => posted[k] = taken[s][Sent(s, k)]
  /\ watchId = queueId /\ queueId # 0 =>
       /\ Len(shownText) + Len(messages) = Len(posted)
       /\ \A k \in 1 .. Len(shownText) :
            IF Unended(posted[k])
            THEN \A n \in 1 .. Len(posted[k]) : n <= Len(shownText[k]) /\ shownText[k][n] = posted[k][n]
            ELSE shownText[k] = Start(posted[k])
=============================================================================
