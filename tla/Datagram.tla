------------------------------ MODULE Datagram ------------------------------
(***************************************************************************)
(* The datagram programs of linux-c-np-geektime: the client and the server *)
(* of chapter06, those of chapter07 over local sockets, and those of       *)
(* chapter14 whose sockets are connected.  Clients ask one question at a   *)
(* time and wait for an answer without a timeout; the network may lose,    *)
(* duplicate and reorder datagrams, local sockets do not.                  *)
(***************************************************************************)
EXTENDS Integers, Sequences

CONSTANTS
  Hosts, NoHost,
  MaxQuestions,   \* bound: lines typed at each client
  MaxDuplicates   \* bound: datagrams delivered twice

VARIABLES
  chapter,     \* 6, 7 or 14: the programs that run
  net,         \* datagrams under way
  duplicates,  \* of those delivered, how many will be delivered again
  inbox,       \* the receive queue of the server's socket
  serverAt,    \* "serve" (chapter 6), or "first", "connect", "send", "recv", "end"
  received,    \* receive_buffer, with the sender of the first datagram
  peer,        \* the address the server's socket is connected to
  clientAt,    \* "ask", "wait" or "end"
  asked,       \* questions each client has asked
  mailbox,     \* the receive queue of each client's socket
  refused,     \* a pending ICMP error of a socket; NoHost: the server's
  shown        \* history: the answers each client has printed

netVars    == <<net, duplicates>>
udpServer  == <<inbox, serverAt, received, peer>>
udpClient  == <<clientAt, asked, mailbox, shown>>
udpVars    == <<chapter, netVars, udpServer, udpClient, refused>>

\* A question is known by its client and its number; the answer repeats it.
\* bye: the question begins with "goodbye".
Questions == [from : Hosts, no : 1 .. MaxQuestions, bye : BOOLEAN]
Datagrams == [to : Hosts \union {NoHost}, text : Questions]   \* NoHost: the server
Nothing   == [from |-> NoHost, no |-> 0, bye |-> FALSE]

UdpTypeOK ==
  /\ chapter \in {6, 7, 14}
  /\ net \subseteq Datagrams /\ duplicates \in 0 .. MaxDuplicates
  /\ inbox \in Seq(Questions)
  /\ serverAt \in {"serve", "first", "connect", "send", "recv", "end"}
  /\ received \in Questions \union {Nothing} /\ peer \in Hosts \union {NoHost}
  /\ clientAt \in [Hosts -> {"ask", "wait", "end"}]
  /\ asked \in [Hosts -> 0 .. MaxQuestions]
  /\ refused \in [Hosts \union {NoHost} -> BOOLEAN]
  /\ \A c \in Hosts : {mailbox[c], shown[c]} \subseteq Seq(Questions)

Init ==
  /\ chapter \in {6, 7, 14}
  /\ net = {} /\ duplicates = 0 /\ inbox = <<>>
  /\ serverAt = IF chapter = 14 THEN "first" ELSE "serve"
  /\ received = Nothing /\ peer = NoHost
  /\ clientAt = [c \in Hosts |-> "ask"] /\ asked = [c \in Hosts |-> 0]
  /\ mailbox = [c \in Hosts |-> <<>>] /\ refused = [c \in Hosts \union {NoHost} |-> FALSE]
  /\ shown = [c \in Hosts |-> <<>>]

ToServer(q)  == [to |-> NoHost, text |-> q]
Answer(c, q) == [to |-> c, text |-> q]

-----------------------------------------------------------------------------
(* The network and the sockets' receive queues                             *)

Unreliable == chapter # 7

\* A connected socket takes datagrams of its peer only, one that is closed none.
Refuses(q) == serverAt = "end" \/ (peer # NoHost /\ q.from # peer)

\* The datagram is not needed any more, or is delivered once more later.
Consumed(d) ==
  \/ net' = net \ {d} /\ UNCHANGED duplicates
  \/ Unreliable /\ duplicates < MaxDuplicates /\ duplicates' = duplicates + 1 /\ UNCHANGED net

\* A refused datagram is reported to a connected socket, all those of chapter 14.
Reported(sender) ==
  [refused EXCEPT ![sender] = chapter = 14 /\ (sender = NoHost => serverAt # "end")]

DeliverQuestion ==
  \E d \in net :
    /\ d.to = NoHost /\ Consumed(d)
    /\ IF Refuses(d.text)
       THEN refused' = Reported(d.text.from) /\ UNCHANGED inbox
       ELSE inbox' = Append(inbox, d.text) /\ UNCHANGED refused
    /\ UNCHANGED <<chapter, serverAt, received, peer, udpClient>>

DeliverAnswer ==
  \E d \in net :
    /\ d.to # NoHost /\ Consumed(d)
    /\ IF clientAt[d.to] = "end"
       THEN refused' = Reported(NoHost) /\ UNCHANGED mailbox
       ELSE mailbox' = [mailbox EXCEPT ![d.to] = Append(@, d.text)] /\ UNCHANGED refused
    /\ UNCHANGED <<chapter, udpServer, clientAt, asked, shown>>

Lose ==
  /\ Unreliable
  /\ \E d \in net : net' = net \ {d}
  /\ UNCHANGED <<chapter, duplicates, udpServer, udpClient, refused>>

-----------------------------------------------------------------------------
(* The servers                                                             *)

\* recvfrom, and sendto to the address it filled in
AnswerOne ==
  /\ serverAt = "serve" /\ inbox # <<>>
  /\ received' = Head(inbox) /\ inbox' = Tail(inbox)
  /\ net' = net \union {Answer(Head(inbox).from, Head(inbox))}
  /\ UNCHANGED <<chapter, duplicates, serverAt, peer, udpClient, refused>>

Serve      == chapter = 6 /\ AnswerOne
ServeLocal == chapter = 7 /\ AnswerOne /\ clientAt[Head(inbox).from] # "end"

\* Over local sockets sendto fails when the client's is closed: error(1).  The
\* clients send no empty datagram, which would end the server too.
LocalFails ==
  /\ chapter = 7 /\ serverAt = "serve" /\ inbox # <<>>
  /\ clientAt[Head(inbox).from] = "end"
  /\ received' = Head(inbox) /\ inbox' = Tail(inbox) /\ serverAt' = "end"
  /\ UNCHANGED <<chapter, netVars, peer, udpClient, refused>>

Receive(from, to) ==
  /\ serverAt = from /\ inbox # <<>>
  /\ received' = Head(inbox) /\ inbox' = Tail(inbox)
  /\ serverAt' = to
  /\ UNCHANGED <<chapter, netVars, peer, udpClient, refused>>

\* chapter14: the first datagram decides whom the socket is connected to ...
ReceiveFirst == Receive("first", "connect")

Loop == IF received.bye THEN "end" ELSE "send"

ConnectPeer ==
  /\ serverAt = "connect"
  /\ peer' = received.from /\ serverAt' = Loop
  /\ UNCHANGED <<chapter, netVars, inbox, received, udpClient, refused>>

\* ... and every answer is sent to, until it says goodbye.
Send ==
  /\ serverAt = "send" /\ ~refused[NoHost]
  /\ net' = net \union {Answer(peer, received)}
  /\ serverAt' = "recv"
  /\ UNCHANGED <<chapter, duplicates, inbox, received, peer, udpClient, refused>>

ReceiveNext ==
  /\ inbox # <<>> /\ ~refused[NoHost]
  /\ Receive("recv", IF Head(inbox).bye THEN "end" ELSE "send")

\* The error is reported to the next send or recv, and the server exits.
ServerRefused ==
  /\ refused[NoHost] /\ serverAt \in {"send", "recv"}
  /\ serverAt' = "end" /\ refused' = [refused EXCEPT ![NoHost] = FALSE]
  /\ UNCHANGED <<chapter, netVars, inbox, received, peer, udpClient>>

-----------------------------------------------------------------------------
(* The clients                                                             *)

AskOne(c, bye) ==
  /\ clientAt[c] = "ask" /\ asked[c] < MaxQuestions /\ ~refused[c]
  /\ asked' = [asked EXCEPT ![c] = @ + 1]
  /\ net' = net \union {ToServer([from |-> c, no |-> asked'[c], bye |-> bye])}
  /\ clientAt' = [clientAt EXCEPT ![c] = "wait"]
  /\ UNCHANGED <<chapter, duplicates, udpServer, mailbox, refused, shown>>

\* Only the server of chapter14 looks whether a question is a goodbye.
Ask(c, bye)  == Unreliable /\ (bye => chapter = 14) /\ AskOne(c, bye)
AskLocal(c)  == chapter = 7 /\ serverAt # "end" /\ AskOne(c, FALSE)

\* Mutant of ShowAnswer: it does not wait when nothing has come yet.
ShowAnswerNow(c) ==
  /\ clientAt[c] = "wait" /\ ~refused[c]
  /\ IF mailbox[c] = <<>> THEN UNCHANGED <<shown, mailbox>>
     ELSE /\ shown' = [shown EXCEPT ![c] = Append(@, Head(mailbox[c]))]
          /\ mailbox' = [mailbox EXCEPT ![c] = Tail(@)]
  /\ clientAt' = [clientAt EXCEPT ![c] = "ask"]
  /\ UNCHANGED <<chapter, netVars, udpServer, asked, refused>>

\* recv returns the oldest datagram, whatever question it answers.
ShowAnswer(c) ==
  /\ clientAt[c] = "wait" /\ ~refused[c] /\ mailbox[c] # <<>>
  /\ shown' = [shown EXCEPT ![c] = Append(@, Head(mailbox[c]))]
  /\ mailbox' = [mailbox EXCEPT ![c] = Tail(@)]
  /\ clientAt' = [clientAt EXCEPT ![c] = "ask"]
  /\ UNCHANGED <<chapter, netVars, udpServer, asked, refused>>

\* So does a client, before it looks at its mailbox; and one whose sendto finds the
\* local socket of the server closed.
Refused(c) ==
  /\ \/ refused[c] /\ clientAt[c] = "wait"
     \/ (refused[c] \/ (chapter = 7 /\ serverAt = "end"))
        /\ clientAt[c] = "ask" /\ asked[c] < MaxQuestions
  /\ clientAt' = [clientAt EXCEPT ![c] = "end"]
  /\ UNCHANGED <<chapter, netVars, udpServer, asked, mailbox, refused, shown>>

\* The end of standard input, or the user stops a client that waits.
Quit(c) ==
  /\ clientAt[c] # "end"
  /\ clientAt' = [clientAt EXCEPT ![c] = "end"]
  /\ UNCHANGED <<chapter, netVars, udpServer, asked, mailbox, refused, shown>>

-----------------------------------------------------------------------------
UdpServer == \/ Serve \/ ServeLocal \/ LocalFails
             \/ ReceiveFirst \/ ConnectPeer \/ Send \/ ReceiveNext \/ ServerRefused
UdpClient(c) == AskLocal(c) \/ ShowAnswer(c) \/ Refused(c) \/ Quit(c) \/ \E bye \in BOOLEAN : Ask(c, bye)

Next ==
  \/ DeliverQuestion \/ DeliverAnswer \/ Lose
  \/ UdpServer
  \/ \E c \in Hosts : UdpClient(c)

Spec == Init /\ [][Next]_udpVars

-----------------------------------------------------------------------------
\* The servers of chapters 6 and 7 answer whoever asked, that of chapter 14 only the
\* client its socket is connected to; and while nothing is duplicated the answer
\* that a client of chapters 6 and 7 prints is that to the question it has just
\* asked, whatever was lost or overtaken.
AnswersFit ==
  \A c \in Hosts : \A k \in 1 .. Len(shown[c]) :
    /\ IF chapter = 14 THEN c = peer ELSE shown[c][k].from = c
    /\ chapter # 14 /\ duplicates = 0 => shown[c][k].no = k

\* Once connected, the server of chapter 14 takes no other client's questions.
OneToOne == serverAt = "send" => received.from = peer
=============================================================================
