----------------------------- MODULE ForkServer -----------------------------
(***************************************************************************)
(* The process-per-client server of linux-c-np-geektime/chapter25          *)
(* (fork_server.c).  The parent accepts and forks; a connection is a       *)
(* socket that lives as long as some process holds a descriptor of it.     *)
(* A child that exits is a zombie until the parent's SIGCHLD handler, which *)
(* may interrupt the parent anywhere, has waited for it.                   *)
(*                                                                         *)
(* signal() restarts accept() after the handler (BSD semantics, gnu99).    *)
(* What a child does with the bytes of its client is left out: it is the   *)
(* loop of chapter26/loop_echo.c, see ThreadsServer.                       *)
(***************************************************************************)
EXTENDS Integers

CONSTANTS
  Conns,   \* bound: the connections clients make, one each
  Listen,  \* the listening socket
  Parent   \* the parent process; a child is named after its client

VARIABLES
  parentAt,  \* "accept", "fork" or "close": where the parent's loop is
  taken,     \* client_fd; Listen before the first accept
  backlog,   \* connections that wait for accept()
  childAt,   \* "none", "close" (server_fd), "run", "zombie" or "reaped"
  holds,     \* per process, the sockets it has a descriptor of
  handling,  \* the parent is in child_exit_signal_handler
  sigchld,   \* a SIGCHLD is pending: one bit, however many children exit
  finished   \* clients that have closed or reset their connection

forkVars == <<parentAt, taken, backlog, childAt, holds, handling, sigchld, finished>>

Processes == Conns \union {Parent}

ForkTypeOK ==
  /\ parentAt \in {"accept", "fork", "close"}
  /\ taken \in Conns \union {Listen}
  /\ backlog \subseteq Conns /\ finished \subseteq Conns
  /\ childAt \in [Conns -> {"none", "close", "run", "zombie", "reaped"}]
  /\ holds \in [Processes -> SUBSET (Conns \union {Listen})]
  /\ handling \in BOOLEAN /\ sigchld \in BOOLEAN

Init ==
  /\ parentAt = "accept" /\ taken = Listen /\ backlog = {} /\ finished = {}
  /\ childAt = [c \in Conns |-> "none"]
  /\ holds = [p \in Processes |-> IF p = Parent THEN {Listen} ELSE {}]
  /\ handling = FALSE /\ sigchld = FALSE

Exited == {c \in Conns : childAt[c] \in {"zombie", "reaped"}}
Holders(s) == {p \in Processes : s \in holds[p]}

-----------------------------------------------------------------------------
(* The parent, when it is not in the handler                               *)

Accept ==
  /\ ~handling /\ parentAt = "accept"
  /\ \E c \in backlog :
       /\ taken' = c /\ backlog' = backlog \ {c}
       /\ holds' = [holds EXCEPT ![Parent] = @ \union {c}]
  /\ parentAt' = "fork"
  /\ UNCHANGED <<childAt, handling, sigchld, finished>>

\* fork() copies every descriptor of the parent; when it fails the parent
\* goes on all the same.
Fork ==
  /\ ~handling /\ parentAt = "fork"
  /\ parentAt' = "close"
  /\ \/ /\ childAt' = [childAt EXCEPT ![taken] = "close"]
        /\ holds' = [holds EXCEPT ![taken] = holds[Parent]]
     \/ UNCHANGED <<childAt, holds>>
  /\ UNCHANGED <<taken, backlog, handling, sigchld, finished>>

\* Mutant of ParentCloses: the parent keeps its descriptor.
ParentKeeps ==
  /\ ~handling /\ parentAt = "close"
  /\ parentAt' = "accept"
  /\ UNCHANGED <<taken, backlog, childAt, holds, handling, sigchld, finished>>

ParentCloses ==
  /\ ~handling /\ parentAt = "close"
  /\ holds' = [holds EXCEPT ![Parent] = @ \ {taken}]
  /\ parentAt' = "accept"
  /\ UNCHANGED <<taken, backlog, childAt, handling, sigchld, finished>>

-----------------------------------------------------------------------------
(* child_exit_signal_handler                                               *)

\* SIGCHLD is blocked while its handler runs.
HandlerStarts ==
  /\ sigchld /\ ~handling
  /\ handling' = TRUE /\ sigchld' = FALSE
  /\ UNCHANGED <<parentAt, taken, backlog, childAt, holds, finished>>

Zombies == {c \in Conns : childAt[c] = "zombie"}

\* Mutant of WaitPid: waitpid is called once.
WaitPidOnce ==
  /\ handling
  /\ childAt' \in IF Zombies = {} THEN {childAt}
                  ELSE {[childAt EXCEPT ![c] = "reaped"] : c \in Zombies}
  /\ handling' = FALSE
  /\ UNCHANGED <<parentAt, taken, backlog, holds, sigchld, finished>>

\* One call of waitpid: a zombie is reaped, or there is none and it is over.
WaitPid ==
  /\ handling
  /\ \/ \E c \in Zombies : childAt' = [childAt EXCEPT ![c] = "reaped"]
     \/ Zombies = {} /\ UNCHANGED childAt
  /\ handling' = (Zombies # {})
  /\ UNCHANGED <<parentAt, taken, backlog, holds, sigchld, finished>>

-----------------------------------------------------------------------------
(* The children and the clients                                            *)

ChildCloses(c) ==
  /\ childAt[c] = "close"
  /\ childAt' = [childAt EXCEPT ![c] = "run"]
  /\ holds' = [holds EXCEPT ![c] = @ \ {Listen}]
  /\ UNCHANGED <<parentAt, taken, backlog, handling, sigchld, finished>>

\* child_run ends when recv returns 0 or -1; exit closes what is left open.
ChildExits(c) ==
  /\ childAt[c] = "run" /\ c \in finished
  /\ childAt' = [childAt EXCEPT ![c] = "zombie"]
  /\ holds' = [holds EXCEPT ![c] = {}]
  /\ sigchld' = TRUE
  /\ UNCHANGED <<parentAt, taken, backlog, handling, finished>>

Connected == {c \in Conns : c \in backlog \/ childAt[c] # "none" \/ Holders(c) # {}}

Connect(c) ==
  /\ c \notin Connected \union finished
  /\ backlog' = backlog \union {c}
  /\ UNCHANGED <<parentAt, taken, childAt, holds, handling, sigchld, finished>>

ClientFinishes(c) ==
  /\ c \in Connected \ finished
  /\ finished' = finished \union {c}
  /\ UNCHANGED <<parentAt, taken, backlog, childAt, holds, handling, sigchld>>

-----------------------------------------------------------------------------
ParentStep == Accept \/ Fork \/ ParentCloses
Handler    == HandlerStarts \/ WaitPid
Child(c)   == ChildCloses(c) \/ ChildExits(c)
Client(c)  == Connect(c) \/ ClientFinishes(c)

Next == ParentStep \/ Handler \/ \E c \in Conns : Child(c) \/ Client(c)

Spec == Init /\ [][Next]_forkVars

-----------------------------------------------------------------------------
\* No zombie is left without a handler that will find it: children that exit
\* together send one SIGCHLD, and one may exit after the last waitpid.
NoZombieForgotten == Zombies # {} => sigchld \/ handling

\* Every child that has exited is reaped: from any moment on there comes one
\* without zombies, and a child is one only once.
EveryChildReaped == []<>(Zombies = {})

\* A connection is closed, and its client told so, when its child has exited
\* and the parent is done with it: no other process was left holding a copy.
ClosedWithChild ==
  /\ \A c \in Exited : Holders(c) # {} => parentAt = "close" /\ taken = c
  /\ \A c \in Conns : childAt[c] = "run" => holds[c] = {c}
=============================================================================
