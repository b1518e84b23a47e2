----------------------------- MODULE Heartbeat -----------------------------
(***************************************************************************)
(* The keep-alive of linux-c-np-geektime/chapter12: ping_client.c sends a  *)
(* PING when it has heard nothing for some time and gives up when several  *)
(* of them stay without an answer; ping_server.c sleeps before each PONG.  *)
(*                                                                         *)
(* Time passes in seconds.  Messages take any time to arrive.  select()    *)
(* leaves in its timeout what is left of it (Linux).                       *)
(***************************************************************************)
EXTENDS Integers

CONSTANTS
  KeepAliveTime,      \* KEEP_ALIVE_TIME
  KeepAliveInterval,  \* KEEP_ALIVE_INTERVAL
  ProbeTimes,         \* KEEP_ALIVE_PROBE_TIMES
  SleepingTimes,      \* the values of the server's argument
  MaxWaiting          \* bound: of more unread messages only so many are counted

VARIABLES
  clientAt,       \* "select", "dead" (server is dead) or "ended"
  timeout,        \* the client's timeval
  heartbeats,     \* heartbeat_count
  typed,          \* a line is waiting on standard input
  silence,        \* history: seconds since the server was last heard of
  serverAt,       \* "read", "sleep", "ended" (exited or crashed) or "gone" (unreachable);
                  \* "reset", "told": after the end, a reset on its way or read
  nap,            \* what is left of sleep(sleeping_time)
  sleeping_time,
  pings, pongs    \* messages sent and not yet read

clientVars == <<clientAt, timeout, heartbeats, typed, silence>>
serverVars == <<serverAt, nap, sleeping_time>>
pingVars   == <<clientVars, serverVars, pings, pongs>>

PatienceTime == KeepAliveTime + ProbeTimes * KeepAliveInterval
OneMore(n)   == IF n < MaxWaiting THEN n + 1 ELSE n

PingTypeOK ==
  /\ clientAt \in {"select", "dead", "ended"}
  /\ timeout \in (0 .. KeepAliveTime) \union (0 .. KeepAliveInterval)
  /\ heartbeats \in 0 .. ProbeTimes + 1
  /\ typed \in BOOLEAN /\ silence \in 0 .. PatienceTime + 1
  /\ serverAt \in {"read", "sleep", "ended", "gone", "reset", "told"}
  /\ sleeping_time \in SleepingTimes /\ nap \in 0 .. sleeping_time
  /\ pings \in 0 .. MaxWaiting /\ pongs \in 0 .. MaxWaiting

\* connected and accepted
Init ==
  /\ clientAt = "select" /\ timeout = KeepAliveTime /\ heartbeats = 0
  /\ typed = FALSE /\ silence = 0
  /\ serverAt = "read" /\ nap = 0 /\ sleeping_time \in SleepingTimes
  /\ pings = 0 /\ pongs = 0

-----------------------------------------------------------------------------
(* The client                                                              *)

\* Mutants of TimedOut: each PING starts the count again; one PING fewer.
TimedOutForgets ==
  /\ clientAt = "select" /\ timeout = 0 /\ ~typed /\ serverAt # "told"
  /\ heartbeats' = 1 /\ pings' = OneMore(pings)
  /\ timeout' = KeepAliveInterval
  /\ UNCHANGED <<clientAt, typed, silence, serverVars, pongs>>

TimedOutEarly ==
  /\ clientAt = "select" /\ timeout = 0 /\ ~typed /\ serverAt # "told"
  /\ heartbeats' = heartbeats + 1
  /\ IF heartbeats' >= ProbeTimes
     THEN clientAt' = "dead" /\ UNCHANGED <<timeout, pings>>
     ELSE pings' = OneMore(pings) /\ timeout' = KeepAliveInterval /\ UNCHANGED clientAt
  /\ UNCHANGED <<typed, silence, serverVars, pongs>>

\* select returns 0.  The bytes of a PING to a server that is not there stay
\* with the client's kernel.
TimedOut ==
  /\ clientAt = "select" /\ timeout = 0 /\ ~typed /\ serverAt # "told"
  /\ heartbeats' = heartbeats + 1
  /\ IF heartbeats' > ProbeTimes
     THEN clientAt' = "dead" /\ UNCHANGED <<timeout, pings>>
     ELSE pings' = OneMore(pings) /\ timeout' = KeepAliveInterval /\ UNCHANGED clientAt
  /\ UNCHANGED <<typed, silence, serverVars, pongs>>

\* The socket is readable: whatever has arrived is read at once.
ClientReads ==
  /\ clientAt = "select" /\ pongs > 0
  /\ \E n \in 1 .. pongs : pongs' = pongs - n
  /\ heartbeats' = 0 /\ timeout' = KeepAliveTime /\ silence' = 0
  /\ UNCHANGED <<clientAt, typed, serverVars, pings>>

\* After a reset read() returns -1, which is not < 0 in a size_t: a message.
ResetRead ==
  /\ clientAt = "select" /\ serverAt = "reset" /\ pongs = 0
  /\ heartbeats' = 0 /\ timeout' = KeepAliveTime /\ serverAt' = "told"
  /\ UNCHANGED <<clientAt, typed, silence, nap, sleeping_time, pings, pongs>>

\* The end of the stream, or the read after that of a reset: "server terminated".
ServerTerminated ==
  /\ clientAt = "select" /\ serverAt \in {"ended", "told"} /\ pongs = 0
  /\ clientAt' = "ended"
  /\ UNCHANGED <<timeout, heartbeats, typed, silence, serverVars, pings, pongs>>

\* A line on standard input is never read: from now on select returns at once,
\* with 1, however little is left of the timeout.
Typed ==
  /\ clientAt = "select" /\ ~typed
  /\ typed' = TRUE
  /\ UNCHANGED <<clientAt, timeout, heartbeats, silence, serverVars, pings, pongs>>

-----------------------------------------------------------------------------
(* The server                                                              *)

\* read() takes up to MAX_LINE bytes, which several PINGs fit in, into one
\* messageObject: with more than one the rest is lost, or the server crashes.
ServerReads ==
  /\ serverAt = "read" /\ pings > 0
  /\ \E n \in 1 .. pings :
       /\ pings' = pings - n
       /\ \/ serverAt' = "sleep" /\ nap' = sleeping_time
          \/ n > 1 /\ serverAt' = "ended" /\ UNCHANGED nap
  /\ UNCHANGED <<clientVars, sleeping_time, pongs>>

ServerAnswers ==
  /\ serverAt = "sleep" /\ nap = 0
  /\ serverAt' = "read" /\ pongs' = OneMore(pongs)
  /\ UNCHANGED <<clientVars, nap, sleeping_time, pings>>

\* An exit of the client with answers unread is a reset: the message of -1 bytes has
\* the type 0, which is unknown.
ClientClosed ==
  /\ serverAt = "read" /\ clientAt # "select" /\ (pings = 0 \/ pongs > 0)
  /\ serverAt' = "ended"
  /\ UNCHANGED <<clientVars, nap, sleeping_time, pings, pongs>>

\* The kernel of the server's machine answers a PING that nobody can read.
ServerResets ==
  /\ serverAt = "ended" /\ pings > 0
  /\ serverAt' = "reset" /\ pings' = 0
  /\ UNCHANGED <<clientVars, nap, sleeping_time, pongs>>

\* The machine of the server, or the way to it, is gone: nothing arrives any more.
ServerGone ==
  /\ serverAt \in {"read", "sleep"}
  /\ serverAt' = "gone" /\ nap' = 0 /\ pongs' = 0
  /\ UNCHANGED <<clientVars, sleeping_time, pings>>

-----------------------------------------------------------------------------
Less(n) == IF n > 0 THEN n - 1 ELSE 0

\* A second passes, unless select or sleep would have returned before.
Tick ==
  /\ clientAt = "select" /\ (timeout > 0 \/ typed) /\ serverAt # "told"
  /\ serverAt = "sleep" => nap > 0
  /\ timeout' = Less(timeout) /\ nap' = Less(nap)
  /\ silence' = IF silence > PatienceTime THEN silence ELSE silence + 1
  /\ UNCHANGED <<clientAt, heartbeats, typed, serverAt, sleeping_time, pings, pongs>>

PingClient == TimedOut \/ ClientReads \/ ResetRead \/ ServerTerminated
PingServer == ServerReads \/ ServerAnswers \/ ClientClosed

Next == PingClient \/ PingServer \/ Typed \/ ServerResets \/ ServerGone \/ Tick

Spec == Init /\ [][Next]_pingVars

-----------------------------------------------------------------------------
\* The server is given up only after it has not been heard of for the whole
\* time: KEEP_ALIVE_TIME and an interval for each of the PINGs.
DeadMeansSilent == clientAt = "dead" => silence >= PatienceTime

\* A server that is gone is noticed, unless something was typed.
GoneIsNoticed == serverAt = "gone" ~> clientAt # "select" \/ typed
=============================================================================
