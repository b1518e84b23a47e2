--------------------------- MODULE EventLoopProofs ---------------------------
(***************************************************************************)
(* Proofs about EventLoop for every set of posters and channels, every     *)
(* assignment of descriptors and every set of faults.                      *)
(***************************************************************************)
EXTENDS EventLoop, SequenceTheorems, TLAPS

\* channel_map_make_space finds a length, and it is above fd.
LEMMA GrownProperty ==
  ASSUME NEW fd \in Fds
  PROVE  Grown(fd) \in MapLengths /\ Grown(fd) > fd
<1>1. \E n \in MapLengths : n > fd /\ \A m \in MapLengths : m > fd => n <= m
  BY LengthsAssumption
<1>. QED
  BY <1>1 DEF Grown

\* A descriptor other than -1 is one of Fds.
LEMMA FdRange ==
  /\ \A c \in Channels : FdOf[c] = -1 \/ FdOf[c] \in Fds
  /\ Fds \subseteq Nat
  /\ FdOf[Notify] \in Fds
  /\ \A c \in Channels : FdOf[c] < 0 <=> FdOf[c] = -1
BY ChannelsAssumption DEF Fds

-----------------------------------------------------------------------------
(* Type correctness                                                        *)

LEMMA TypeInit == Init => TypeOK
<1>. SUFFICES ASSUME Init PROVE TypeOK
  OBVIOUS
<1>1. QueueType
  <2>1. <<>> \in Seq(Ops) /\ Len(<<>>) = 0
    OBVIOUS
  <2>2. mutex \in Threads \union {NoThread}
    BY DEF Init
  <2>3. handling \in BOOLEAN
    BY DEF Init
  <2>4. pending \in Seq(Ops) /\ node \in 1 .. Len(pending) + 1
    BY <2>1 DEF Init
  <2>. QED
    BY <2>2, <2>3, <2>4 DEF QueueType
<1>2. TableType
  BY DEF Init, TableType
<1>3. ChanType
  BY FdRange, ChannelsAssumption DEF Init, ChanType, Events
<1>4. RoundType
  BY FdRange, ChannelsAssumption DEF Init, RoundType, Entries
<1>5. PcType
  BY ThreadsAssumption DEF Init, PcType, OwnerPcs, PosterPcs, Threads
<1>6. CallType
  BY ThreadsAssumption, ChannelsAssumption
     DEF Init, CallType, Op, Ops, OpTypes, Threads
<1>7. bytes \in 0 .. SocketCap
  BY LimitsAssumption DEF Init
<1>8. published \in BOOLEAN /\ proc \in {"running", "aborted", "exited"}
  BY DEF Init
<1>. QED
  BY <1>1, <1>2, <1>3, <1>4, <1>5, <1>6, <1>7, <1>8 DEF TypeOK

\* A jump to a label of the thread's own program keeps PcType.
LEMMA GotoType ==
  ASSUME PcType, NEW t \in Threads, NEW label, Goto(t, label),
         t = Owner => label \in OwnerPcs,
         t # Owner => label \in PosterPcs
  PROVE  PcType'
BY ThreadsAssumption DEF PcType, Goto, Threads

\* So does the call of event_loop_*_channel_event, whoever posts.
LEMMA PostType ==
  ASSUME PcType, CallType, NEW t \in Threads, NEW type \in OpTypes,
         NEW c \in Channels, NEW back, Post(t, type, c, back),
         t = Owner => back \in {"init_done", "wait", "callback", "created"},
         t # Owner => back \in {"created", "idle"}
  PROVE  PcType' /\ CallType'
<1>1. PcType'
  BY GotoType DEF Post, OwnerPcs, PosterPcs
<1>2. CallType'
  BY ThreadsAssumption DEF CallType, Post, Op, Ops, Threads
<1>. QED
  BY <1>1, <1>2

LEMMA EmptyQueue == <<>> \in Seq(Ops) /\ Len(<<>>) = 0
OBVIOUS

LEMMA NotifyIsEntry == NotifyEntry \in Entries
BY FdRange DEF NotifyEntry, Entries, Events

\* What an action leaves alone keeps its type.
LEMMA Frame ==
  /\ QueueType /\ UNCHANGED queueVars => QueueType'
  /\ TableType /\ UNCHANGED tableVars => TableType'
  /\ ChanType /\ UNCHANGED chanVars => ChanType'
  /\ RoundType /\ UNCHANGED roundVars => RoundType'
  /\ PcType /\ UNCHANGED pc => PcType'
  /\ CallType /\ UNCHANGED <<op, ret>> => CallType'
<1>1. QueueType /\ UNCHANGED queueVars => QueueType'
  BY DEF QueueType, queueVars
<1>2. TableType /\ UNCHANGED tableVars => TableType'
  BY DEF TableType, tableVars
<1>3. ChanType /\ UNCHANGED chanVars => ChanType'
  BY DEF ChanType, chanVars
<1>4. RoundType /\ UNCHANGED roundVars => RoundType'
  BY DEF RoundType, roundVars
<1>5. PcType /\ UNCHANGED pc => PcType'
  BY DEF PcType
<1>6. CallType /\ UNCHANGED <<op, ret>> => CallType'
  BY DEF CallType
<1>. QED
  BY <1>1, <1>2, <1>3, <1>4, <1>5, <1>6

\* What the owner does to the map and the dispatcher keeps their types.
LEMMA HandleType ==
  ASSUME TableType, ChanType, NEW c \in Channels,
         proc \in {"running", "aborted", "exited"},
         HandleAdd(c) \/ HandleRemove(c) \/ HandleUpdate(c)
  PROVE  TableType' /\ proc' \in {"running", "aborted", "exited"}
<1>. DEFINE fd == FdOf[c]
<1>1. fd = -1 \/ fd \in Fds
  BY FdRange
<1>2. fd < 0 <=> fd = -1
  BY FdRange
<1>3. ASSUME NEW ok, NEW evs \in SUBSET Events, EpollCtl(fd, ok, evs)
      PROVE  /\ interest' \in [Fds -> SUBSET Events]
             /\ proc' \in {"running", "aborted", "exited"}
  <2>1. CASE ok
    BY <1>3, <2>1 DEF EpollCtl, TableType
  <2>2. CASE ~ok
    BY <1>3, <2>2 DEF EpollCtl, TableType
  <2>. QED
    BY <2>1, <2>2
<1>4. events[c] \in SUBSET Events
  BY DEF ChanType
<1>5. UNCHANGED <<tableVars, proc>> => TableType' /\ proc' = proc
  BY DEF TableType, tableVars
<1>6. CASE HandleAdd(c)
  <2>1. CASE fd = -1
    BY <1>2, <1>5, <1>6, <2>1 DEF HandleAdd
  <2>2. CASE fd \in Fds
    <3>. Grown(fd) \in MapLengths
      BY <2>2, GrownProperty
    <3>. fd \in Nat
      BY <2>2, FdRange
    <3>. fd >= 0 /\ ~(fd < 0)
      OBVIOUS
    <3>1. mapLen' \in MapLengths \union {0}
      <4>1. mapLen' = IF fd >= mapLen THEN Grown(fd) ELSE mapLen
        BY <1>6 DEF HandleAdd
      <4>. QED
        BY <4>1 DEF TableType
    <3>2. CASE map[fd] # NoChannel
      BY <1>2, <1>6, <2>2, <3>1, <3>2, FdRange DEF HandleAdd, TableType
    <3>3. CASE map[fd] = NoChannel
      <4>1. /\ map' = [map EXCEPT ![fd] = c]
            /\ EpollCtl(fd, fd \in open /\ interest[fd] = {}, events[c])
        BY <1>2, <1>6, <2>2, <3>3, FdRange DEF HandleAdd
      <4>2. map' \in [Fds -> Channels \union {NoChannel}]
        BY <4>1 DEF TableType
      <4>. QED
        BY <1>3, <1>4, <3>1, <4>1, <4>2 DEF TableType
    <3>. QED
      BY <3>2, <3>3
  <2>. QED
    BY <1>1, <2>1, <2>2
<1>7. CASE HandleRemove(c)
  <2>1. CASE UNCHANGED <<tableVars, proc>>
    BY <1>5, <2>1
  <2>2. CASE ~UNCHANGED <<tableVars, proc>>
    <3>1. /\ EpollCtl(fd, fd \in open /\ interest[fd] # {}, {})
          /\ map' = [map EXCEPT ![fd] = NoChannel] /\ mapLen' = mapLen
      BY <1>7, <2>2 DEF HandleRemove
    <3>2. map' \in [Fds -> Channels \union {NoChannel}]
      BY <3>1 DEF TableType
    <3>. QED
      BY <1>3, <3>1, <3>2 DEF TableType
  <2>. QED
    BY <2>1, <2>2
<1>8. CASE HandleUpdate(c)
  <2>1. CASE UNCHANGED <<tableVars, proc>>
    BY <1>5, <2>1
  <2>2. CASE ~UNCHANGED <<tableVars, proc>>
    <3>1. /\ EpollCtl(fd, fd \in open /\ interest[fd] # {}, events[c])
          /\ UNCHANGED <<map, mapLen>>
      BY <1>8, <2>2 DEF HandleUpdate
    <3>. QED
      BY <1>3, <1>4, <3>1 DEF TableType
  <2>. QED
    BY <2>1, <2>2
<1>. QED
  BY <1>6, <1>7, <1>8

\* A node of the queue is an ADD, a DELETE or an UPDATE of some channel.
LEMMA HandleCases ==
  ASSUME TypeOK, HandleNode
  PROVE  /\ \E c \in Channels :
              \/ pending[node] = Op("ADD", c) /\ HandleAdd(c)
              \/ pending[node] = Op("DELETE", c) /\ HandleRemove(c)
              \/ pending[node] = Op("UPDATE", c) /\ HandleUpdate(c)
         /\ proc' \in {proc, "exited"}
<1>1. pending[node] \in Ops
  BY DEF TypeOK, QueueType, HandleNode
<1>2. PICK c \in Channels :
        \/ pending[node] = Op("ADD", c) /\ HandleAdd(c)
        \/ pending[node] = Op("DELETE", c) /\ HandleRemove(c)
        \/ pending[node] = Op("UPDATE", c) /\ HandleUpdate(c)
  BY <1>1 DEF HandleNode, Op, Ops, OpTypes
<1>3. proc' \in {proc, "exited"}
  BY <1>2 DEF HandleAdd, HandleRemove, HandleUpdate, EpollCtl
<1>. QED
  BY <1>2, <1>3

\* Every step keeps every variable in its type.
LEMMA TypeStep == TypeOK /\ [Next]_vars => TypeOK'
<1>. SUFFICES ASSUME TypeOK, [Next]_vars PROVE TypeOK'
  OBVIOUS
<1>. USE Frame DEF TypeOK
<1>1. ASSUME NEW t \in Threads, Lock(t) PROVE TypeOK'
  <2>1. QueueType'
    BY <1>1 DEF Lock, QueueType
  <2>2. PcType'
    BY <1>1, GotoType DEF Lock, OwnerPcs, PosterPcs
  <2>. QED
    BY <1>1, <2>1, <2>2 DEF Lock
<1>2. ASSUME NEW t \in Threads, Enqueue(t) PROVE TypeOK'
  <2>1. QueueType'
    BY <1>2 DEF Enqueue, QueueType, CallType
  <2>2. PcType'
    BY <1>2, GotoType DEF Enqueue, OwnerPcs, PosterPcs
  <2>. QED
    BY <1>2, <2>1, <2>2 DEF Enqueue
<1>3. ASSUME NEW t \in Threads, Unlock(t) PROVE TypeOK'
  <2>1. QueueType'
    BY <1>3 DEF Unlock, QueueType
  <2>2. PcType'
    BY <1>3, GotoType DEF Unlock, OwnerPcs, PosterPcs
  <2>. QED
    BY <1>3, <2>1, <2>2 DEF Unlock
<1>4. ASSUME NEW t \in Threads, NewChannel(t) PROVE TypeOK'
  <2>1. ChanType'
    BY <1>4, FdRange DEF NewChannel, ChanType
  <2>2. PcType'
    BY <1>4, GotoType DEF NewChannel, OwnerPcs, PosterPcs
  <2>3. CallType'
    BY <1>4 DEF NewChannel, CallType, Op, Ops, OpTypes
  <2>. QED
    BY <1>4, <2>1, <2>2, <2>3 DEF NewChannel
<1>5. ASSUME NEW t \in Threads, EarlyUpdate(t) PROVE TypeOK'
  <2>1. PcType' /\ CallType'
    BY <1>5, PostType, ThreadsAssumption DEF EarlyUpdate, CallType, Ops, OpTypes
  <2>2. ChanType'
    BY <1>5 DEF EarlyUpdate, ChanType, Events
  <2>. QED
    BY <1>5, <2>1, <2>2 DEF EarlyUpdate
<1>6. ASSUME NEW t \in Threads, PostAdd(t) PROVE TypeOK'
  <2>1. PcType' /\ CallType'
    BY <1>6, PostType DEF PostAdd, CallType, Ops, OpTypes, Home
  <2>. QED
    BY <1>6, <2>1 DEF PostAdd
<1>7. ASSUME NEW t \in Posters, Wakeup(t) PROVE TypeOK'
  <2>1. PcType'
    BY <1>7, GotoType, ThreadsAssumption DEF Wakeup, CallType, PosterPcs, Threads
  <2>2. /\ bytes' \in 0 .. SocketCap
      /\ published' \in BOOLEAN /\ proc' \in {"running", "aborted", "exited"}
    BY <1>7, LimitsAssumption DEF Wakeup
  <2>. QED
    BY <1>7, <2>1, <2>2 DEF Wakeup
<1>8. CASE HandleLock
  <2>1. QueueType'
    BY <1>8 DEF HandleLock, QueueType, Threads
  <2>2. PcType'
    BY <1>8, GotoType DEF HandleLock, OwnerPcs, Threads
  <2>. QED
    BY <1>8, <2>1, <2>2 DEF HandleLock
<1>9. CASE HandleNode
  <2>1. \E c \in Channels : HandleAdd(c) \/ HandleRemove(c) \/ HandleUpdate(c)
    BY <1>9, HandleCases
  <2>2. TableType' /\ proc' \in {"running", "aborted", "exited"}
    BY <1>9, <2>1, HandleType DEF HandleNode, Ops, OpTypes
  <2>3. QueueType'
    BY <1>9 DEF HandleNode, QueueType
  <2>. QED
    BY <1>9, <2>2, <2>3 DEF HandleNode, threadVars
<1>10. CASE HandleDone
  <2>1. QueueType'
    <3>1. mutex' \in Threads \union {NoThread} /\ handling' \in BOOLEAN
      BY <1>10 DEF HandleDone
    <3>2. pending' \in Seq(Ops) /\ node' \in 1 .. Len(pending') + 1
      BY <1>10, EmptyQueue DEF HandleDone
    <3>. QED
      BY <3>1, <3>2 DEF QueueType
  <2>2. PcType'
    BY <1>10, GotoType DEF HandleDone, CallType, OwnerPcs, Threads
  <2>. QED
    BY <1>10, <2>1, <2>2 DEF HandleDone
<1>11. CASE Publish
  <2>1. PcType'
    BY <1>11, GotoType DEF Publish, OwnerPcs, Threads
  <2>. QED
    BY <1>11, <2>1 DEF Publish
<1>12. CASE Wait
  <2>1. RoundType'
    BY <1>12, NotifyIsEntry DEF Wait, RoundType, ConnEntries
  <2>2. PcType'
    BY <1>12, GotoType DEF Wait, OwnerPcs, Threads
  <2>. QED
    BY <1>12, <2>1, <2>2 DEF Wait
<1>13. CASE NextEntry
  <2>1. TableType'
    BY <1>13 DEF NextEntry, TableType
  <2>2. ChanType'
    BY <1>13 DEF NextEntry, ChanType
  <2>3. RoundType'
    BY <1>13 DEF NextEntry, RoundType
  <2>. QED
    BY <1>13, <2>1, <2>2, <2>3 DEF NextEntry, threadVars
<1>14. CASE Active
  <2>1. RoundType'
    BY <1>14 DEF Active, RoundType, Entries
  <2>2. PcType'
    BY <1>14, GotoType DEF Active, OwnerPcs, Threads
  <2>3. /\ bytes' \in 0 .. SocketCap
      /\ published' \in BOOLEAN /\ proc' \in {"running", "aborted", "exited"}
    BY <1>14, LimitsAssumption DEF Active
  <2>. QED
    BY <1>14, <2>1, <2>2, <2>3 DEF Active
<1>15. CASE RoundDone
  <2>1. PcType'
    BY <1>15, GotoType DEF RoundDone, OwnerPcs, Threads
  <2>2. CallType'
    BY <1>15, ThreadsAssumption DEF RoundDone, CallType, Threads
  <2>. QED
    BY <1>15, <2>1, <2>2 DEF RoundDone
<1>16. CASE CallbackUpdate
  <2>1. PcType' /\ CallType'
    BY <1>16, PostType DEF CallbackUpdate, RoundType, OpTypes, Threads
  <2>2. ChanType'
    BY <1>16 DEF CallbackUpdate, ChanType, RoundType, Events
  <2>. QED
    BY <1>16, <2>1, <2>2 DEF CallbackUpdate
<1>17. CASE CallbackRemove
  <2>1. PcType' /\ CallType'
    BY <1>17, PostType DEF CallbackRemove, RoundType, OpTypes, Threads
  <2>. QED
    BY <1>17, <2>1 DEF CallbackRemove
<1>18. CASE CallbackReturn
  <2>1. PcType'
    BY <1>18, GotoType DEF CallbackReturn, OwnerPcs, Threads
  <2>. QED
    BY <1>18, <2>1 DEF CallbackReturn
<1>19. CASE UNCHANGED vars
  BY <1>19 DEF vars, threadVars
<1>. QED
  BY <1>1, <1>2, <1>3, <1>4, <1>5, <1>6, <1>7, <1>8, <1>9, <1>10, <1>11, <1>12, <1>13, <1>14, <1>15, <1>16, <1>17, <1>18, <1>19
     DEF Next, ThreadStep, OwnerStep

\* Every variable keeps its type and every thread stays in its own program.
THEOREM TypeCorrect == Spec => []TypeOK
  BY TypeInit, TypeStep, PTL DEF Spec

-----------------------------------------------------------------------------
(* The mutex protects the queue, so the assertion never fails              *)

LEMMA LockInit == Init => LockInv
BY ThreadsAssumption DEF Init, LockInv, AssertNeverFails, Threads

\* A thread that moves between labels outside the critical section, with the
\* queue variables unchanged, keeps the discipline.
LEMMA LockFrame ==
  ASSUME TypeOK, LockInv, UNCHANGED <<mutex, handling, node>>, proc' # "aborted",
         NEW t \in Threads, NEW label,
         pc[t] # "walk", Goto(t, label) \/ pc' = pc,
         label \notin {"enqueue", "unlock", "walk"}
  PROVE  LockInv'
BY ThreadsAssumption
   DEF TypeOK, PcType, LockInv, AssertNeverFails, Goto, Threads

LEMMA LockStep == TypeOK /\ LockInv /\ [Next]_vars => LockInv'
<1>. SUFFICES ASSUME TypeOK, LockInv, [Next]_vars PROVE LockInv'
  OBVIOUS
<1>. USE DEF queueVars, At
<1>1. ASSUME NEW t \in Threads, Lock(t) PROVE LockInv'
  BY <1>1, ThreadsAssumption
     DEF Lock, Goto, LockInv, AssertNeverFails, TypeOK, PcType, Threads
<1>2. ASSUME NEW t \in Threads, Enqueue(t) PROVE LockInv'
  <2>1. mutex = t
    BY <1>2 DEF Enqueue, LockInv
  <2>2. ~handling
    BY <1>2, <2>1 DEF Enqueue, LockInv
  <2>3. Goto(t, "unlock") /\ UNCHANGED <<mutex, handling, node, proc>>
    BY <1>2, <2>2 DEF Enqueue
  <2>. QED
    BY <1>2, <2>1, <2>3, ThreadsAssumption
       DEF Enqueue, Goto, LockInv, AssertNeverFails, TypeOK, PcType, Threads
<1>3. ASSUME NEW t \in Threads, Unlock(t) PROVE LockInv'
  BY <1>3, ThreadsAssumption
     DEF Unlock, Goto, LockInv, AssertNeverFails, TypeOK, PcType, Threads
<1>4. ASSUME NEW t \in Threads, NewChannel(t) PROVE LockInv'
  BY <1>4, LockFrame DEF NewChannel, Home, LockInv, AssertNeverFails
<1>5. ASSUME NEW t \in Threads, EarlyUpdate(t) PROVE LockInv'
  BY <1>5, LockFrame DEF EarlyUpdate, Post, LockInv, AssertNeverFails
<1>6. ASSUME NEW t \in Threads, PostAdd(t) PROVE LockInv'
  BY <1>6, LockFrame DEF PostAdd, Post, LockInv, AssertNeverFails
<1>7. ASSUME NEW t \in Posters, Wakeup(t) PROVE LockInv'
  BY <1>7, LockFrame
     DEF Wakeup, LockInv, AssertNeverFails, TypeOK, CallType, Threads
<1>8. CASE HandleLock
  BY <1>8, ThreadsAssumption
     DEF HandleLock, Goto, LockInv, AssertNeverFails, TypeOK, PcType, Threads
<1>9. CASE HandleNode
  <2>1. proc' \in {proc, "exited"}
    BY <1>9, HandleCases
  <2>. QED
    BY <1>9, <2>1 DEF HandleNode, threadVars, LockInv, AssertNeverFails
<1>10. CASE HandleDone
  BY <1>10, ThreadsAssumption
     DEF HandleDone, Goto, LockInv, AssertNeverFails, TypeOK, PcType, CallType,
         Threads
<1>11. CASE Publish
  BY <1>11, LockFrame DEF Publish, LockInv, AssertNeverFails, Threads
<1>12. CASE Wait
  BY <1>12, LockFrame DEF Wait, LockInv, AssertNeverFails, Threads
<1>13. CASE NextEntry
  BY <1>13, LockFrame DEF NextEntry, threadVars, LockInv, AssertNeverFails, Threads
<1>14. CASE Active
  BY <1>14, LockFrame DEF Active, LockInv, AssertNeverFails, Threads
<1>15. CASE RoundDone
  BY <1>15, LockFrame DEF RoundDone, LockInv, AssertNeverFails, Threads
<1>16. CASE CallbackUpdate
  BY <1>16, LockFrame DEF CallbackUpdate, Post, LockInv, AssertNeverFails, Threads
<1>17. CASE CallbackRemove
  BY <1>17, LockFrame DEF CallbackRemove, Post, LockInv, AssertNeverFails, Threads
<1>18. CASE CallbackReturn
  BY <1>18, LockFrame DEF CallbackReturn, LockInv, AssertNeverFails, Threads
<1>19. CASE UNCHANGED vars
  BY <1>19 DEF vars, threadVars, LockInv, AssertNeverFails
<1>. QED
  BY <1>1, <1>2, <1>3, <1>4, <1>5, <1>6, <1>7, <1>8, <1>9, <1>10, <1>11, <1>12,
     <1>13, <1>14, <1>15, <1>16, <1>17, <1>18, <1>19
     DEF Next, ThreadStep, OwnerStep

\* The critical section of event_loop_do_channel_event and the walk exclude
\* each other, with any number of posters and any fault.
THEOREM MutualExclusion == Spec => []LockInv
  BY TypeInit, TypeStep, LockInit, LockStep, PTL DEF Spec

\* assert(!loop->is_handling_pending_channel) holds in every run.
THEOREM NoAssertFails == Spec => []AssertNeverFails
<1>1. LockInv => AssertNeverFails
  BY DEF LockInv
<1>. QED
  BY <1>1, MutualExclusion, PTL

-----------------------------------------------------------------------------
(* No lost wake-up                                                         *)

LEMMA WakeupInit == Init => WakeupInFlight
BY DEF Init, WakeupInFlight

\* Steps that leave queue and socketpair alone and move one thread, which
\* neither leaves "unlock" or "wakeup" nor sends the owner to sleep.
LEMMA WakeupFrame ==
  ASSUME TypeOK, WakeupInFlight, UNCHANGED <<pending, bytes>>,
         NEW t \in Threads, NEW label, Goto(t, label) \/ pc' = pc,
         pc[t] \notin {"unlock", "wakeup"},
         label \notin {"init_done", "wait"} \/ t # Owner
  PROVE  WakeupInFlight'
BY ThreadsAssumption DEF TypeOK, PcType, WakeupInFlight, Goto, Threads

LEMMA WakeupStep == TypeOK /\ WakeupInFlight /\ [Next]_vars => WakeupInFlight'
<1>. SUFFICES ASSUME TypeOK, WakeupInFlight, [Next]_vars PROVE WakeupInFlight'
  OBVIOUS
<1>. USE DEF queueVars, At
<1>1. ASSUME NEW t \in Threads, Lock(t) PROVE WakeupInFlight'
  BY <1>1, WakeupFrame DEF Lock
<1>2. ASSUME NEW t \in Threads, Enqueue(t) PROVE WakeupInFlight'
  BY <1>2, ThreadsAssumption
     DEF Enqueue, Goto, WakeupInFlight, TypeOK, PcType, Threads
<1>3. ASSUME NEW t \in Threads, Unlock(t) PROVE WakeupInFlight'
  BY <1>3, ThreadsAssumption
     DEF Unlock, Goto, WakeupInFlight, TypeOK, PcType, Threads
<1>4. ASSUME NEW t \in Threads, NewChannel(t) PROVE WakeupInFlight'
  BY <1>4, WakeupFrame DEF NewChannel, Home
<1>5. ASSUME NEW t \in Threads, EarlyUpdate(t) PROVE WakeupInFlight'
  BY <1>5, WakeupFrame DEF EarlyUpdate, Post
<1>6. ASSUME NEW t \in Threads, PostAdd(t) PROVE WakeupInFlight'
  BY <1>6, WakeupFrame DEF PostAdd, Post
<1>7. ASSUME NEW t \in Posters, Wakeup(t) PROVE WakeupInFlight'
  BY <1>7 DEF Wakeup, WakeupInFlight, TypeOK
<1>8. CASE HandleLock
  BY <1>8, WakeupFrame DEF HandleLock, Threads
<1>9. CASE HandleNode
  BY <1>9, WakeupFrame DEF HandleNode, threadVars, WakeupInFlight
<1>10. CASE HandleDone
  BY <1>10 DEF HandleDone, WakeupInFlight
<1>11. CASE Publish
  BY <1>11, ThreadsAssumption
     DEF Publish, Goto, WakeupInFlight, TypeOK, PcType, Threads
<1>12. CASE Wait
  BY <1>12, WakeupFrame DEF Wait, Threads
<1>13. CASE NextEntry
  BY <1>13 DEF NextEntry, threadVars, WakeupInFlight
<1>14. CASE Active
  BY <1>14 DEF Active, Goto, WakeupInFlight, TypeOK, PcType, Threads
<1>15. CASE RoundDone
  BY <1>15, WakeupFrame DEF RoundDone, Threads
<1>16. CASE CallbackUpdate
  BY <1>16, WakeupFrame DEF CallbackUpdate, Post, Threads
<1>17. CASE CallbackRemove
  BY <1>17, WakeupFrame DEF CallbackRemove, Post, Threads
<1>18. CASE CallbackReturn
  BY <1>18, WakeupFrame DEF CallbackReturn, Threads
<1>19. CASE UNCHANGED vars
  BY <1>19 DEF vars, threadVars, WakeupInFlight
<1>. QED
  BY <1>1, <1>2, <1>3, <1>4, <1>5, <1>6, <1>7, <1>8, <1>9, <1>10, <1>11, <1>12,
     <1>13, <1>14, <1>15, <1>16, <1>17, <1>18, <1>19
     DEF Next, ThreadStep, OwnerStep

\* The owner never sleeps on a queue that nobody is about to wake it for,
\* whatever the number of posters, of posts and the size of the socketpair.
THEOREM NoLostWakeup == Spec => []WakeupInFlight
  BY TypeInit, TypeStep, WakeupInit, WakeupStep, PTL DEF Spec

-----------------------------------------------------------------------------
(* The map holds what its length allows                                    *)

LEMMA MapFitsStep == TypeOK /\ MapFits /\ [Next]_vars => MapFits'
<1>. SUFFICES ASSUME TypeOK, MapFits, [Next]_vars PROVE MapFits'
  OBVIOUS
<1>1. UNCHANGED <<map, mapLen>> => MapFits'
  BY DEF MapFits
<1>2. CASE HandleNode
  <2>1. PICK c \in Channels : HandleAdd(c) \/ HandleRemove(c) \/ HandleUpdate(c)
    BY <1>2, HandleCases
  <2>2. CASE UNCHANGED <<map, mapLen>>
    BY <1>1, <2>2
  <2>3. CASE HandleAdd(c) /\ FdOf[c] >= 0
    <3>. FdOf[c] # -1
      BY <2>3
    <3>. FdOf[c] \in Fds
      BY FdRange
    <3>1. FdOf[c] \in Fds /\ FdOf[c] \in Nat
      BY FdRange
    <3>2. Grown(FdOf[c]) \in Nat /\ Grown(FdOf[c]) > FdOf[c]
      BY <3>1, GrownProperty, LengthsAssumption
    <3>3. mapLen \in Nat
      BY LengthsAssumption DEF TypeOK, TableType
    <3>4. mapLen' = IF FdOf[c] >= mapLen THEN Grown(FdOf[c]) ELSE mapLen
      BY <2>3, <3>1 DEF HandleAdd
    <3>5. mapLen' \in Nat /\ mapLen' >= mapLen /\ mapLen' > FdOf[c]
      BY <3>1, <3>2, <3>3, <3>4
    <3>6. \A f \in Fds : f # FdOf[c] => map'[f] = map[f]
      BY <2>3, <3>1 DEF HandleAdd, TypeOK, TableType
    <3>7. ASSUME NEW f \in Fds, map'[f] # NoChannel PROVE f < mapLen'
      <4>1. f \in Nat
        BY FdRange
      <4>2. CASE f = FdOf[c]
        BY <3>5, <4>2
      <4>3. CASE f # FdOf[c]
        BY <3>3, <3>5, <3>6, <3>7, <4>1, <4>3 DEF MapFits
      <4>. QED
        BY <4>2, <4>3
    <3>. QED
      BY <3>7 DEF MapFits
  <2>4. CASE HandleRemove(c) /\ map' = [map EXCEPT ![FdOf[c]] = NoChannel]
             /\ UNCHANGED mapLen
    BY <2>4 DEF MapFits, TypeOK, TableType
  <2>. QED
    BY <2>1, <2>2, <2>3, <2>4, FdRange
       DEF HandleAdd, HandleRemove, HandleUpdate, tableVars
<1>3. CASE ~HandleNode
  BY <1>1, <1>3
     DEF Next, ThreadStep, OwnerStep, Lock, Enqueue, Unlock, NewChannel,
         EarlyUpdate, PostAdd, Wakeup, HandleLock, HandleDone, Publish, Wait,
         NextEntry, Active, RoundDone, CallbackUpdate, CallbackRemove,
         CallbackReturn, tableVars, vars
<1>. QED
  BY <1>2, <1>3

\* A registered channel is always inside the entities array.
THEOREM MapAlwaysFits == Spec => []MapFits
<1>1. Init => MapFits
  BY DEF Init, MapFits
<1>. QED
  BY <1>1, TypeInit, TypeStep, MapFitsStep, PTL DEF Spec

-----------------------------------------------------------------------------
(* The channel map and the interest list of epoll                          *)

\* What a round may rely on: channels are in the map under their descriptors,
\* and an event still to be delivered belongs to a registered channel or to
\* one that is not in the map any more.
RoundInv ==
  /\ \A c \in Channels : "READ" \in events[c]
  /\ \A f \in Fds : map[f] # NoChannel => FdOf[map[f]] = f
  /\ \A e1, e2 \in batch : e1.fd = e2.fd => e1 = e2
  /\ \A e \in batch : e.err => e.evs = {}
  /\ proc = "running" =>
       \A e \in batch \union {current} :
         e.evs # {} /\ map[e.fd] # NoChannel => interest[e.fd] # {}

\* The descriptor of c fits into the map, which never shrinks.
Below(c) == FdOf[c] < mapLen

\* The owner runs the callback of a channel, or what the callback called.
Calling ==
  \/ pc[Owner] = "callback" \/ ret[Owner] \in {"callback", "created"}
  \/ pc[Owner] = "created" /\ published

\* Whatever will be looked up in the map fits: who posts a DELETE or an UPDATE
\* has been registered, and so has who gets an event.
PostsBelow ==
  /\ \A i \in 1 .. Len(pending) : pending[i].type # "ADD" => Below(pending[i].chan)
  /\ \A t \in Threads :
       pc[t] \in {"lock", "enqueue"} /\ op[t].type # "ADD" => Below(op[t].chan)

CallBelow == Calling => Below(running)

EventsBelow ==
  /\ \A e \in batch \union {current} : e.evs # {} => e.fd < mapLen
  /\ \A f \in Fds : interest[f] # {} => f < mapLen

BoundsInv == PostsBelow /\ CallBelow /\ EventsBelow

\* Every operation that is posted is for an open descriptor.
RegistryInv ==
  /\ RegistryMatches
  /\ \A c \in created : FdOf[c] # -1 => FdOf[c] \in open
  /\ \A i \in 1 .. Len(pending) : pending[i].chan \in created
  /\ \A t \in Threads : op[t].chan \in created
  /\ running \in created
  /\ \A f \in Fds : map[f] # NoChannel => map[f] \in created
  /\ \A e \in batch : ~e.err

\* The update of c is queued and still to be handled, or about to be queued.
UpdateComes(c) ==
  \/ \E i \in node .. Len(pending) : pending[i] = Op("UPDATE", c)
  \/ \E t \in Threads : Updating(t, c)

\* The events of c are those epoll waits for, if c is registered.
Current(c) == FdOf[c] = -1 \/ map[FdOf[c]] # c \/ interest[FdOf[c]] = events[c]

\* No two channels have one descriptor.
OwnFds == \A c, d \in created : FdOf[c] = FdOf[d] /\ FdOf[c] # -1 => c = d

\* Wherever the owner is, an event a registered channel asks for is in the
\* interest list or on its way there.
InterestInv ==
  /\ OwnFds
  /\ proc = "running" => \A c \in Channels : Current(c) \/ UpdateComes(c)

\* Thread t has created c and not yet queued its ADD.
Adding(t, c) == pc[t] \in {"created", "lock", "enqueue"} /\ op[t] = Op("ADD", c)

\* The ADD of a channel is in one place at most, and as long as it is still to
\* be handled the channel is not in the map.
AddedOnce(c) ==
  LET adds  == {i \in 1 .. Len(pending) : pending[i] = Op("ADD", c)}
      posts == {t \in Threads : Adding(t, c)}
  IN  /\ \A i, j \in adds : i = j
      /\ \A t, u \in posts : t = u
      /\ adds = {} \/ posts = {}
      /\ posts # {} \/ (\E i \in adds : i >= node) =>
           c \in created /\ \A f \in Fds : map[f] # c

AddInv ==
  /\ \A c \in Channels : AddedOnce(c)
  /\ \A t \in Threads : pc[t] = "created" => op[t].type = "ADD"
  /\ \A t \in Threads : ret[t] # "created"

\* mapLen is a number, and no step makes it smaller.
LEMMA LengthGrows ==
  ASSUME TypeOK, [Next]_vars
  PROVE  mapLen \in Nat /\ mapLen' \in Nat /\ mapLen <= mapLen'
<1>1. mapLen \in Nat /\ mapLen' \in Nat
  <2>1. TypeOK'
    BY TypeStep
  <2>2. mapLen \in MapLengths \union {0} /\ mapLen' \in MapLengths \union {0}
    BY <2>1 DEF TypeOK, TableType
  <2>. QED
    BY <2>2, LengthsAssumption
<1>2. CASE HandleNode
  <2>1. PICK c \in Channels : HandleAdd(c) \/ HandleRemove(c) \/ HandleUpdate(c)
    BY <1>2, HandleCases
  <2>2. CASE HandleAdd(c) /\ FdOf[c] # -1
    <3>. FdOf[c] \in Fds /\ FdOf[c] \in Nat
      BY <2>2, FdRange
    <3>1. Grown(FdOf[c]) \in Nat /\ Grown(FdOf[c]) > FdOf[c]
      BY GrownProperty, LengthsAssumption
    <3>. QED
      BY <1>1, <2>2, <3>1 DEF HandleAdd
  <2>3. CASE UNCHANGED mapLen
    BY <1>1, <2>3
  <2>. QED
    BY <2>1, <2>2, <2>3, FdRange DEF HandleAdd, HandleRemove, HandleUpdate, tableVars
<1>3. CASE ~HandleNode
  <2>. UNCHANGED mapLen
    BY <1>3
       DEF Next, ThreadStep, OwnerStep, Lock, Enqueue, Unlock, NewChannel,
           EarlyUpdate, PostAdd, Wakeup, HandleLock, HandleDone, Publish, Wait,
           NextEntry, Active, RoundDone, CallbackUpdate, CallbackRemove,
           CallbackReturn, tableVars, vars
  <2>. QED
    BY <1>1
<1>. QED
  BY <1>2, <1>3

\* The descriptor of c gets the channel ch and the events evs, or epoll_ctl
\* fails and the process ends.
Registers(c, ch, ok, evs) ==
  /\ FdOf[c] \in Fds
  /\ map' = [map EXCEPT ![FdOf[c]] = ch]
  /\ \/ ok /\ interest' = [interest EXCEPT ![FdOf[c]] = evs] /\ proc' = proc
     \/ ~ok /\ UNCHANGED interest /\ proc' = "exited"

\* All that handling a node can do to the map and the interest list.
LEMMA NodeEffect ==
  ASSUME TypeOK, HandleNode
  PROVE  \/ UNCHANGED <<map, interest, proc>>
         \/ \E c \in Channels :
              \/ /\ pending[node] = Op("ADD", c) /\ map[FdOf[c]] = NoChannel
                 /\ Registers(c, c, FdOf[c] \in open /\ interest[FdOf[c]] = {}, events[c])
                 /\ FdOf[c] < mapLen'
              \/ /\ pending[node] = Op("DELETE", c) /\ map[FdOf[c]] # NoChannel
                 /\ Registers(c, NoChannel, FdOf[c] \in open /\ interest[FdOf[c]] # {}, {})
              \/ /\ pending[node] = Op("UPDATE", c)
                 /\ map[FdOf[c]] # NoChannel \/ FdOf[c] = mapLen
                 /\ Registers(c, map[FdOf[c]], FdOf[c] \in open /\ interest[FdOf[c]] # {},
                              events[c])
<1>1. PICK c \in Channels :
        \/ pending[node] = Op("ADD", c) /\ HandleAdd(c)
        \/ pending[node] = Op("DELETE", c) /\ HandleRemove(c)
        \/ pending[node] = Op("UPDATE", c) /\ HandleUpdate(c)
  BY HandleCases
<1>. DEFINE fd == FdOf[c]
<1>2. fd = -1 \/ (fd \in Fds /\ fd \in Nat)
  BY FdRange
<1>3. ASSUME NEW ok, NEW evs, EpollCtl(fd, ok, evs)
      PROVE  \/ ok /\ interest' = [interest EXCEPT ![fd] = evs] /\ proc' = proc
             \/ ~ok /\ UNCHANGED interest /\ proc' = "exited"
  BY <1>3 DEF EpollCtl
<1>4. CASE pending[node] = Op("ADD", c) /\ HandleAdd(c) /\ ~UNCHANGED <<map, interest, proc>>
  <2>1. /\ fd >= 0 /\ map[fd] = NoChannel /\ map' = [map EXCEPT ![fd] = c]
        /\ EpollCtl(fd, fd \in open /\ interest[fd] = {}, events[c])
        /\ mapLen' = IF fd >= mapLen THEN Grown(fd) ELSE mapLen
    BY <1>4 DEF HandleAdd, tableVars
  <2>2. fd \in Fds /\ fd \in Nat
    BY <1>2, <2>1
  <2>3. fd < mapLen'
    <3>1. Grown(fd) > fd /\ Grown(fd) \in Nat
      BY <2>2, GrownProperty, LengthsAssumption
    <3>2. mapLen \in Nat
      BY LengthsAssumption DEF TypeOK, TableType
    <3>. QED
      BY <2>1, <2>2, <3>1, <3>2
  <2>. QED
    BY <1>3, <1>4, <2>1, <2>2, <2>3 DEF Registers
<1>5. CASE pending[node] = Op("DELETE", c) /\ HandleRemove(c) /\ ~UNCHANGED <<map, interest, proc>>
  <2>1. /\ Accessed(fd) /\ map[fd] # NoChannel /\ map' = [map EXCEPT ![fd] = NoChannel]
        /\ EpollCtl(fd, fd \in open /\ interest[fd] # {}, {})
    BY <1>5 DEF HandleRemove, tableVars
  <2>2. fd \in Fds
    BY <1>2, <2>1 DEF Accessed
  <2>. QED
    BY <1>3, <1>5, <2>1, <2>2 DEF Registers
<1>6. CASE pending[node] = Op("UPDATE", c) /\ HandleUpdate(c) /\ ~UNCHANGED <<map, interest, proc>>
  <2>1. /\ Accessed(fd) /\ (map[fd] # NoChannel \/ fd = mapLen)
        /\ map' = map
        /\ EpollCtl(fd, fd \in open /\ interest[fd] # {}, events[c])
    BY <1>6 DEF HandleUpdate, tableVars
  <2>2. fd \in Fds
    BY <1>2, <2>1 DEF Accessed
  <2>3. map' = [map EXCEPT ![fd] = map[fd]]
    BY <2>1, <2>2 DEF TypeOK, TableType
  <2>. QED
    BY <1>3, <1>6, <2>1, <2>2, <2>3 DEF Registers
<1>. QED
  BY <1>1, <1>4, <1>5, <1>6

LEMMA RoundInit == Init => RoundInv
<1>. SUFFICES ASSUME Init PROVE RoundInv
  OBVIOUS
<1>1. current.evs = {}
  BY DEF Init
<1>2. \A f \in Fds : map[f] = NoChannel
  BY DEF Init
<1>3. batch = {} /\ \A c \in Channels : "READ" \in events[c]
  BY DEF Init
<1>. QED
  BY <1>1, <1>2, <1>3 DEF RoundInv

LEMMA RoundStep == TypeOK /\ RoundInv /\ [Next]_vars => RoundInv'
<1>. SUFFICES ASSUME TypeOK, RoundInv, [Next]_vars PROVE RoundInv'
  OBVIOUS
<1>. DEFINE Backed(f) == map[f] # NoChannel => interest[f] # {}
<1>0. /\ batch \subseteq Entries /\ current \in Entries /\ running \in Channels
      /\ map \in [Fds -> Channels \union {NoChannel}]
      /\ interest \in [Fds -> SUBSET Events] /\ events \in [Channels -> SUBSET Events]
      /\ \A e \in batch \union {current} : e.fd \in Fds
  BY DEF TypeOK, TableType, ChanType, RoundType, Entries
<1>1. CASE UNCHANGED <<map, interest, events, batch, current>> /\ proc' \in {proc, "aborted"}
  BY <1>1 DEF RoundInv
<1>2. CASE HandleNode
  <2>. UNCHANGED <<events, batch, current>> /\ proc = "running"
    BY <1>2 DEF HandleNode, chanVars, roundVars, At
  <2>1. CASE UNCHANGED <<map, interest, proc>>
    BY <1>1, <2>1
  <2>2. ASSUME NEW c \in Channels, NEW ch \in {c, NoChannel, map[FdOf[c]]}, NEW ok,
               NEW evs, Registers(c, ch, ok, evs), ch # NoChannel => evs = events[c]
        PROVE  RoundInv'
    <3>. DEFINE fd == FdOf[c]
    <3>1. fd \in Fds /\ map' = [map EXCEPT ![fd] = ch]
      BY <2>2 DEF Registers
    <3>2. \A f \in Fds : map'[f] # NoChannel => FdOf[map'[f]] = f
      BY <1>0, <2>2, <3>1 DEF RoundInv
    <3>3. proc' = "running" => \A f \in Fds : Backed(f) => Backed(f)'
      <4>. SUFFICES ASSUME proc' = "running", NEW f \in Fds, Backed(f) PROVE Backed(f)'
        OBVIOUS
      <4>1. interest' = [interest EXCEPT ![fd] = evs]
        BY <2>2 DEF Registers
      <4>2. CASE f = fd
        BY <1>0, <2>2, <3>1, <4>1, <4>2 DEF RoundInv
      <4>3. CASE f # fd
        BY <1>0, <3>1, <4>1, <4>3
      <4>. QED
        BY <4>2, <4>3
    <3>. QED
      BY <1>0, <3>2, <3>3 DEF RoundInv
  <2>. QED
    BY <1>2, <2>1, <2>2, NodeEffect
<1>3. CASE Wait
  <2>. UNCHANGED <<map, interest, events, current, proc>>
    BY <1>3 DEF Wait, tableVars, chanVars
  <2>1. PICK conns \in SUBSET ConnEntries :
          /\ \A e1, e2 \in conns : e1.fd = e2.fd => e1 = e2
          /\ batch' = conns \union (IF bytes > 0 /\ "READ" \in interest[FdOf[Notify]]
                                    THEN {NotifyEntry} ELSE {})
    BY <1>3 DEF Wait
  <2>2. \A e \in batch' : e \in conns \/ (e = NotifyEntry /\ interest[e.fd] # {})
    BY <2>1 DEF NotifyEntry
  <2>3. \A e \in conns : /\ e.fd # FdOf[Notify] /\ interest[e.fd] # {} /\ (e.err => e.evs = {})
    BY <2>1 DEF ConnEntries
  <2>4. NotifyEntry.fd = FdOf[Notify] /\ ~NotifyEntry.err
    BY DEF NotifyEntry
  <2>. QED
    BY <2>1, <2>2, <2>3, <2>4 DEF RoundInv
<1>4. CASE NextEntry
  <2>. UNCHANGED <<map, events, proc>>
    BY <1>4 DEF NextEntry
  <2>1. PICK e \in batch :
          /\ batch' = batch \ {e} /\ current' = e
          /\ interest' = IF e.err THEN [interest EXCEPT ![e.fd] = {}] ELSE interest
    BY <1>4 DEF NextEntry
  <2>2. \A d \in batch' : d.fd # e.fd
    BY <2>1 DEF RoundInv
  <2>3. CASE ~e.err
    BY <2>1, <2>3 DEF RoundInv
  <2>4. CASE e.err
    <3>1. current'.evs = {}
      BY <2>1, <2>4 DEF RoundInv
    <3>2. \A d \in batch' : interest'[d.fd] = interest[d.fd]
      BY <1>0, <2>1, <2>2
    <3>. QED
      BY <2>1, <3>1, <3>2 DEF RoundInv
  <2>. QED
    BY <2>3, <2>4
<1>5. CASE Active
  <2>. UNCHANGED <<map, interest, events, batch, proc>>
    BY <1>5 DEF Active, tableVars, chanVars
  <2>1. PICK ev \in current.evs : current' = [current EXCEPT !.evs = @ \ {ev}]
    BY <1>5 DEF Active
  <2>2. current'.fd = current.fd /\ (current'.evs # {} => current.evs # {})
    BY <1>0, <2>1 DEF Entries
  <2>. QED
    BY <2>2 DEF RoundInv
<1>6. CASE CallbackUpdate
  <2>1. UNCHANGED <<map, interest, batch, current, proc>>
    BY <1>6 DEF CallbackUpdate, tableVars, roundVars
  <2>2. \A c \in Channels : "READ" \in events'[c]
    BY <1>0, <1>6 DEF CallbackUpdate, RoundInv
  <2>. QED
    BY <2>1, <2>2 DEF RoundInv
<1>7. ASSUME NEW t \in Threads, EarlyUpdate(t) PROVE RoundInv'
  <2>1. UNCHANGED <<map, interest, batch, current, proc>>
    BY <1>7 DEF EarlyUpdate, tableVars, roundVars
  <2>2. \A c \in Channels : "READ" \in events'[c]
    BY <1>0, <1>7 DEF EarlyUpdate, RoundInv
  <2>. QED
    BY <2>1, <2>2 DEF RoundInv
<1>8. CASE /\ ~HandleNode /\ ~Wait /\ ~NextEntry /\ ~Active /\ ~CallbackUpdate
           /\ ~(\E t \in Threads : EarlyUpdate(t))
  BY <1>1, <1>8
     DEF Next, ThreadStep, OwnerStep, Lock, Enqueue, Unlock, NewChannel, PostAdd,
         Wakeup, HandleLock, HandleDone, Publish, RoundDone, CallbackRemove,
         CallbackReturn, tableVars, chanVars, roundVars, vars
<1>. QED
  BY <1>2, <1>3, <1>4, <1>5, <1>6, <1>7, <1>8

\* A callback only starts for a descriptor that is in the interest list, with
\* any fault: this is what keeps a closed connection from being called.
THEOREM CallbacksAreRegistered == Spec => CallbackOnlyWhileRegistered
<1>1. ASSUME TypeOK, RoundInv, [Next]_vars, pc[Owner] = "dispatch", pc'[Owner] = "callback"
      PROVE  interest[current.fd] # {} /\ FdOf[running'] = current.fd
  <2>1. Active
    <3>1. ASSUME NEW t \in Threads, NEW label, pc[t] # "dispatch", Goto(t, label) PROVE FALSE
      <4>1. pc \in [Threads -> OwnerPcs \union PosterPcs] /\ Owner \in Threads
        BY <1>1 DEF TypeOK, PcType, Threads
      <4>2. t # Owner
        BY <1>1, <3>1
      <4>. QED
        BY <1>1, <3>1, <4>1, <4>2 DEF Goto
    <3>2. ASSUME NEW t \in Threads, ThreadStep(t) PROVE FALSE
      <4>1. \/ UNCHANGED pc
            \/ \E label : pc[t] # "dispatch" /\ Goto(t, label)
        BY <3>2 DEF ThreadStep, Lock, Enqueue, Unlock, NewChannel, EarlyUpdate, PostAdd,
                    Post, At, Home
      <4>. QED
        BY <1>1, <3>1, <4>1
    <3>3. ASSUME NEW p \in Posters, Wakeup(p) PROVE FALSE
      BY <3>1, <3>3 DEF Wakeup, At, Threads
    <3>4. ASSUME OwnerStep, ~Active PROVE FALSE
      BY <1>1, <3>4
         DEF OwnerStep, HandleLock, HandleNode, HandleDone, Publish, Wait, NextEntry,
             RoundDone, CallbackUpdate, CallbackRemove, CallbackReturn, threadVars, At,
             Goto, TypeOK, PcType, Threads
    <3>. QED
      BY <1>1, <3>2, <3>3, <3>4 DEF Next, vars, threadVars
  <2>2. /\ proc = "running" /\ current.evs # {} /\ map[current.fd] \in Channels
        /\ running' = map[current.fd]
    BY <1>1, <2>1 DEF Active, At
  <2>3. current.fd \in Fds /\ NoChannel \notin Channels
    BY <1>1, ChannelsAssumption DEF TypeOK, RoundType, Entries
  <2>. QED
    BY <1>1, <2>2, <2>3 DEF RoundInv
<1>2. TypeOK /\ RoundInv /\ [Next]_vars =>
        [pc[Owner] = "dispatch" /\ pc'[Owner] = "callback" =>
           interest[current.fd] # {} /\ FdOf[running'] = current.fd]_vars
  BY <1>1
<1>. QED
  BY <1>2, TypeInit, TypeStep, RoundInit, RoundStep, PTL
     DEF Spec, CallbackOnlyWhileRegistered

NoEarlyUpdate == "early_update" \notin Faults

LEMMA BoundsInit == Init => BoundsInv
<1>. SUFFICES ASSUME Init PROVE BoundsInv
  OBVIOUS
<1>1. pending = <<>> /\ batch = {} /\ current.evs = {}
  BY DEF Init
<1>2. \A t \in Threads : op[t].type = "ADD"
  BY DEF Init, Op
<1>3. pc[Owner] = "lock" /\ ret[Owner] = "init_done"
  BY DEF Init, Threads
<1>4. \A f \in Fds : interest[f] = {}
  BY DEF Init
<1>. QED
  BY <1>1, <1>2, <1>3, <1>4
     DEF BoundsInv, PostsBelow, CallBelow, EventsBelow, Calling

\* What is below the length of the map stays below it.
LEMMA StaysBelow ==
  ASSUME TypeOK, [Next]_vars
  PROVE  /\ \A c \in Channels : FdOf[c] < mapLen => FdOf[c] < mapLen'
         /\ \A f \in Fds : f < mapLen => f < mapLen'
<1>1. mapLen \in Nat /\ mapLen' \in Nat /\ mapLen <= mapLen'
  BY LengthGrows
<1>2. /\ \A c \in Channels : FdOf[c] \in Int
      /\ \A f \in Fds : f \in Int
  BY FdRange, ChannelsAssumption
<1>. QED
  BY <1>1, <1>2

\* A step that queues nothing but what a thread had posted, and posts nothing
\* but an ADD or an operation of a channel below the length of the map.
LEMMA PostsFrame ==
  ASSUME TypeOK, PostsBelow, [Next]_vars,
         \/ pending' = pending \/ pending' = <<>>
         \/ \E t \in Threads : pc[t] = "enqueue" /\ pending' = Append(pending, op[t]),
         \A t \in Threads :
           \/ pc'[t] \notin {"lock", "enqueue"}
           \/ op'[t].type = "ADD"
           \/ pc[t] \in {"lock", "enqueue"} /\ op'[t] = op[t]
           \/ FdOf[op'[t].chan] < mapLen
  PROVE  PostsBelow'
<1>1. pending \in Seq(Ops) /\ op \in [Threads -> Ops] /\ op' \in [Threads -> Ops]
  BY TypeStep DEF TypeOK, QueueType, CallType
<1>2. \A o \in Ops : o.chan \in Channels
  BY DEF Ops
<1>3. \A i \in 1 .. Len(pending') :
        \/ i \in 1 .. Len(pending) /\ pending'[i] = pending[i]
        \/ \E t \in Threads : pc[t] = "enqueue" /\ pending'[i] = op[t]
  BY <1>1
<1>4. ASSUME NEW i \in 1 .. Len(pending'), pending'[i].type # "ADD"
      PROVE  FdOf[pending'[i].chan] < mapLen'
  <2>1. CASE i \in 1 .. Len(pending) /\ pending'[i] = pending[i]
    <3>1. pending[i] \in Ops
      BY <1>1, <2>1
    <3>. QED
      BY <1>2, <1>4, <2>1, <3>1, StaysBelow DEF PostsBelow, Below
  <2>2. ASSUME NEW t \in Threads, pc[t] = "enqueue", pending'[i] = op[t]
        PROVE  FdOf[pending'[i].chan] < mapLen'
    <3>1. op[t] \in Ops
      BY <1>1
    <3>. QED
      BY <1>2, <1>4, <2>2, <3>1, StaysBelow DEF PostsBelow, Below
  <2>. QED
    BY <1>3, <2>1, <2>2
<1>5. ASSUME NEW t \in Threads, pc'[t] \in {"lock", "enqueue"}, op'[t].type # "ADD"
      PROVE  FdOf[op'[t].chan] < mapLen'
  <2>1. op'[t] \in Ops
    BY <1>1
  <2>2. FdOf[op'[t].chan] < mapLen
    BY <1>5 DEF PostsBelow, Below
  <2>. QED
    BY <1>2, <2>1, <2>2, StaysBelow
<1>. QED
  BY <1>4, <1>5 DEF PostsBelow, Below

LEMMA PostsStep ==
  ASSUME NoEarlyUpdate, TypeOK, BoundsInv, [Next]_vars
  PROVE  PostsBelow'
<1>0. /\ pc \in [Threads -> OwnerPcs \union PosterPcs] /\ op \in [Threads -> Ops]
      /\ ret \in [Threads -> {"init_done", "wait", "callback", "created", "idle"}]
      /\ Owner \in Threads /\ running \in Channels /\ PostsBelow
  BY DEF TypeOK, PcType, CallType, RoundType, Threads, BoundsInv
<1>1. \A t \in Threads :
        \/ pc'[t] \notin {"lock", "enqueue"}
        \/ op'[t].type = "ADD"
        \/ pc[t] \in {"lock", "enqueue"} /\ op'[t] = op[t]
        \/ FdOf[op'[t].chan] < mapLen
  <2>1. ASSUME NEW u \in Threads, Lock(u) \/ Enqueue(u) \/ Unlock(u) \/ NewChannel(u) \/ PostAdd(u),
               NEW t \in Threads
        PROVE  \/ pc'[t] \notin {"lock", "enqueue"}
               \/ op'[t].type = "ADD"
               \/ pc[t] \in {"lock", "enqueue"} /\ op'[t] = op[t]
    BY <1>0, <2>1 DEF Lock, Enqueue, Unlock, NewChannel, PostAdd, Post, Op, Goto, At
  <2>2. ASSUME NEW u \in Threads, EarlyUpdate(u) PROVE FALSE
    BY <2>2 DEF EarlyUpdate, NoEarlyUpdate
  <2>3. ASSUME NEW u \in Posters, Wakeup(u), NEW t \in Threads
        PROVE  \/ pc'[t] \notin {"lock", "enqueue"}
               \/ pc[t] \in {"lock", "enqueue"} /\ op'[t] = op[t]
    <3>1. ret[u] \in {"created", "idle"} /\ u \in Threads
      BY DEF TypeOK, CallType, Threads
    <3>. QED
      BY <1>0, <2>3, <3>1 DEF Wakeup, Goto
  <2>4. ASSUME CallbackUpdate \/ CallbackRemove, NEW t \in Threads
        PROVE  \/ FdOf[op'[t].chan] < mapLen
               \/ pc'[t] = pc[t] /\ op'[t] = op[t]
    <3>1. FdOf[running] < mapLen
      BY <2>4 DEF BoundsInv, CallBelow, Calling, CallbackUpdate, CallbackRemove, At, Below
    <3>. QED
      BY <1>0, <2>4, <3>1 DEF CallbackUpdate, CallbackRemove, Post, Goto, Op
  <2>5. ASSUME OwnerStep, ~CallbackUpdate, ~CallbackRemove, NEW t \in Threads
        PROVE  \/ pc'[t] \notin {"lock", "enqueue"}
               \/ pc[t] \in {"lock", "enqueue"} /\ op'[t] = op[t]
    <3>1. ret[Owner] \in {"init_done", "wait", "callback", "created"}
      BY DEF TypeOK, CallType
    <3>. QED
      BY <1>0, <2>5, <3>1
         DEF OwnerStep, HandleLock, HandleNode, HandleDone, Publish, Wait, NextEntry,
             Active, RoundDone, CallbackReturn, threadVars, Goto
  <2>. QED
    BY <2>1, <2>2, <2>3, <2>4, <2>5 DEF Next, ThreadStep, vars, threadVars
<1>2. \/ pending' = pending \/ pending' = <<>>
      \/ \E t \in Threads : pc[t] = "enqueue" /\ pending' = Append(pending, op[t])
  BY DEF Next, ThreadStep, OwnerStep, Lock, Enqueue, Unlock, NewChannel, EarlyUpdate,
         PostAdd, Wakeup, HandleLock, HandleNode, HandleDone, Publish, Wait, NextEntry,
         Active, RoundDone, CallbackUpdate, CallbackRemove, CallbackReturn, queueVars,
         vars, At
<1>. QED
  BY <1>0, <1>1, <1>2, PostsFrame

LEMMA CallStep ==
  ASSUME TypeOK, MapFits, RoundInv, BoundsInv, [Next]_vars
  PROVE  CallBelow'
<1>0. /\ pc \in [Threads -> OwnerPcs \union PosterPcs] /\ Owner \in Threads
      /\ ret \in [Threads -> {"init_done", "wait", "callback", "created", "idle"}]
      /\ running \in Channels /\ CallBelow
  BY DEF TypeOK, PcType, CallType, RoundType, Threads, BoundsInv
<1>1. CASE running' = running /\ (Calling' => Calling)
  BY <1>0, <1>1, StaysBelow DEF CallBelow, Below
<1>2. CASE Active
  <2>1. CASE running' = running /\ pc' = pc /\ ret' = ret /\ published' = published
    BY <1>1, <2>1 DEF Calling
  <2>2. CASE Accessed(current.fd) /\ map[current.fd] \in Channels /\ running' = map[current.fd]
    <3>1. current.fd \in Fds /\ NoChannel \notin Channels
      BY ChannelsAssumption DEF TypeOK, RoundType, Entries
    <3>2. FdOf[running'] = current.fd /\ current.fd < mapLen
      BY <2>2, <3>1 DEF RoundInv, MapFits
    <3>. QED
      BY <3>1, <3>2, StaysBelow DEF CallBelow, Below
  <2>. QED
    BY <1>2, <2>1, <2>2 DEF Active
<1>3. ASSUME NEW t \in Threads, ThreadStep(t) PROVE running' = running /\ (Calling' => Calling)
  <2>1. /\ running' = running /\ published' = published
        /\ \A u \in Threads : u # t => pc'[u] = pc[u] /\ ret'[u] = ret[u]
    BY <1>0, <1>3
       DEF ThreadStep, Lock, Enqueue, Unlock, NewChannel, EarlyUpdate, PostAdd, Post,
           Goto, roundVars
  <2>2. CASE t # Owner
    BY <1>0, <2>1, <2>2 DEF Calling
  <2>3. CASE t = Owner
    BY <1>0, <1>3, <2>1, <2>3
       DEF ThreadStep, Lock, Enqueue, Unlock, NewChannel, EarlyUpdate, PostAdd, Post,
           Goto, At, Home, Calling
  <2>. QED
    BY <2>2, <2>3, <2>1
<1>4. ASSUME NEW p \in Posters, Wakeup(p) PROVE running' = running /\ (Calling' => Calling)
  <2>1. p # Owner /\ p \in Threads
    BY ThreadsAssumption DEF Threads
  <2>. QED
    BY <1>0, <1>4, <2>1 DEF Wakeup, Goto, Calling, roundVars
<1>5. ASSUME OwnerStep, ~Active PROVE running' = running /\ (Calling' => Calling)
  <2>1. running' = running
    BY <1>5
       DEF OwnerStep, HandleLock, HandleNode, HandleDone, Publish, Wait, NextEntry,
           RoundDone, CallbackUpdate, CallbackRemove, CallbackReturn, roundVars
  <2>2. CASE HandleLock \/ HandleNode \/ Wait \/ NextEntry \/ CallbackReturn
    BY <1>0, <2>1, <2>2
       DEF HandleLock, HandleNode, Wait, NextEntry, CallbackReturn, Goto, At, Calling,
           threadVars
  <2>3. CASE CallbackUpdate \/ CallbackRemove
    BY <2>1, <2>3 DEF CallbackUpdate, CallbackRemove, At, Calling
  <2>4. CASE HandleDone \/ Publish \/ RoundDone
    <3>1. ret[Owner] \in {"init_done", "wait", "callback", "created"}
      BY DEF TypeOK, CallType
    <3>. QED
      BY <1>0, <2>1, <2>4, <3>1 DEF HandleDone, Publish, RoundDone, Goto, At, Calling
  <2>. QED
    BY <1>5, <2>1, <2>2, <2>3, <2>4 DEF OwnerStep
<1>. QED
  BY <1>1, <1>2, <1>3, <1>4, <1>5 DEF Next, vars, threadVars, roundVars, Calling

LEMMA EventsStep ==
  ASSUME TypeOK, MapFits, MapFits', RoundInv, BoundsInv, [Next]_vars
  PROVE  EventsBelow'
<1>0. /\ interest \in [Fds -> SUBSET Events] /\ batch \subseteq Entries /\ current \in Entries
      /\ EventsBelow /\ FdOf[Notify] \in Fds
      /\ \A e \in Entries : e.fd \in Fds /\ e.evs \in SUBSET Events
  BY FdRange DEF TypeOK, TableType, RoundType, Entries, BoundsInv
<1>1. ASSUME /\ \A e \in batch' \union {current'} :
                   e.evs # {} =>
                     \/ interest[e.fd] # {} /\ e.fd \in Fds
                     \/ \E d \in batch \union {current} : d.fd = e.fd /\ d.evs # {},
             \A f \in Fds : interest'[f] # {} => interest[f] # {} \/ f < mapLen'
      PROVE  EventsBelow'
  <2>1. \A f \in Fds : interest[f] # {} => f < mapLen'
    BY <1>0, StaysBelow DEF EventsBelow
  <2>2. \A d \in batch \union {current} : d.evs # {} => d.fd < mapLen'
    BY <1>0, StaysBelow DEF EventsBelow
  <2>. QED
    BY <1>1, <2>1, <2>2 DEF EventsBelow
<1>2. CASE HandleNode
  <2>1. UNCHANGED <<batch, current>>
    BY <1>2 DEF HandleNode, roundVars
  <2>2. \A f \in Fds : interest'[f] # {} => interest[f] # {} \/ f < mapLen'
    <3>1. CASE UNCHANGED interest
      BY <3>1
    <3>2. ASSUME NEW c \in Channels, NEW ch, NEW ok, NEW evs, Registers(c, ch, ok, evs),
                 interest[FdOf[c]] # {} \/ FdOf[c] < mapLen'
          PROVE  \A f \in Fds : interest'[f] # {} => interest[f] # {} \/ f < mapLen'
      BY <1>0, <3>2 DEF Registers
    <3>3. ASSUME NEW c \in Channels, NEW ch, NEW evs,
                 Registers(c, ch, FdOf[c] \in open /\ interest[FdOf[c]] # {}, evs)
          PROVE  interest' = interest \/ interest[FdOf[c]] # {}
      BY <3>3 DEF Registers
    <3>. QED
      BY <1>2, <3>1, <3>2, <3>3, NodeEffect
  <2>. QED
    BY <1>1, <2>1, <2>2
<1>3. CASE Wait
  <2>1. UNCHANGED <<interest, current>>
    BY <1>3 DEF Wait, tableVars
  <2>2. \A e \in batch' : e.evs # {} => interest[e.fd] # {} /\ e.fd \in Fds
    BY <1>0, <1>3 DEF Wait, ConnEntries, NotifyEntry
  <2>. QED
    BY <1>1, <2>1, <2>2
<1>4. CASE NextEntry
  <2>1. PICK e \in batch :
          /\ batch' = batch \ {e} /\ current' = e
          /\ interest' = IF e.err THEN [interest EXCEPT ![e.fd] = {}] ELSE interest
    BY <1>4 DEF NextEntry
  <2>2. \A f \in Fds : interest'[f] # {} => interest[f] # {}
    BY <1>0, <2>1
  <2>. QED
    BY <1>1, <2>1, <2>2
<1>5. CASE Active
  <2>1. UNCHANGED <<interest, batch>>
    BY <1>5 DEF Active, tableVars
  <2>2. PICK ev \in current.evs : current' = [current EXCEPT !.evs = @ \ {ev}]
    BY <1>5 DEF Active
  <2>3. current'.fd = current.fd /\ current.evs # {}
    BY <1>0, <2>2 DEF Entries
  <2>. QED
    BY <1>1, <2>1, <2>3
<1>6. CASE ~HandleNode /\ ~Wait /\ ~NextEntry /\ ~Active
  <2>1. UNCHANGED <<interest, batch, current>>
    BY <1>6
       DEF Next, ThreadStep, OwnerStep, Lock, Enqueue, Unlock, NewChannel, EarlyUpdate,
           PostAdd, Wakeup, HandleLock, HandleDone, Publish, RoundDone, CallbackUpdate,
           CallbackRemove, CallbackReturn, tableVars, roundVars, vars
  <2>. QED
    BY <1>1, <2>1
<1>. QED
  BY <1>2, <1>3, <1>4, <1>5, <1>6

LEMMA BoundsStep ==
  ASSUME NoEarlyUpdate
  PROVE  TypeOK /\ MapFits /\ RoundInv /\ BoundsInv /\ [Next]_vars => BoundsInv'
BY PostsStep, CallStep, EventsStep, MapFitsStep DEF BoundsInv

\* channel_map is never read at or past its length, although the guard of the
\* code, fd > map->length, lets one index too many through: only a channel that
\* has been registered is looked up, unless a connection asks for an update
\* before its ADD is posted.
THEOREM MapReadsInBounds ==
  ASSUME NoEarlyUpdate
  PROVE  Spec => []MapAccessInBounds
<1>1. TypeOK /\ MapFits /\ BoundsInv => MapAccessInBounds
  <2>. SUFFICES ASSUME TypeOK, MapFits, BoundsInv PROVE MapAccessInBounds
    OBVIOUS
  <2>1. node \in Nat \ {0} /\ Len(pending) \in Nat
    BY DEF TypeOK, QueueType
  <2>. QED
    BY <2>1 DEF MapAccessInBounds, BoundsInv, PostsBelow, EventsBelow, Below
<1>2. Init => MapFits
  BY DEF Init, MapFits
<1>. QED
  BY <1>1, <1>2, TypeInit, TypeStep, MapFitsStep, RoundInit, RoundStep, BoundsInit,
     BoundsStep, PTL DEF Spec

NoPeerReset == "peer_reset" \notin Faults

LEMMA RegistryInit == Init => RegistryInv
<1>. SUFFICES ASSUME Init PROVE RegistryInv
  OBVIOUS
<1>1. pending = <<>> /\ batch = {} /\ running = Notify /\ created = {Notify}
      /\ open = {FdOf[Notify]} /\ proc = "running"
  BY DEF Init
<1>2. \A t \in Threads : op[t].chan = Notify
  BY DEF Init, Op
<1>3. \A f \in Fds : interest[f] = {} /\ map[f] = NoChannel
  BY DEF Init
<1>. QED
  BY <1>1, <1>2, <1>3 DEF RegistryInv, RegistryMatches

\* Steps of the threads, for which the map and the interest list are closed.
LEMMA RegistryFrame ==
  ASSUME TypeOK, RegistryInv, UNCHANGED <<map, interest, proc>>,
         \/ created' = created /\ open' = open
         \/ \E c \in Channels : /\ created' = created \union {c}
                                /\ open' = open \union ({FdOf[c]} \ {-1}),
         \/ pending' = pending \/ pending' = <<>>
         \/ \E t \in Threads : pc[t] = "enqueue" /\ pending' = Append(pending, op[t]),
         \A t \in Threads : op'[t] = op[t] \/ op'[t].chan \in created',
         running' = running \/ \E f \in Fds : map[f] # NoChannel /\ running' = map[f],
         \A e \in batch' : e.err => e \in batch
  PROVE  RegistryInv'
<1>1. pending \in Seq(Ops) /\ op \in [Threads -> Ops]
  BY DEF TypeOK, QueueType, CallType
<1>2. created \subseteq created' /\ open \subseteq open'
  OBVIOUS
<1>3. \A c \in created' : FdOf[c] # -1 => FdOf[c] \in open'
  BY DEF RegistryInv
<1>4. \A i \in 1 .. Len(pending') : pending'[i].chan \in created'
  <2>1. \A i \in 1 .. Len(pending') :
          \/ i \in 1 .. Len(pending) /\ pending'[i] = pending[i]
          \/ \E t \in Threads : pc[t] = "enqueue" /\ pending'[i] = op[t]
    BY <1>1
  <2>. QED
    BY <1>2, <2>1 DEF RegistryInv
<1>5. \A t \in Threads : op'[t].chan \in created'
  BY <1>2 DEF RegistryInv
<1>6. running' \in created' /\ \A f \in Fds : map'[f] # NoChannel => map'[f] \in created'
  BY <1>2 DEF RegistryInv
<1>7. (\A e \in batch' : ~e.err) /\ RegistryMatches'
  BY DEF RegistryInv, RegistryMatches
<1>. QED
  BY <1>3, <1>4, <1>5, <1>6, <1>7 DEF RegistryInv

\* No epoll_ctl fails: who is in an operation is open, and what is in the map
\* is in the interest list.
LEMMA RegistryNode ==
  ASSUME TypeOK, MapFits, RoundInv, BoundsInv, RegistryInv, HandleNode
  PROVE  RegistryInv'
<1>0. /\ map \in [Fds -> Channels \union {NoChannel}] /\ interest \in [Fds -> SUBSET Events]
      /\ proc = "running" /\ node \in 1 .. Len(pending)
      /\ NoChannel \notin Channels
      /\ \A f \in Fds : f \in Nat
      /\ UNCHANGED <<created, open, events, pending, pc, op, running, batch>>
  BY FdRange, ChannelsAssumption
     DEF TypeOK, TableType, QueueType, HandleNode, At, chanVars, roundVars, threadVars
<1>1. \A f \in Fds : map[f] # NoChannel => f \in open /\ interest[f] # {}
  BY <1>0 DEF RegistryInv, RegistryMatches, RoundInv
<1>2. \A f \in Fds : map[f] = NoChannel => interest[f] = {}
  BY <1>0 DEF RegistryInv, RegistryMatches
<1>3. ASSUME NEW c \in created, NEW ch \in created \union {NoChannel}, NEW evs,
             FdOf[c] \in Fds, map' = [map EXCEPT ![FdOf[c]] = ch],
             interest' = [interest EXCEPT ![FdOf[c]] = evs], proc' = proc,
             ch # NoChannel <=> evs # {}
      PROVE  RegistryInv'
  <2>1. \A f \in Fds : map'[f] # NoChannel <=> interest'[f] # {}
    BY <1>0, <1>1, <1>2, <1>3
  <2>2. \A f \in Fds : map'[f] # NoChannel => map'[f] \in created
    BY <1>0, <1>3 DEF RegistryInv
  <2>. QED
    BY <1>0, <1>3, <2>1, <2>2 DEF RegistryInv, RegistryMatches
<1>4. CASE UNCHANGED <<map, interest, proc>>
  BY <1>0, <1>4 DEF RegistryInv, RegistryMatches
<1>5. ASSUME NEW c \in Channels, pending[node] = Op("ADD", c), map[FdOf[c]] = NoChannel,
             Registers(c, c, FdOf[c] \in open /\ interest[FdOf[c]] = {}, events[c])
      PROVE  RegistryInv'
  <2>1. c \in created /\ FdOf[c] \in Fds /\ FdOf[c] # -1
    BY <1>0, <1>5 DEF RegistryInv, Registers, Op
  <2>2. FdOf[c] \in open /\ interest[FdOf[c]] = {} /\ events[c] # {} /\ c # NoChannel
    BY <1>0, <1>2, <1>5, <2>1 DEF RegistryInv, RoundInv
  <2>. QED
    BY <1>3, <1>5, <2>1, <2>2 DEF Registers
<1>6. ASSUME NEW c \in Channels, pending[node] = Op("DELETE", c), map[FdOf[c]] # NoChannel,
             Registers(c, NoChannel, FdOf[c] \in open /\ interest[FdOf[c]] # {}, {})
      PROVE  RegistryInv'
  <2>1. c \in created /\ FdOf[c] \in Fds
    BY <1>0, <1>6 DEF RegistryInv, Registers, Op
  <2>. QED
    BY <1>1, <1>3, <1>6, <2>1 DEF Registers
<1>7. ASSUME NEW c \in Channels, pending[node] = Op("UPDATE", c),
             map[FdOf[c]] # NoChannel \/ FdOf[c] = mapLen,
             Registers(c, map[FdOf[c]], FdOf[c] \in open /\ interest[FdOf[c]] # {}, events[c])
      PROVE  RegistryInv'
  <2>1. c \in created /\ FdOf[c] \in Fds /\ events[c] # {}
    BY <1>0, <1>7 DEF RegistryInv, RoundInv, Registers, Op
  <2>2. FdOf[c] < mapLen /\ FdOf[c] \in Nat
    BY <1>0, <1>7, <2>1 DEF BoundsInv, PostsBelow, Below, Op
  <2>3. mapLen \in Nat
    BY LengthsAssumption DEF TypeOK, TableType
  <2>4. map[FdOf[c]] # NoChannel
    BY <1>7, <2>2, <2>3
  <2>5. map[FdOf[c]] \in created
    BY <2>1, <2>4 DEF RegistryInv
  <2>. QED
    BY <1>1, <1>3, <1>7, <2>1, <2>4, <2>5 DEF Registers
<1>. QED
  BY <1>4, <1>5, <1>6, <1>7, NodeEffect

LEMMA RegistryStep ==
  ASSUME NoPeerReset, TypeOK, LockInv, MapFits, RoundInv, BoundsInv, RegistryInv, [Next]_vars
  PROVE  RegistryInv'
<1>0. /\ op \in [Threads -> Ops] /\ Owner \in Threads /\ running \in created
      /\ map \in [Fds -> Channels \union {NoChannel}] /\ interest \in [Fds -> SUBSET Events]
      /\ \A t \in Threads : op[t].chan \in created
  BY DEF TypeOK, TableType, CallType, Threads, RegistryInv
<1>1. CASE HandleNode
  BY <1>1, RegistryNode
<1>2. ASSUME NEW t \in Threads, ThreadStep(t) PROVE RegistryInv'
  <2>1. UNCHANGED <<map, interest, running, batch>>
    BY <1>2 DEF ThreadStep, Lock, Enqueue, Unlock, NewChannel, EarlyUpdate, PostAdd,
                tableVars, roundVars
  <2>2. /\ proc' = proc
        /\ \/ pending' = pending
           \/ pc[t] = "enqueue" /\ pending' = Append(pending, op[t])
    BY <1>2 DEF ThreadStep, Lock, Enqueue, Unlock, NewChannel, EarlyUpdate, PostAdd,
                queueVars, At, LockInv
  <2>3. CASE NewChannel(t)
    <3>1. PICK c \in Channels : /\ created' = created \union {c}
                                /\ open' = open \union ({FdOf[c]} \ {-1})
                                /\ op' = [op EXCEPT ![t] = Op("ADD", c)]
      BY <2>3 DEF NewChannel
    <3>2. \A u \in Threads : op'[u] = op[u] \/ op'[u].chan \in created'
      BY <1>0, <3>1 DEF Op
    <3>. QED
      BY <2>1, <2>2, <3>1, <3>2, RegistryFrame
  <2>4. CASE ~NewChannel(t)
    <3>1. UNCHANGED <<created, open>>
      BY <1>2, <2>4 DEF ThreadStep, Lock, Enqueue, Unlock, EarlyUpdate, PostAdd, chanVars
    <3>2. \A u \in Threads : op'[u] = op[u] \/ op'[u].chan \in created'
      BY <1>0, <1>2, <2>4, <3>1
         DEF ThreadStep, Lock, Enqueue, Unlock, EarlyUpdate, PostAdd, Post, Op
    <3>. QED
      BY <2>1, <2>2, <3>1, <3>2, RegistryFrame
  <2>. QED
    BY <2>3, <2>4
<1>3. ASSUME NEW p \in Posters, Wakeup(p) PROVE RegistryInv'
  <2>. UNCHANGED <<map, interest, proc, created, open, pending, running, batch, op>>
    BY <1>3 DEF Wakeup, tableVars, queueVars, chanVars, roundVars
  <2>. QED
    BY RegistryFrame
<1>4. CASE Wait
  <2>1. UNCHANGED <<map, interest, proc, created, open, pending, running, op>>
    BY <1>4 DEF Wait, tableVars, queueVars, chanVars
  <2>2. \A e \in batch' : ~e.err
    BY <1>4 DEF Wait, ConnEntries, NotifyEntry, NoPeerReset
  <2>. QED
    BY <2>1, <2>2, RegistryFrame
<1>5. CASE NextEntry
  <2>1. PICK e \in batch :
          /\ batch' = batch \ {e}
          /\ open' = IF e.err THEN open \ {e.fd} ELSE open
          /\ interest' = IF e.err THEN [interest EXCEPT ![e.fd] = {}] ELSE interest
    BY <1>5 DEF NextEntry
  <2>2. ~e.err
    BY DEF RegistryInv
  <2>3. UNCHANGED <<map, interest, proc, created, open, pending, running, op>>
    BY <1>5, <2>1, <2>2 DEF NextEntry, queueVars, threadVars
  <2>. QED
    BY <2>1, <2>3, RegistryFrame
<1>6. CASE Active
  <2>1. UNCHANGED <<map, interest, proc, created, open, pending, batch, op>>
    BY <1>6 DEF Active, tableVars, queueVars, chanVars
  <2>2. running' = running \/ \E f \in Fds : map[f] # NoChannel /\ running' = map[f]
    <3>1. current.fd \in Fds /\ NoChannel \notin Channels
      BY ChannelsAssumption DEF TypeOK, RoundType, Entries
    <3>. QED
      BY <1>6, <3>1 DEF Active
  <2>. QED
    BY <2>1, <2>2, RegistryFrame
<1>7. CASE CallbackUpdate \/ CallbackRemove
  <2>1. UNCHANGED <<map, interest, proc, created, open, pending, running, batch>>
    BY <1>7 DEF CallbackUpdate, CallbackRemove, tableVars, queueVars, chanVars, roundVars
  <2>2. \A u \in Threads : op'[u] = op[u] \/ op'[u].chan \in created'
    BY <1>0, <1>7, <2>1 DEF CallbackUpdate, CallbackRemove, Post, Op
  <2>. QED
    BY <2>1, <2>2, RegistryFrame
<1>8. CASE \/ HandleLock \/ HandleDone \/ Publish \/ RoundDone \/ CallbackReturn
           \/ UNCHANGED vars
  <2>1. /\ UNCHANGED <<map, interest, proc, created, open, running, batch, op>>
        /\ pending' = pending \/ pending' = <<>>
    BY <1>8 DEF HandleLock, HandleDone, Publish, RoundDone, CallbackReturn, tableVars,
                queueVars, chanVars, roundVars, threadVars, vars
  <2>. QED
    BY <2>1, RegistryFrame
<1>. QED
  BY <1>1, <1>2, <1>3, <1>4, <1>5, <1>6, <1>7, <1>8 DEF Next, OwnerStep

\* The map and the interest list of epoll never disagree, and no epoll_ctl ever
\* fails and ends the process, however the posts of the threads interleave, as
\* long as no peer resets its connection (the dispatcher then closes the
\* descriptor and leaves the map as it is).
THEOREM RegistryAlwaysMatches ==
  ASSUME NoEarlyUpdate, NoPeerReset
  PROVE  Spec => []RegistryMatches
<1>1. RegistryInv => RegistryMatches
  BY DEF RegistryInv
<1>2. Init => MapFits
  BY DEF Init, MapFits
<1>3. TypeOK /\ LockInv /\ MapFits /\ RoundInv /\ BoundsInv /\ RegistryInv /\ [Next]_vars
        => RegistryInv'
  BY RegistryStep
<1>. QED
  BY <1>1, <1>2, <1>3, TypeInit, TypeStep, LockInit, LockStep, MapFitsStep, RoundInit,
     RoundStep, BoundsInit, BoundsStep, RegistryInit, PTL DEF Spec

NoFaults == Faults = {}

LEMMA InterestInit == Init => InterestInv
<1>. SUFFICES ASSUME Init PROVE InterestInv
  OBVIOUS
<1>1. created = {Notify} /\ map = [f \in Fds |-> NoChannel]
  BY DEF Init
<1>2. ASSUME NEW c \in Channels PROVE FdOf[c] = -1 \/ map[FdOf[c]] # c
  BY <1>1, FdRange, ChannelsAssumption
<1>. QED
  BY <1>1, <1>2 DEF InterestInv, OwnFds, Current

\* A thread's step queues the update it has made and loses none.
LEMMA UpdateStays ==
  ASSUME NoFaults, TypeOK, LockInv, [Next]_vars, ~HandleNode, proc' = "running",
         NEW c \in Channels, UpdateComes(c)
  PROVE  UpdateComes(c)'
<1>. USE DEF At
<1>0. /\ op \in [Threads -> Ops] /\ pc \in [Threads -> OwnerPcs \union PosterPcs]
      /\ Owner \in Threads /\ pending \in Seq(Ops) /\ node \in 1 .. Len(pending) + 1
  BY DEF TypeOK, PcType, CallType, QueueType, Threads
<1>1. ASSUME NEW i \in node .. Len(pending), pending[i] = Op("UPDATE", c)
      PROVE  UpdateComes(c)'
  <2>1. CASE pending' = pending /\ node' = node
    BY <1>1, <2>1 DEF UpdateComes
  <2>2. ASSUME NEW t \in Threads, pending' = Append(pending, op[t]), node' = node
        PROVE  UpdateComes(c)'
    <3>1. Len(pending') = Len(pending) + 1 /\ pending'[i] = pending[i]
      BY <1>0, <1>1, <2>2
    <3>2. i \in node' .. Len(pending')
      BY <1>0, <1>1, <2>2, <3>1
    <3>. QED
      BY <1>1, <3>1, <3>2 DEF UpdateComes
  <2>3. ~HandleDone
    BY <1>0, <1>1 DEF HandleDone
  <2>. QED
    BY <2>1, <2>2, <2>3
       DEF Next, ThreadStep, OwnerStep, Lock, Enqueue, Unlock, NewChannel, EarlyUpdate,
           PostAdd, Wakeup, HandleLock, Publish, Wait, NextEntry, Active, RoundDone,
           CallbackUpdate, CallbackRemove, CallbackReturn, queueVars, vars
<1>2. ASSUME NEW t \in Threads, Updating(t, c) PROVE UpdateComes(c)'
  <2>0. pc[t] \in {"lock", "enqueue"} /\ op[t] = Op("UPDATE", c)
    BY <1>2 DEF Updating
  <2>1. CASE pc'[t] \in {"lock", "enqueue"} /\ op'[t] = op[t]
    BY <2>0, <2>1 DEF UpdateComes, Updating
  <2>2. CASE Enqueue(t)
    <3>1. /\ pending' = Append(pending, op[t]) /\ node' = node
      BY <2>2 DEF Enqueue, NoFaults
    <3>2. Len(pending') = Len(pending) + 1 /\ pending'[Len(pending) + 1] = op[t]
      BY <1>0, <3>1
    <3>3. Len(pending) + 1 \in node' .. Len(pending')
      BY <1>0, <3>1, <3>2
    <3>. QED
      BY <2>0, <3>2, <3>3 DEF UpdateComes
  <2>3. ASSUME NEW u \in Threads, ThreadStep(u), ~Enqueue(t)
        PROVE  pc'[t] \in {"lock", "enqueue"} /\ op'[t] = op[t]
    BY <1>0, <2>0, <2>3
       DEF ThreadStep, Lock, Enqueue, Unlock, NewChannel, EarlyUpdate, PostAdd, Post,
           Goto, Home
  <2>4. ASSUME NEW u \in Posters, Wakeup(u)
        PROVE  pc'[t] = pc[t] /\ op'[t] = op[t]
    <3>1. u \in Threads
      BY DEF Threads
    <3>. QED
      BY <1>0, <2>0, <2>4, <3>1 DEF Wakeup, Goto
  <2>5. ASSUME OwnerStep PROVE pc'[t] = pc[t] /\ op'[t] = op[t]
    <3>1. CASE t = Owner
      BY <1>0, <2>0, <2>5, <3>1
         DEF OwnerStep, HandleLock, HandleDone, Publish, Wait, NextEntry, Active,
             RoundDone, CallbackUpdate, CallbackRemove, CallbackReturn
    <3>2. CASE t # Owner
      BY <1>0, <2>0, <2>5, <3>2
         DEF OwnerStep, HandleLock, HandleDone, Publish, Wait, NextEntry, Active,
             RoundDone, CallbackUpdate, CallbackRemove, CallbackReturn, Post, Goto,
             threadVars
    <3>. QED
      BY <3>1, <3>2
  <2>. QED
    BY <2>0, <2>1, <2>2, <2>3, <2>4, <2>5 DEF Next, vars, threadVars
<1>. QED
  BY <1>1, <1>2 DEF UpdateComes

\* Handling a node leaves every channel with its own events, or with the
\* update that is still to come.
LEMMA InterestNode ==
  ASSUME TypeOK, MapFits, RegistryInv, RegistryInv', InterestInv, HandleNode
  PROVE  InterestInv'
<1>0. /\ map \in [Fds -> Channels \union {NoChannel}] /\ interest \in [Fds -> SUBSET Events]
      /\ pending \in Seq(Ops) /\ node \in 1 .. Len(pending) /\ node' = node + 1
      /\ proc = "running" /\ proc' # "exited"
      /\ NoChannel \notin Channels
      /\ UNCHANGED <<created, events, pending, pc, op>>
  BY ChannelsAssumption
     DEF TypeOK, TableType, QueueType, HandleNode, At, chanVars, threadVars,
         RegistryInv, RegistryMatches
<1>1. \A c, d \in created : FdOf[c] = FdOf[d] /\ FdOf[c] # -1 => c = d
  BY DEF InterestInv, OwnFds
<1>2. \A c \in Channels : FdOf[c] # -1 /\ map'[FdOf[c]] = c => c \in created
  BY <1>0, FdRange DEF RegistryInv
<1>3. ASSUME NEW c \in Channels, UpdateComes(c), pending[node] # Op("UPDATE", c)
      PROVE  UpdateComes(c)'
  <2>1. ASSUME NEW i \in node .. Len(pending), pending[i] = Op("UPDATE", c)
        PROVE  i \in node + 1 .. Len(pending)
    BY <1>0, <1>3, <2>1
  <2>2. CASE \E t \in Threads : Updating(t, c)
    BY <1>0, <2>2 DEF UpdateComes, Updating
  <2>3. ASSUME NEW i \in node .. Len(pending), pending[i] = Op("UPDATE", c)
        PROVE  UpdateComes(c)'
    <3>. i \in node' .. Len(pending') /\ pending'[i] = Op("UPDATE", c)
      BY <1>0, <2>1, <2>3
    <3>. QED
      BY DEF UpdateComes
  <2>. QED
    BY <1>3, <2>2, <2>3 DEF UpdateComes
<1>4. ASSUME NEW c \in Channels, pending[node] = Op("UPDATE", c) PROVE Current(c)'
  <2>1. HandleUpdate(c)
    <3>1. PICK d \in Channels :
            \/ pending[node] = Op("ADD", d) \/ pending[node] = Op("DELETE", d)
            \/ pending[node] = Op("UPDATE", d) /\ HandleUpdate(d)
      BY HandleCases
    <3>2. pending[node].type = "UPDATE" /\ pending[node].chan = c
      BY <1>4 DEF Op
    <3>. QED
      BY <3>1, <3>2 DEF Op
  <2>2. CASE FdOf[c] = -1
    BY <2>2 DEF Current
  <2>3. CASE FdOf[c] \in Fds /\ FdOf[c] \in Nat
    <3>1. mapLen \in Nat
      BY LengthsAssumption DEF TypeOK, TableType
    <3>2. map[FdOf[c]] = c => Accessed(FdOf[c])
      BY <1>0, <2>3, <3>1 DEF MapFits, Accessed
    <3>3. map[FdOf[c]] # c \/ interest'[FdOf[c]] = events[c]
      BY <1>0, <2>1, <2>3, <3>2 DEF HandleUpdate, EpollCtl, tableVars
    <3>4. map' = map
      BY <2>1 DEF HandleUpdate, tableVars
    <3>. QED
      BY <1>0, <3>3, <3>4 DEF Current
  <2>. QED
    BY <2>2, <2>3, FdRange
<1>5. ASSUME NEW c \in Channels, Current(c), pending[node] # Op("UPDATE", c)
      PROVE  Current(c)'
  <2>1. SUFFICES ASSUME FdOf[c] \in Fds, map'[FdOf[c]] = c
                 PROVE  interest'[FdOf[c]] = events[c]
    BY <1>0, FdRange DEF Current
  <2>2. CASE UNCHANGED <<map, interest, proc>>
    BY <1>5, <2>1, <2>2, FdRange DEF Current
  <2>3. ASSUME NEW d \in Channels, NEW ch, NEW ok, NEW evs, pending[node].chan = d,
               Registers(d, ch, ok, evs), ch = c /\ d = c => evs = events[c]
        PROVE  interest'[FdOf[c]] = events[c]
    <3>1. /\ map' = [map EXCEPT ![FdOf[d]] = ch] /\ FdOf[d] \in Fds
          /\ interest' = [interest EXCEPT ![FdOf[d]] = evs]
      BY <1>0, <2>3 DEF Registers
    <3>2. CASE FdOf[d] = FdOf[c]
      <4>1. d = c
        BY <1>0, <1>1, <1>2, <2>1, <2>3, <3>2, FdRange DEF RegistryInv
      <4>. QED
        BY <1>0, <2>1, <2>3, <3>1, <4>1
    <3>3. CASE FdOf[d] # FdOf[c]
      BY <1>0, <1>5, <2>1, <3>1, <3>3, FdRange DEF Current
    <3>. QED
      BY <3>2, <3>3
  <2>4. ASSUME NEW d \in Channels, pending[node] = Op("ADD", d),
               Registers(d, d, FdOf[d] \in open /\ interest[FdOf[d]] = {}, events[d])
        PROVE  interest'[FdOf[c]] = events[c]
    BY <2>3, <2>4 DEF Op
  <2>5. ASSUME NEW d \in Channels, pending[node] = Op("DELETE", d),
               Registers(d, NoChannel, FdOf[d] \in open /\ interest[FdOf[d]] # {}, {})
        PROVE  interest'[FdOf[c]] = events[c]
    BY <1>0, <2>3, <2>5 DEF Op
  <2>6. ASSUME NEW d \in Channels, pending[node] = Op("UPDATE", d),
               Registers(d, map[FdOf[d]], FdOf[d] \in open /\ interest[FdOf[d]] # {},
                         events[d])
        PROVE  interest'[FdOf[c]] = events[c]
    BY <1>5, <2>3, <2>6 DEF Op
  <2>. QED
    BY <2>2, <2>4, <2>5, <2>6, NodeEffect
<1>6. ASSUME NEW c \in Channels PROVE Current(c)' \/ UpdateComes(c)'
  BY <1>0, <1>3, <1>4, <1>5 DEF InterestInv
<1>. QED
  BY <1>0, <1>1, <1>6 DEF InterestInv, OwnFds

LEMMA OwnFdsStep == RegistryInv /\ OwnFds /\ [Next]_vars => OwnFds'
<1>. SUFFICES ASSUME RegistryInv, OwnFds, [Next]_vars PROVE OwnFds'
  OBVIOUS
<1>1. ASSUME NEW t \in Threads, NewChannel(t) PROVE OwnFds'
  BY <1>1 DEF NewChannel, RegistryInv, OwnFds
<1>2. CASE \A t \in Threads : ~NewChannel(t)
  <2>. created' = created
    BY <1>2
       DEF Next, ThreadStep, OwnerStep, Lock, Enqueue, Unlock, EarlyUpdate, PostAdd,
           Wakeup, HandleLock, HandleNode, HandleDone, Publish, Wait, NextEntry, Active,
           RoundDone, CallbackUpdate, CallbackRemove, CallbackReturn, chanVars, vars
  <2>. QED
    BY DEF OwnFds
<1>. QED
  BY <1>1, <1>2

\* The other steps: the map and the interest list stay, the events of a channel
\* change only together with the update that announces them, and a new channel
\* gets a descriptor of its own.
LEMMA InterestStep ==
  ASSUME NoFaults, TypeOK, LockInv, MapFits, RoundInv, BoundsInv, RegistryInv, InterestInv,
         [Next]_vars
  PROVE  InterestInv'
<1>. USE DEF At
<1>0. /\ map \in [Fds -> Channels \union {NoChannel}] /\ events \in [Channels -> SUBSET Events]
      /\ op \in [Threads -> Ops] /\ pc \in [Threads -> OwnerPcs \union PosterPcs]
      /\ running \in Channels /\ Owner \in Threads
  BY DEF TypeOK, TableType, ChanType, RoundType, PcType, CallType, Threads
<1>1. CASE HandleNode
  <2>. RegistryInv'
    BY <1>1, RegistryNode
  <2>. QED
    BY <1>1, InterestNode
<1>2. CASE ~HandleNode
  <2>1. \A e \in batch : ~e.err
    BY DEF RegistryInv
  <2>2. UNCHANGED <<map, interest>>
    BY <1>2, <2>1
       DEF Next, ThreadStep, OwnerStep, Lock, Enqueue, Unlock, NewChannel, EarlyUpdate,
           PostAdd, Wakeup, HandleLock, HandleDone, Publish, Wait, NextEntry, Active,
           RoundDone, CallbackUpdate, CallbackRemove, CallbackReturn, tableVars, vars
  <2>3. OwnFds'
    BY OwnFdsStep DEF InterestInv
  <2>4. ASSUME proc' = "running", NEW c \in Channels PROVE Current(c)' \/ UpdateComes(c)'
    <3>1. proc = "running"
      BY <1>2, <2>4
         DEF Next, ThreadStep, OwnerStep, Lock, Enqueue, Unlock, NewChannel, EarlyUpdate,
             PostAdd, Wakeup, HandleLock, HandleDone, Publish, Wait, NextEntry, Active,
             RoundDone, CallbackUpdate, CallbackRemove, CallbackReturn, vars
    <3>2. CASE UpdateComes(c)
      BY <1>2, <2>4, <3>2, UpdateStays
    <3>3. CASE Current(c) /\ events' = events
      BY <2>2, <3>3 DEF Current
    <3>4. CASE events' # events
      <4>1. CallbackUpdate
        BY <1>2, <3>4
           DEF Next, ThreadStep, OwnerStep, Lock, Enqueue, Unlock, NewChannel,
               EarlyUpdate, PostAdd, Wakeup, HandleLock, HandleDone, Publish, Wait,
               NextEntry, Active, RoundDone, CallbackRemove, CallbackReturn, chanVars,
               vars, NoFaults
      <4>2. CASE c = running
        <5>. pc'[Owner] = "lock" /\ op'[Owner] = Op("UPDATE", c)
          BY <1>0, <4>1, <4>2 DEF CallbackUpdate, Post, Goto
        <5>. QED
          BY <1>0 DEF UpdateComes, Updating
      <4>3. CASE c # running /\ Current(c)
        <5>. events'[c] = events[c]
          BY <1>0, <4>1, <4>3 DEF CallbackUpdate
        <5>. QED
          BY <2>2, <4>3 DEF Current
      <4>. QED
        BY <1>2, <2>4, <3>1, <3>2, <4>2, <4>3 DEF InterestInv
    <3>. QED
      BY <3>1, <3>2, <3>3, <3>4 DEF InterestInv
  <2>. QED
    BY <2>3, <2>4 DEF InterestInv
<1>. QED
  BY <1>1, <1>2

\* When the owner sleeps in epoll_wait, epoll waits for the events every
\* registered channel asks for, or the update is posted: an interest in EPOLLOUT
\* is never forgotten, for any number of threads and connections.
THEOREM InterestAlwaysCurrent ==
  ASSUME NoFaults
  PROVE  Spec => []InterestCurrent
<1>1. TypeOK /\ LockInv /\ InterestInv => InterestCurrent
  <2>. SUFFICES ASSUME TypeOK, LockInv, InterestInv, proc = "running", pc[Owner] = "wait",
                       NEW c \in Channels
                PROVE  \/ FdOf[c] = -1 \/ map[FdOf[c]] # c
                       \/ interest[FdOf[c]] = events[c]
                       \/ \E i \in 1 .. Len(pending) : pending[i] = Op("UPDATE", c)
                       \/ \E t \in Threads : Updating(t, c)
    BY DEF InterestCurrent
  <2>1. node = 1
    BY DEF LockInv
  <2>. QED
    BY <2>1 DEF InterestInv, Current, UpdateComes
<1>2. NoEarlyUpdate /\ NoPeerReset
  BY DEF NoFaults, NoEarlyUpdate, NoPeerReset
<1>3. Init => MapFits
  BY DEF Init, MapFits
<1>4. TypeOK /\ MapFits /\ RoundInv /\ BoundsInv /\ [Next]_vars => BoundsInv'
  BY <1>2, BoundsStep
<1>5. TypeOK /\ LockInv /\ MapFits /\ RoundInv /\ BoundsInv /\ RegistryInv /\ [Next]_vars
        => RegistryInv'
  BY <1>2, RegistryStep
<1>6. TypeOK /\ LockInv /\ MapFits /\ RoundInv /\ BoundsInv /\ RegistryInv /\ InterestInv
        /\ [Next]_vars => InterestInv'
  BY InterestStep
<1>. QED
  BY <1>1, <1>3, <1>4, <1>5, <1>6, TypeInit, TypeStep, LockInit, LockStep, MapFitsStep,
     RoundInit, RoundStep, BoundsInit, RegistryInit, InterestInit, PTL DEF Spec

LEMMA AddInit == Init => AddInv
<1>. SUFFICES ASSUME Init PROVE AddInv
  OBVIOUS
<1>1. /\ pending = <<>> /\ created = {Notify}
      /\ \A f \in Fds : map[f] = NoChannel
      /\ \A t \in Threads : pc[t] = IF t = Owner THEN "lock" ELSE "idle"
      /\ \A t \in Threads : op[t] = Op("ADD", Notify)
      /\ \A t \in Threads : ret[t] # "created"
  BY DEF Init
<1>2. \A t \in Threads, c \in Channels : Adding(t, c) => t = Owner /\ c = Notify
  BY <1>1 DEF Adding, Op
<1>3. \A c \in Channels : AddedOnce(c)
  BY <1>1, <1>2, ChannelsAssumption DEF AddedOnce
<1>. QED
  BY <1>1, <1>3 DEF AddInv

\* Nothing changes for c when its ADD stays where it is or is dropped by the
\* thread that was to queue it.
LEMMA AddFrame ==
  ASSUME NEW c \in Channels, AddedOnce(c), UNCHANGED <<map, node>>,
         pending' = pending \/ pending' = <<>>, created \subseteq created',
         \A t \in Threads : Adding(t, c)' => Adding(t, c)
  PROVE  AddedOnce(c)'
BY DEF AddedOnce

LEMMA AddStep ==
  ASSUME NoEarlyUpdate, TypeOK, RegistryInv, AddInv, [Next]_vars
  PROVE  AddInv'
<1>. USE DEF At
<1>0. /\ op \in [Threads -> Ops] /\ pc \in [Threads -> OwnerPcs \union PosterPcs]
      /\ ret \in [Threads -> {"init_done", "wait", "callback", "created", "idle"}]
      /\ pending \in Seq(Ops) /\ node \in 1 .. Len(pending) + 1 /\ Owner \in Threads
      /\ map \in [Fds -> Channels \union {NoChannel}] /\ NoChannel \notin Channels
  BY ChannelsAssumption DEF TypeOK, QueueType, TableType, PcType, CallType, Threads
<1>1. \A t \in Threads : ret'[t] # "created"
  <2>1. ASSUME NEW t \in Threads, ThreadStep(t) PROVE \A u \in Threads : ret'[u] # "created"
    BY <1>0, <2>1
       DEF ThreadStep, Lock, Enqueue, Unlock, NewChannel, EarlyUpdate, PostAdd, Post,
           Home, AddInv, NoEarlyUpdate
  <2>2. CASE OwnerStep
    BY <1>0, <2>2
       DEF OwnerStep, HandleLock, HandleNode, HandleDone, Publish, Wait, NextEntry, Active,
           RoundDone, CallbackUpdate, CallbackRemove, CallbackReturn, Post, AddInv,
           threadVars
  <2>3. CASE (\E p \in Posters : Wakeup(p)) \/ UNCHANGED vars
    BY <2>3 DEF Wakeup, AddInv, vars, threadVars
  <2>. QED
    BY <2>1, <2>2, <2>3 DEF Next
<1>2. \A t \in Threads : pc'[t] = "created" => op'[t].type = "ADD"
  <2>1. ASSUME NEW t \in Threads, ThreadStep(t), NEW u \in Threads, pc'[u] = "created"
        PROVE  op'[u].type = "ADD"
    BY <1>0, <2>1
       DEF ThreadStep, Lock, Enqueue, Unlock, NewChannel, EarlyUpdate, PostAdd, Post,
           Goto, AddInv, NoEarlyUpdate, Op
  <2>2. ASSUME OwnerStep, NEW u \in Threads, pc'[u] = "created"
        PROVE  op'[u].type = "ADD"
    BY <1>0, <2>2
       DEF OwnerStep, HandleLock, HandleNode, HandleDone, Publish, Wait, NextEntry, Active,
           RoundDone, CallbackUpdate, CallbackRemove, CallbackReturn, Post, Goto, AddInv,
           threadVars
  <2>3. CASE (\E p \in Posters : Wakeup(p)) \/ UNCHANGED vars
    BY <1>0, <2>3 DEF Wakeup, Goto, AddInv, Threads, vars, threadVars
  <2>. QED
    BY <2>1, <2>2, <2>3 DEF Next
<1>3. SUFFICES ASSUME NEW c \in Channels PROVE AddedOnce(c)'
  BY <1>1, <1>2 DEF AddInv
<1>4. AddedOnce(c)
  BY DEF AddInv
<1>5. ASSUME NEW t \in Threads, ThreadStep(t) PROVE AddedOnce(c)'
  <2>0. UNCHANGED <<map, node>> /\ created \subseteq created'
    BY <1>5 DEF ThreadStep, Lock, Enqueue, Unlock, NewChannel, EarlyUpdate, PostAdd,
                tableVars, queueVars, chanVars
  <2>1. CASE Lock(t) \/ Unlock(t) \/ PostAdd(t) \/ (Enqueue(t) /\ pending' = pending)
    <3>1. pending' = pending
      BY <2>1 DEF Lock, Unlock, PostAdd, queueVars
    <3>2. \A u \in Threads : Adding(u, c)' => Adding(u, c)
      <4>1. CASE ~PostAdd(t)
        BY <1>0, <2>1, <4>1 DEF Lock, Unlock, Enqueue, Goto, Adding
      <4>2. CASE PostAdd(t)
        <5>1. pc[t] = "created" /\ op[t] = Op("ADD", op[t].chan)
          BY <1>0, <4>2 DEF PostAdd, AddInv, Op, Ops
        <5>2. op' = op /\ pc' = [pc EXCEPT ![t] = "lock"]
          BY <1>0, <4>2, <5>1 DEF PostAdd, Post, Goto
        <5>. QED
          BY <1>0, <5>1, <5>2 DEF Adding
      <4>. QED
        BY <4>1, <4>2
    <3>. QED
      BY <1>4, <2>0, <3>1, <3>2, AddFrame
  <2>2. CASE Enqueue(t) /\ pending' # pending
    <3>1. /\ pending' = Append(pending, op[t]) /\ pc[t] = "enqueue"
          /\ pc' = [pc EXCEPT ![t] = "unlock"] /\ op' = op /\ created' = created
      BY <2>2 DEF Enqueue, Goto, chanVars
    <3>2. /\ Len(pending') = Len(pending) + 1 /\ pending'[Len(pending) + 1] = op[t]
          /\ \A i \in 1 .. Len(pending) : pending'[i] = pending[i]
      BY <1>0, <3>1
    <3>3. \A u \in Threads : Adding(u, c)' <=> Adding(u, c) /\ u # t
      BY <1>0, <3>1 DEF Adding
    <3>4. CASE op[t] = Op("ADD", c)
      <4>1. Adding(t, c)
        BY <3>1, <3>4 DEF Adding
      <4>2. /\ \A i \in 1 .. Len(pending) : pending[i] # Op("ADD", c)
            /\ \A u \in Threads : Adding(u, c) => u = t
            /\ c \in created /\ \A f \in Fds : map[f] # c
        BY <1>4, <4>1 DEF AddedOnce
      <4>3. \A i \in 1 .. Len(pending') : pending'[i] = Op("ADD", c) => i = Len(pending) + 1
        BY <1>0, <3>2, <4>2
      <4>. QED
        BY <2>0, <3>1, <3>3, <4>2, <4>3 DEF AddedOnce
    <3>5. CASE op[t] # Op("ADD", c)
      <4>1. \A u \in Threads : Adding(u, c)' <=> Adding(u, c)
        BY <3>3, <3>5 DEF Adding
      <4>2. \A i : i \in 1 .. Len(pending') /\ pending'[i] = Op("ADD", c)
                     <=> i \in 1 .. Len(pending) /\ pending[i] = Op("ADD", c)
        BY <1>0, <3>2, <3>5
      <4>. QED
        BY <1>4, <2>0, <3>1, <4>1, <4>2 DEF AddedOnce
    <3>. QED
      BY <3>4, <3>5
  <2>3. CASE NewChannel(t)
    <3>1. PICK d \in Channels \ created :
            created' = created \union {d} /\ op' = [op EXCEPT ![t] = Op("ADD", d)]
      BY <2>3 DEF NewChannel
    <3>2. pending' = pending /\ pc[t] \notin {"created", "lock", "enqueue"}
          /\ \A u \in Threads \ {t} : pc'[u] = pc[u] /\ op'[u] = op[u]
      BY <1>0, <2>3, <3>1 DEF NewChannel, Home, Goto, queueVars
    <3>3. CASE c = d
      <4>1. \A u \in Threads : op[u].chan # c
        BY <3>3 DEF RegistryInv
      <4>2. \A u \in Threads : Adding(u, c)' => u = t
        BY <3>2, <4>1 DEF Adding, Op
      <4>3. \A i \in 1 .. Len(pending) : pending[i] # Op("ADD", c)
        BY <3>3 DEF RegistryInv, Op
      <4>4. \A f \in Fds : map[f] # c
        BY <1>0, <3>3 DEF RegistryInv
      <4>. QED
        BY <2>0, <3>1, <3>2, <3>3, <4>2, <4>3, <4>4 DEF AddedOnce
    <3>4. CASE c # d
      <4>. \A u \in Threads : Adding(u, c)' => Adding(u, c)
        BY <1>0, <3>1, <3>2, <3>4 DEF Adding, Op
      <4>. QED
        BY <1>4, <2>0, <3>2, AddFrame
    <3>. QED
      BY <3>3, <3>4
  <2>4. ~EarlyUpdate(t)
    BY DEF EarlyUpdate, NoEarlyUpdate
  <2>. QED
    BY <1>5, <2>1, <2>2, <2>3, <2>4 DEF ThreadStep
<1>6. CASE HandleNode
  <2>1. /\ UNCHANGED <<pending, created, pc, op>> /\ node' = node + 1
        /\ node \in 1 .. Len(pending)
    BY <1>0, <1>6 DEF HandleNode, chanVars, threadVars
  <2>2. \A f \in Fds : map'[f] = c => map[f] = c \/ pending[node] = Op("ADD", c)
    BY <1>0, <1>6, NodeEffect DEF Registers
  <2>3. \A u \in Threads : Adding(u, c)' <=> Adding(u, c)
    BY <2>1 DEF Adding
  <2>. DEFINE adds  == {i \in 1 .. Len(pending) : pending[i] = Op("ADD", c)}
              posts == {u \in Threads : Adding(u, c)}
  <2>4. /\ \A i, j \in adds : i = j
        /\ \A u, v \in posts : u = v
        /\ adds = {} \/ posts = {}
    BY <1>4 DEF AddedOnce
  <2>5. ASSUME posts # {} \/ (\E i \in adds : i >= node + 1)
        PROVE  c \in created /\ \A f \in Fds : map'[f] # c
    <3>1. posts # {} \/ (\E i \in adds : i >= node)
      BY <2>1, <2>5
    <3>2. pending[node] # Op("ADD", c)
      BY <2>1, <2>4, <2>5
    <3>3. c \in created /\ \A f \in Fds : map[f] # c
      BY <1>4, <3>1 DEF AddedOnce
    <3>. QED
      BY <2>2, <3>2, <3>3
  <2>. QED
    BY <2>1, <2>3, <2>4, <2>5 DEF AddedOnce
<1>7. CASE OwnerStep /\ ~HandleNode
  <2>1. /\ map' = map /\ created' = created
        /\ \/ pending' = pending /\ node' = node
           \/ pending' = <<>> /\ node' = 1
    BY <1>7 DEF OwnerStep, HandleLock, HandleDone, Publish, Wait, NextEntry, Active,
                RoundDone, CallbackUpdate, CallbackRemove, CallbackReturn, queueVars,
                tableVars, chanVars
  <2>2. \A u \in Threads : Adding(u, c)' => Adding(u, c)
    BY <1>0, <1>7
       DEF OwnerStep, HandleLock, HandleDone, Publish, Wait, NextEntry, Active,
           RoundDone, CallbackUpdate, CallbackRemove, CallbackReturn, Post, Goto,
           Adding, AddInv, Op, threadVars
  <2>. QED
    BY <1>4, <2>1, <2>2 DEF AddedOnce
<1>8. CASE (\E p \in Posters : Wakeup(p)) \/ UNCHANGED vars
  <2>1. UNCHANGED <<map, node, pending, created>>
    BY <1>8 DEF Wakeup, queueVars, tableVars, chanVars, vars
  <2>2. \A u \in Threads : Adding(u, c)' => Adding(u, c)
    BY <1>0, <1>8 DEF Wakeup, Goto, Adding, AddInv, Threads, vars, threadVars
  <2>. QED
    BY <1>4, <2>1, <2>2, AddFrame
<1>. QED
  BY <1>5, <1>6, <1>7, <1>8 DEF Next

\* Handling the ADD of an open connection registers it, whatever the threads
\* posted before, unless a peer resets its connection: the descriptor that the
\* dispatcher then closes is used again while the map still holds its channel.
THEOREM EveryAddRegisters ==
  ASSUME NoEarlyUpdate, NoPeerReset
  PROVE  Spec => AddRegisters
<1>1. TypeOK /\ RoundInv /\ RegistryInv /\ OwnFds /\ AddInv /\ [Next]_vars
        => [\A c \in Channels :
              HandleNode /\ pending[node] = Op("ADD", c) /\ FdOf[c] # -1 =>
                map'[FdOf[c]] = c /\ interest'[FdOf[c]] = events[c]]_vars
  <2>. SUFFICES ASSUME TypeOK, RoundInv, RegistryInv, OwnFds, AddInv, NEW c \in Channels,
                       HandleNode, pending[node] = Op("ADD", c), FdOf[c] # -1
                PROVE  map'[FdOf[c]] = c /\ interest'[FdOf[c]] = events[c]
    OBVIOUS
  <2>1. /\ node \in 1 .. Len(pending) /\ proc = "running"
        /\ map \in [Fds -> Channels \union {NoChannel}]
        /\ interest \in [Fds -> SUBSET Events]
        /\ FdOf[c] \in Fds /\ FdOf[c] \in Nat
    BY FdRange DEF HandleNode, At, TypeOK, QueueType, TableType
  <2>2. c \in created /\ \A f \in Fds : map[f] # c
    BY <2>1 DEF AddInv, AddedOnce
  <2>3. map[FdOf[c]] = NoChannel
    BY <2>1, <2>2 DEF RoundInv, RegistryInv, OwnFds
  <2>4. FdOf[c] \in open /\ interest[FdOf[c]] = {}
    BY <2>1, <2>2, <2>3 DEF RegistryInv, RegistryMatches
  <2>5. HandleAdd(c)
    <3>1. PICK d \in Channels :
            \/ pending[node] = Op("ADD", d) /\ HandleAdd(d)
            \/ pending[node] = Op("DELETE", d) \/ pending[node] = Op("UPDATE", d)
      BY HandleCases
    <3>2. pending[node].type = "ADD" /\ pending[node].chan = c
      BY DEF Op
    <3>. QED
      BY <3>1, <3>2 DEF Op
  <2>. QED
    BY <2>1, <2>3, <2>4, <2>5 DEF HandleAdd, EpollCtl
<1>2. Init => MapFits
  BY DEF Init, MapFits
<1>3. Init => OwnFds
  BY InterestInit DEF InterestInv
<1>4. TypeOK /\ MapFits /\ RoundInv /\ BoundsInv /\ [Next]_vars => BoundsInv'
  BY BoundsStep
<1>5. TypeOK /\ LockInv /\ MapFits /\ RoundInv /\ BoundsInv /\ RegistryInv /\ [Next]_vars
        => RegistryInv'
  BY RegistryStep
<1>6. TypeOK /\ RegistryInv /\ AddInv /\ [Next]_vars => AddInv'
  BY AddStep
<1>. QED
  BY <1>1, <1>2, <1>3, <1>4, <1>5, <1>6, TypeInit, TypeStep, LockInit, LockStep, MapFitsStep,
     RoundInit, RoundStep, BoundsInit, RegistryInit, OwnFdsStep, AddInit, PTL
     DEF Spec, AddRegisters

-----------------------------------------------------------------------------
(* Refinement: EventLoop implements the safety part of ChannelOpQueue.  The *)
(* operations still to be applied are SubSeq(pending, node, Len(pending)):  *)
(* Enqueue is the Post of the abstract queue, HandleNode its Apply, every   *)
(* other step a stutter.                                                    *)

\* The state function that implements Queue!todo.
Todo == SubSeq(pending, node, Len(pending))

LEMMA OpsAgree == Queue!Ops = Ops /\ Queue!Fds = Fds
BY DEF Queue!Ops, Ops, OpTypes, Queue!Fds, Fds

LEMMA RefinementInit == Init => Queue!Init
<1>. SUFFICES ASSUME Init PROVE Queue!Init
  OBVIOUS
<1>1. SubSeq(<<>>, 1, 0) = <<>>
  BY SubSeqEmpty
<1>2. Todo = <<>>
  BY <1>1, EmptyQueue DEF Init, Todo
<1>. QED
  BY <1>2, OpsAgree DEF Init, Queue!Init, Todo

\* The node at the head of the list of pending operations is the oldest one.
LEMMA RefinementApply ==
  ASSUME TypeOK, MapFits, HandleNode
  PROVE  Queue!Apply
<1>1. pending \in Seq(Ops) /\ node \in 1 .. Len(pending)
      /\ pending' = pending /\ node' = node + 1
  BY DEF HandleNode, TypeOK, QueueType
<1>2. Head(Todo) = pending[node] /\ Tail(Todo) = SubSeq(pending, node + 1, Len(pending))
  BY <1>1, HeadTailOfSubSeq DEF Todo
<1>3. Todo # <<>>
  <2>1. Len(Todo) = Len(pending) - node + 1
    BY <1>1, SubSeqProperties DEF Todo
  <2>. QED
    BY <1>1, <2>1
<1>4. Todo' = Tail(Todo)
  BY <1>1, <1>2 DEF Todo
<1>5. PICK c \in Channels :
        \/ pending[node] = Op("ADD", c) /\ HandleAdd(c)
        \/ pending[node] = Op("DELETE", c) /\ HandleRemove(c)
        \/ pending[node] = Op("UPDATE", c) /\ HandleUpdate(c)
  BY HandleCases
<1>. DEFINE fd == FdOf[c]
<1>6. fd = -1 \/ (fd \in Fds /\ fd \in Nat)
  BY FdRange
<1>7. map' = Queue!Applied(map, pending[node])
  <2>1. CASE pending[node] = Op("ADD", c) /\ HandleAdd(c)
    <3>1. CASE fd = -1
      BY <2>1, <3>1 DEF HandleAdd, Queue!Applied, Op, tableVars
    <3>2. CASE fd \in Nat
      BY <2>1, <3>2 DEF HandleAdd, Queue!Applied, Op
    <3>. QED
      BY <1>6, <3>1, <3>2
  <2>2. CASE pending[node] = Op("DELETE", c) /\ HandleRemove(c)
    <3>1. CASE fd = -1
      BY <2>2, <3>1 DEF HandleRemove, Accessed, Queue!Applied, Op, tableVars
    <3>2. CASE fd \in Fds /\ fd \in Nat
      <4>1. Queue!Applied(map, pending[node]) = [map EXCEPT ![fd] = NoChannel]
        BY <2>2, <3>2 DEF Queue!Applied, Op
      <4>2. ~Accessed(fd) => map[fd] = NoChannel
        BY <3>2, LengthsAssumption DEF Accessed, MapFits, TypeOK, TableType
      <4>3. map' = map \/ map' = [map EXCEPT ![fd] = NoChannel]
        BY <2>2 DEF HandleRemove, tableVars
      <4>4. map' = map => map[fd] = NoChannel
        BY <2>2, <3>2, <4>2 DEF HandleRemove, tableVars, TypeOK, TableType
      <4>. QED
        BY <4>1, <4>3, <4>4 DEF TypeOK, TableType
    <3>. QED
      BY <1>6, <3>1, <3>2
  <2>3. CASE pending[node] = Op("UPDATE", c) /\ HandleUpdate(c)
    BY <2>3 DEF HandleUpdate, Queue!Applied, Op, tableVars
  <2>. QED
    BY <1>5, <2>1, <2>2, <2>3
<1>. QED
  BY <1>2, <1>3, <1>4, <1>7 DEF Queue!Apply, Todo

\* A node added at the tail is a Post; a failed malloc or assertion is not.
LEMMA RefinementPost ==
  ASSUME TypeOK, LockInv, NEW t \in Threads, Enqueue(t)
  PROVE  (\E o \in Queue!Ops : Queue!Post(o)) \/ UNCHANGED Queue!vars
<1>1. pc[Owner] # "walk"
  BY ThreadsAssumption DEF Enqueue, At, LockInv, Threads
<1>2. node = 1 /\ node' = 1 /\ map' = map
  BY <1>1 DEF Enqueue, LockInv, tableVars
<1>3. pending \in Seq(Ops) /\ op[t] \in Ops
  BY DEF TypeOK, QueueType, CallType
<1>4. CASE pending' = pending
  BY <1>2, <1>4 DEF Queue!vars
<1>5. CASE pending' = Append(pending, op[t])
  <2>1. pending' \in Seq(Ops)
    BY <1>3, <1>5
  <2>2. Todo = pending /\ Todo' = pending'
    BY <1>2, <1>3, <2>1, SubSeqFull DEF Todo
  <2>3. Queue!Post(op[t])
    BY <1>2, <1>5, <2>2 DEF Queue!Post, Todo
  <2>. QED
    BY <1>3, <2>3, OpsAgree
<1>. QED
  BY <1>4, <1>5 DEF Enqueue

LEMMA RefinementStep ==
  TypeOK /\ LockInv /\ MapFits /\ [Next]_vars => [Queue!Next]_(Queue!vars)
<1>. SUFFICES ASSUME TypeOK, LockInv, MapFits, [Next]_vars
              PROVE  [Queue!Next]_(Queue!vars)
  OBVIOUS
<1>1. ASSUME NEW t \in Threads, Enqueue(t) PROVE [Queue!Next]_(Queue!vars)
  BY <1>1, RefinementPost DEF Queue!Next
<1>2. CASE HandleNode
  BY <1>2, RefinementApply DEF Queue!Next
<1>3. CASE HandleDone
  <2>1. Todo = <<>>
    BY <1>3, SubSeqEmpty DEF HandleDone, Todo, TypeOK, QueueType
  <2>2. Todo' = <<>>
    BY <1>3, EmptyQueue, SubSeqEmpty DEF HandleDone, Todo
  <2>. QED
    BY <1>3, <2>1, <2>2 DEF HandleDone, Todo, Queue!vars, tableVars
<1>4. CASE UNCHANGED <<pending, node, map>>
  BY <1>4 DEF Queue!vars
<1>5. CASE ~(\E t \in Threads : Enqueue(t)) /\ ~HandleNode /\ ~HandleDone
  BY <1>4, <1>5
     DEF Next, ThreadStep, OwnerStep, Lock, Unlock, NewChannel,
         EarlyUpdate, PostAdd, Wakeup, HandleLock, Publish, Wait,
         NextEntry, Active, RoundDone, CallbackUpdate, CallbackRemove,
         CallbackReturn, queueVars, tableVars, vars
<1>. QED
  BY <1>1, <1>2, <1>3, <1>5

\* Every operation takes effect exactly once and in the order of the posts,
\* for any number of threads and any fault.
THEOREM ImplementsQueue == Spec => RefinementSafety
  BY TypeInit, TypeStep, LockInit, LockStep, MapAlwaysFits, RefinementInit,
     RefinementStep, PTL DEF Spec, RefinementSafety, Queue!Spec

=============================================================================
