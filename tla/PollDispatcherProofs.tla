------------------------ MODULE PollDispatcherProofs ------------------------
(***************************************************************************)
(* Proofs about PollDispatcher, for any number of slots and of channels.   *)
(***************************************************************************)
EXTENDS PollDispatcher, FiniteSetTheorems, TLAPS

\* Slots the walk has still to look at, the one it is at among them, that have
\* something to tell.
Ready == {s \in Index : s >= i /\ revents[s] # {}}

\* The slots after the one that has been copied, or from the one being looked at.
Ahead(s) == IF pc = "walk" THEN s >= i ELSE s > i

\* A slot ahead still belongs to the channel poll reported for: callbacks free
\* only the slot the walk is at, and a new channel takes the first free slot.
AheadInv ==
  pc \in {"walk", "copy", "callback"} =>
    /\ i \in Index
    /\ left > 0 /\ left = Cardinality(Ready)
    /\ \A s \in Index : Ahead(s) /\ revents[s] # {} =>
         fd[s] \in map /\ revents[s] = reported[fd[s]]
    /\ \A c \in map : c # current \/ pc = "walk" =>
         \/ \E s \in Index : Ahead(s) /\ fd[s] = c /\ revents[s] # {}
         \/ reported[c] \intersect Events \subseteq delivered[c]

\* The channel whose events are being delivered has no other slot.
CopyInv ==
  pc \in {"copy", "callback"} =>
    /\ revents[i] # {}
    /\ current \in created
    /\ rest \subseteq reported[current]
    /\ current \in map => reported[current] \intersect Events \subseteq delivered[current] \union rest
    /\ \A s \in Index : fd[s] = current => s = i

\* Between two rounds nothing has been delivered, and nothing is ever reported
\* for a channel that is not there.
QuietInv ==
  /\ pc = "wait" => i = 1 /\ \A c \in Channels : delivered[c] = {}
  /\ \A c \in Channels \ created : reported[c] = {}

DispatchInv == EventsMatch /\ AheadInv /\ CopyInv /\ QuietInv

LEMMA TypeInit == Init => TypeOK
BY ChannelsAssumption, SlotsAssumption DEF Init, TypeOK, Index, Events

\* Sets of slots are finite and can be counted.
LEMMA SlotsFinite ==
  ASSUME NEW S \in SUBSET Index
  PROVE  IsFiniteSet(S) /\ Cardinality(S) \in 0 .. Slots
<1>1. IsFiniteSet(Index) /\ Cardinality(Index) = Slots
  BY FS_Interval, SlotsAssumption DEF Index
<1>. QED
  BY <1>1, FS_Subset, FS_CardinalityType, SlotsAssumption

LEMMA TypeStep == TypeOK /\ AheadInv /\ [Next]_vars => TypeOK'
<1>. SUFFICES ASSUME TypeOK, AheadInv, [Next]_vars PROVE TypeOK'
  OBVIOUS
<1>. USE ChannelsAssumption, SlotsAssumption
<1>1. CASE Poll
  <2>1. left' \in 0 .. Slots
    <3>. {s \in Index : revents'[s] # {}} \in SUBSET Index
      OBVIOUS
    <3>. QED
      BY <1>1, SlotsFinite DEF Poll
  <2>2. revents' \in [Index -> SUBSET (Events \union {"ERR"})]
    BY <1>1 DEF Poll
  <2>3. reported' \in [Channels -> SUBSET (Events \union {"ERR"})]
    BY <1>1, <2>2 DEF Poll
  <2>. QED
    BY <1>1, <2>1, <2>2, <2>3 DEF Poll, TypeOK, chanVars
<1>2. CASE Walk
  <2>1. i \in Index
    BY <1>2 DEF Walk, AheadInv
  <2>. QED
    BY <1>2, <2>1 DEF Walk, TypeOK, slotVars, chanVars, Index
<1>3. CASE SlotDone
  <2>1. i \in Index /\ left > 0 /\ left \in Int
    BY <1>3 DEF SlotDone, AheadInv, TypeOK
  <2>. QED
    BY <1>3, <2>1 DEF SlotDone, TypeOK, slotVars, chanVars, Index
<1>4. CASE Return \/ NextRound
  <2>1. CASE Return
    BY <2>1 DEF Return, TypeOK, slotVars, chanVars, roundVars
  <2>2. CASE NextRound
    BY <2>2 DEF NextRound, TypeOK, slotVars, chanVars
  <2>. QED
    BY <1>4, <2>1, <2>2
<1>5. ASSUME NEW e \in Events, Deliver(e) PROVE TypeOK'
  BY <1>5 DEF Deliver, TypeOK, slotVars, chanVars
<1>6. ASSUME NEW c \in Channels, Add(c) PROVE TypeOK'
  BY <1>6 DEF Add, TypeOK, roundVars
<1>7. CASE Delete
  BY <1>7 DEF Delete, TypeOK, roundVars
<1>8. ASSUME NEW evs \in {{"READ"}, Events}, Update(evs) PROVE TypeOK'
  BY <1>8 DEF Update, TypeOK, roundVars, Events
<1>9. CASE UNCHANGED vars
  BY <1>9 DEF vars, slotVars, chanVars, roundVars, TypeOK
<1>. QED
  BY <1>1, <1>2, <1>3, <1>4, <1>5, <1>6, <1>7, <1>8, <1>9 DEF Next

\* The first slot that holds x is one slot, and the slot itself when there is
\* no other.
LEMMA FirstIsOne ==
  ASSUME NEW x, NEW s \in First(x)
  PROVE  /\ s \in Index /\ fd[s] = x
         /\ \A r \in First(x) : r = s
BY SlotsAssumption DEF First, Index

LEMMA OnlyIsFirst ==
  ASSUME NEW x, NEW s \in Index, fd[s] = x, \A r \in Index : fd[r] = x => r = s
  PROVE  First(x) = {s}
BY SlotsAssumption DEF First, Index

LEMMA SlotsInit == Init => SlotsMatchMap
BY DEF Init, SlotsMatchMap

LEMMA SlotsStep == TypeOK /\ SlotsMatchMap /\ [Next]_vars => SlotsMatchMap'
<1>. SUFFICES ASSUME TypeOK, SlotsMatchMap, [Next]_vars PROVE SlotsMatchMap'
  OBVIOUS
<1>0. /\ fd \in [Index -> Channels \union {Free}] /\ wanted \in [Index -> SUBSET Events]
      /\ events \in [Channels -> SUBSET Events] /\ Free \notin Channels
      /\ map \subseteq created
  BY ChannelsAssumption DEF TypeOK
<1>1. ASSUME NEW c \in Channels, Add(c) PROVE SlotsMatchMap'
  <2>1. /\ fd' = [s \in Index |-> IF s \in First(Free) THEN c ELSE fd[s]]
        /\ wanted' = [s \in Index |-> IF s \in First(Free) THEN events[c] ELSE wanted[s]]
        /\ map' = map \union {c} /\ events' = events /\ c \notin created
    BY <1>1 DEF Add
  <2>2. \A s \in Index : fd[s] # c
    BY <1>0, <2>1 DEF SlotsMatchMap
  <2>3. \A s, r \in First(Free) : s = r
    BY FirstIsOne
  <2>4. \A s, r \in Index : fd'[s] = fd'[r] /\ fd'[s] # Free => s = r
    BY <2>1, <2>2, <2>3 DEF SlotsMatchMap
  <2>5. \A s \in Index : fd'[s] # Free => fd'[s] \in map' /\ wanted'[s] = events'[fd'[s]]
    BY <2>1 DEF SlotsMatchMap
  <2>. QED
    BY <2>4, <2>5 DEF SlotsMatchMap
<1>2. CASE Delete
  <2>1. /\ fd' = [s \in Index |-> IF s \in First(current) THEN Free ELSE fd[s]]
        /\ map' = map \ {current} /\ wanted' = wanted /\ events' = events
        /\ current \in map
    BY <1>2 DEF Delete
  <2>2. \A s \in Index : fd[s] = current => s \in First(current)
    <3>. current # Free
      BY <1>0, <2>1 DEF TypeOK
    <3>. QED
      BY OnlyIsFirst DEF SlotsMatchMap
  <2>. QED
    BY <2>1, <2>2 DEF SlotsMatchMap
<1>3. ASSUME NEW evs \in {{"READ"}, Events}, Update(evs) PROVE SlotsMatchMap'
  <2>1. /\ wanted' = [s \in Index |-> IF s \in First(current) THEN evs ELSE wanted[s]]
        /\ events' = [events EXCEPT ![current] = evs]
        /\ map' = map /\ fd' = fd /\ current \in map
    BY <1>3 DEF Update
  <2>2. current \in Channels
    BY <1>0, <2>1 DEF TypeOK
  <2>3. \A s \in Index : fd[s] = current <=> s \in First(current)
    BY <1>0, <2>2, OnlyIsFirst, FirstIsOne DEF SlotsMatchMap
  <2>4. \A s \in Index : fd[s] # Free => wanted'[s] = events'[fd[s]]
    BY <1>0, <2>1, <2>2, <2>3 DEF SlotsMatchMap
  <2>. QED
    BY <2>1, <2>4 DEF SlotsMatchMap
<1>4. CASE UNCHANGED <<fd, wanted, map, events>>
  BY <1>4 DEF SlotsMatchMap
<1>. QED
  BY <1>1, <1>2, <1>3, <1>4
     DEF Next, Poll, Walk, SlotDone, Return, NextRound, Deliver, vars, slotVars, chanVars

-----------------------------------------------------------------------------
(* What poll_dispatch delivers                                             *)

LEMMA DispatchInit == Init => DispatchInv
BY DEF Init, DispatchInv, EventsMatch, AheadInv, CopyInv, QuietInv

LEMMA PollStep == TypeOK /\ SlotsMatchMap /\ DispatchInv /\ Poll => DispatchInv'
<1>. SUFFICES ASSUME TypeOK, SlotsMatchMap, DispatchInv, Poll PROVE DispatchInv'
  OBVIOUS
<1>. DEFINE Told == {s \in Index : revents'[s] # {}}
<1>1. /\ UNCHANGED <<fd, map, created, delivered, i>> /\ i = 1
      /\ map \subseteq created /\ created \subseteq Channels
      /\ Free \notin Channels /\ 1 \in Index
      /\ \A c \in Channels : delivered[c] = {}
      /\ fd \in [Index -> Channels \union {Free}]
  BY ChannelsAssumption, SlotsAssumption
     DEF Poll, chanVars, TypeOK, DispatchInv, QuietInv, Index
<1>2. \A s \in Index : revents'[s] # {} => fd[s] \in map
  BY DEF Poll, SlotsMatchMap
<1>3. \A s \in Index, c \in Channels : fd[s] = c => reported'[c] = revents'[s]
  BY <1>1 DEF Poll, SlotsMatchMap
<1>4. \A c \in Channels : (\A s \in Told : fd[s] # c) => reported'[c] = {}
  BY DEF Poll
<1>5. Cardinality(Told) \in Nat /\ left' = Cardinality(Told)
  <2>1. Told \in SUBSET Index
    OBVIOUS
  <2>. QED
    BY <2>1, SlotsFinite DEF Poll
<1>6. CASE left' = 0
  <2>1. Told = {}
    <3>. Told \in SUBSET Index
      OBVIOUS
    <3>. QED
      BY <1>5, <1>6, SlotsFinite, FS_EmptySet
  <2>2. \A c \in Channels : reported'[c] = {}
    BY <1>4, <2>1
  <2>3. pc' = "pending"
    BY <1>6 DEF Poll
  <2>. QED
    BY <1>1, <2>2, <2>3 DEF DispatchInv, EventsMatch, AheadInv, CopyInv, QuietInv
<1>7. CASE left' # 0
  <2>1. pc' = "walk"
    BY <1>7 DEF Poll
  <2>2. Ready' = Told
    BY <1>1 DEF Ready, Index
  <2>3. \A s \in Index : Ahead(s)'
    BY <1>1, <2>1 DEF Ahead, Index
  <2>4. AheadInv'
    <3>1. i' \in Index /\ left' > 0 /\ left' = Cardinality(Ready')
      BY <1>1, <1>5, <1>7, <2>2
    <3>2. \A s \in Index : revents'[s] # {} => fd'[s] \in map' /\ revents'[s] = reported'[fd'[s]]
      BY <1>1, <1>2, <1>3
    <3>3. ASSUME NEW c \in Channels
          PROVE  \/ \E s \in Index : fd'[s] = c /\ revents'[s] # {}
                 \/ reported'[c] \intersect Events \subseteq delivered'[c]
      BY <1>1, <1>4
    <3>. QED
      BY <1>1, <2>3, <3>1, <3>2, <3>3 DEF AheadInv
  <2>5. EventsMatch' /\ CopyInv' /\ QuietInv'
    <3>1. \A c \in Channels \ created : reported'[c] = {}
      BY <1>1, <1>2, <1>4
    <3>. QED
      BY <1>1, <2>1, <3>1 DEF EventsMatch, CopyInv, QuietInv
  <2>. QED
    BY <2>4, <2>5 DEF DispatchInv
<1>. QED
  BY <1>6, <1>7

LEMMA WalkStep == TypeOK /\ SlotsMatchMap /\ DispatchInv /\ Walk => DispatchInv'
<1>. SUFFICES ASSUME TypeOK, SlotsMatchMap, DispatchInv, Walk PROVE DispatchInv'
  OBVIOUS
<1>1. /\ pc = "walk" /\ i \in Index /\ left > 0 /\ left = Cardinality(Ready)
      /\ UNCHANGED <<fd, revents, map, created, reported, delivered, left>>
      /\ map \subseteq created /\ created \subseteq Channels /\ Free \notin Channels
      /\ Slots \in Nat \ {0}
  BY ChannelsAssumption, SlotsAssumption
     DEF Walk, DispatchInv, AheadInv, TypeOK, slotVars, chanVars
<1>2. \A s \in Index : s >= i /\ revents[s] # {} =>
        fd[s] \in map /\ revents[s] = reported[fd[s]]
  BY <1>1 DEF DispatchInv, AheadInv, Ahead
<1>3. \A c \in map : \/ \E s \in Index : s >= i /\ fd[s] = c /\ revents[s] # {}
                     \/ reported[c] \intersect Events \subseteq delivered[c]
  BY <1>1 DEF DispatchInv, AheadInv, Ahead
<1>4. CASE fd[i] = Free \/ revents[i] = {}
  <2>1. revents[i] = {}
    BY <1>1, <1>2, <1>4 DEF Index
  <2>2. i' = i + 1 /\ pc' = (IF i = Slots THEN "pending" ELSE "walk") /\ current' = current
    BY <1>4 DEF Walk
  <2>3. \A s \in Index : s >= i /\ revents[s] # {} => s >= i + 1
    BY <1>1, <2>1 DEF Index
  <2>4. CASE i = Slots
    <3>1. \A c \in map : reported[c] \intersect Events \subseteq delivered[c]
      BY <1>1, <1>3, <2>3, <2>4 DEF Index
    <3>. QED
      BY <1>1, <2>2, <2>4, <3>1 DEF DispatchInv, EventsMatch, AheadInv, CopyInv, QuietInv
  <2>5. CASE i # Slots
    <3>1. pc' = "walk" /\ i' \in Index
      BY <1>1, <2>2, <2>5 DEF Index
    <3>2. Ready' = Ready
      BY <1>1, <2>2, <2>3 DEF Ready, Index
    <3>3. AheadInv'
      BY <1>1, <1>2, <1>3, <2>2, <2>3, <3>1, <3>2 DEF AheadInv, Ahead, Index
    <3>. QED
      BY <1>1, <3>1, <3>3 DEF DispatchInv, EventsMatch, CopyInv, QuietInv
  <2>. QED
    BY <2>4, <2>5
<1>5. CASE ~(fd[i] = Free \/ revents[i] = {})
  <2>1. current' = fd[i] /\ rest' = revents[i] /\ pc' = "copy" /\ i' = i
    BY <1>5 DEF Walk
  <2>2. fd[i] \in map /\ revents[i] = reported[fd[i]]
    BY <1>1, <1>2, <1>5 DEF Index
  <2>3. \A s \in Index : fd[s] = fd[i] => s = i
    BY <1>1, <1>5 DEF SlotsMatchMap
  <2>4. AheadInv'
    <3>1. Ready' = Ready
      BY <1>1, <2>1 DEF Ready
    <3>2. \A s \in Index : s > i /\ revents[s] # {} => fd[s] \in map /\ revents[s] = reported[fd[s]]
      BY <1>1, <1>2 DEF Index
    <3>3. \A c \in map : c # fd[i] => \/ \E s \in Index : s > i /\ fd[s] = c /\ revents[s] # {}
                                      \/ reported[c] \intersect Events \subseteq delivered[c]
      BY <1>1, <1>3 DEF Index
    <3>. QED
      BY <1>1, <2>1, <3>1, <3>2, <3>3 DEF AheadInv, Ahead
  <2>5. CopyInv'
    BY <1>1, <1>5, <2>1, <2>2, <2>3 DEF CopyInv
  <2>. QED
    BY <1>1, <2>1, <2>4, <2>5 DEF DispatchInv, EventsMatch, QuietInv
<1>. QED
  BY <1>4, <1>5

LEMMA DeliverStep ==
  ASSUME TypeOK, DispatchInv, NEW e \in Events, Deliver(e)
  PROVE  DispatchInv'
<1>1. /\ pc = "copy" /\ e \in rest /\ rest' = rest \ {e}
      /\ UNCHANGED <<fd, revents, map, created, reported, left, i, current>>
      /\ map \subseteq created /\ created \subseteq Channels
      /\ delivered \in [Channels -> SUBSET Events]
      /\ rest \subseteq reported[current] /\ current \in created
  BY DEF Deliver, slotVars, chanVars, TypeOK, DispatchInv, CopyInv
<1>2. Ready' = Ready /\ \A s \in Index : Ahead(s)' <=> Ahead(s) /\ pc' # "walk"
  BY <1>1 DEF Ready, Ahead, Deliver
<1>3. CASE current \in map
  <2>1. delivered' = [delivered EXCEPT ![current] = @ \union {e}] /\ pc' = "callback"
    BY <1>3 DEF Deliver
  <2>2. \A c \in Channels :
          delivered'[c] = IF c = current THEN delivered[c] \union {e} ELSE delivered[c]
    BY <1>1, <2>1
  <2>3. EventsMatch'
    BY <1>1, <2>1, <2>2 DEF DispatchInv, EventsMatch
  <2>4. AheadInv'
    BY <1>1, <1>2, <2>1, <2>2 DEF DispatchInv, AheadInv, Ahead, Ready
  <2>5. CopyInv'
    BY <1>1, <1>3, <2>1, <2>2 DEF DispatchInv, CopyInv
  <2>6. QuietInv'
    BY <1>1, <2>1 DEF DispatchInv, QuietInv
  <2>. QED
    BY <2>3, <2>4, <2>5, <2>6 DEF DispatchInv
<1>4. CASE current \notin map
  <2>1. UNCHANGED <<delivered, pc>>
    BY <1>4 DEF Deliver
  <2>. QED
    BY <1>1, <1>2, <1>4, <2>1
       DEF DispatchInv, EventsMatch, AheadInv, Ahead, Ready, CopyInv, QuietInv
<1>. QED
  BY <1>3, <1>4

LEMMA SlotDoneStep == TypeOK /\ DispatchInv /\ SlotDone => DispatchInv'
<1>. SUFFICES ASSUME TypeOK, DispatchInv, SlotDone PROVE DispatchInv'
  OBVIOUS
<1>1. /\ pc = "copy" /\ i \in Index /\ left > 0 /\ left = Cardinality(Ready)
      /\ left' = left - 1 /\ i' = i + 1 /\ rest \intersect Events = {}
      /\ UNCHANGED <<fd, revents, map, created, reported, delivered, current>>
      /\ map \subseteq created /\ created \subseteq Channels
      /\ left \in Nat /\ Slots \in Nat \ {0} /\ revents[i] # {}
  BY SlotsAssumption
     DEF SlotDone, slotVars, chanVars, TypeOK, DispatchInv, AheadInv, CopyInv
<1>2. \A s \in Index : s > i /\ revents[s] # {} =>
        fd[s] \in map /\ revents[s] = reported[fd[s]]
  BY <1>1 DEF DispatchInv, AheadInv, Ahead
<1>3. \A c \in map : \/ \E s \in Index : s > i /\ fd[s] = c /\ revents[s] # {}
                     \/ reported[c] \intersect Events \subseteq delivered[c]
  <2>1. current \in map => reported[current] \intersect Events \subseteq delivered[current]
    BY <1>1 DEF DispatchInv, CopyInv
  <2>. QED
    BY <1>1, <2>1 DEF DispatchInv, AheadInv, Ahead
<1>4. Ready' = Ready \ {i} /\ i \in Ready
  BY <1>1 DEF Ready, Index
<1>5. Ready' \in SUBSET Index /\ Ready \in SUBSET Index
  BY <1>4 DEF Ready
<1>6. IsFiniteSet(Ready') /\ Cardinality(Ready') = left'
  BY <1>1, <1>4, <1>5, SlotsFinite, FS_RemoveElement
<1>7. CASE left' <= 0 \/ i = Slots
  <2>1. \A s \in Index : ~(s > i /\ revents[s] # {})
    <3>1. CASE left' <= 0
      <4>1. Ready' = {}
        BY <1>1, <1>6, <3>1, FS_EmptySet
      <4>. QED
        BY <1>1, <4>1 DEF Ready, Index
    <3>2. CASE i = Slots
      BY <1>1, <3>2 DEF Index
    <3>. QED
      BY <1>7, <3>1, <3>2
  <2>2. pc' = "pending"
    BY <1>7 DEF SlotDone
  <2>. QED
    BY <1>1, <1>3, <2>1, <2>2 DEF DispatchInv, EventsMatch, AheadInv, CopyInv, QuietInv
<1>8. CASE ~(left' <= 0 \/ i = Slots)
  <2>1. pc' = "walk" /\ i' \in Index /\ left' > 0
    BY <1>1, <1>8 DEF SlotDone, Index
  <2>2. \A s \in Index : Ahead(s)' <=> s > i
    BY <1>1, <2>1 DEF Ahead, Index
  <2>3. AheadInv'
    BY <1>1, <1>2, <1>3, <1>6, <2>1, <2>2 DEF AheadInv
  <2>. QED
    BY <1>1, <2>1, <2>3 DEF DispatchInv, EventsMatch, CopyInv, QuietInv
<1>. QED
  BY <1>7, <1>8

\* A new channel takes a slot that poll had nothing to tell about, or one the
\* walk has passed.
LEMMA AddStep ==
  ASSUME TypeOK, SlotsMatchMap, DispatchInv, NEW c \in Channels, Add(c)
  PROVE  DispatchInv'
<1>1. /\ pc \in {"callback", "pending"} /\ pc' = pc /\ c \notin created
      /\ created' = created \union {c} /\ map' = map \union {c}
      /\ fd' = [s \in Index |-> IF s \in First(Free) THEN c ELSE fd[s]]
      /\ UNCHANGED <<revents, i, left, current, rest, reported, delivered>>
      /\ map \subseteq created /\ created \subseteq Channels /\ Free \notin Channels
  BY ChannelsAssumption DEF Add, roundVars, TypeOK
<1>2. reported[c] = {}
  BY <1>1 DEF DispatchInv, QuietInv
<1>3. Ready' = Ready /\ \A s \in Index : Ahead(s)' <=> Ahead(s)
  BY <1>1 DEF Ready, Ahead
<1>4. \A s \in Index : Ahead(s) /\ revents[s] # {} /\ pc = "callback" => fd'[s] = fd[s]
  <2>1. ASSUME NEW s \in Index, Ahead(s), revents[s] # {}, pc = "callback"
        PROVE  fd[s] \in map
    BY <2>1 DEF DispatchInv, AheadInv
  <2>. QED
    BY <1>1, <2>1, FirstIsOne
<1>5. EventsMatch'
  BY <1>1, <1>2 DEF DispatchInv, EventsMatch
<1>6. AheadInv'
  <2>. SUFFICES ASSUME pc = "callback" PROVE AheadInv'
    BY <1>1 DEF AheadInv
  <2>1. \A s \in Index : Ahead(s) /\ revents[s] # {} =>
          fd'[s] \in map' /\ revents[s] = reported[fd'[s]]
    BY <1>1, <1>4 DEF DispatchInv, AheadInv
  <2>2. \A d \in map' : d # current =>
          \/ \E s \in Index : Ahead(s) /\ fd'[s] = d /\ revents[s] # {}
          \/ reported[d] \intersect Events \subseteq delivered[d]
    <3>1. ASSUME NEW d \in map, d # current
          PROVE  \/ \E s \in Index : Ahead(s) /\ fd[s] = d /\ revents[s] # {}
                 \/ reported[d] \intersect Events \subseteq delivered[d]
      BY <3>1 DEF DispatchInv, AheadInv
    <3>. QED
      BY <1>1, <1>2, <1>4, <3>1
  <2>. QED
    BY <1>1, <1>3, <2>1, <2>2 DEF DispatchInv, AheadInv
<1>7. CopyInv'
  <2>1. pc = "callback" => c # current
    BY <1>1 DEF DispatchInv, CopyInv
  <2>. QED
    BY <1>1, <2>1 DEF DispatchInv, CopyInv
<1>8. QuietInv'
  BY <1>1 DEF DispatchInv, QuietInv
<1>. QED
  BY <1>5, <1>6, <1>7, <1>8 DEF DispatchInv

\* A callback frees the slot the walk is at and no other.
LEMMA DeleteStep == TypeOK /\ DispatchInv /\ Delete => DispatchInv'
<1>. SUFFICES ASSUME TypeOK, DispatchInv, Delete PROVE DispatchInv'
  OBVIOUS
<1>1. /\ pc = "callback" /\ pc' = pc /\ current \in map /\ map' = map \ {current}
      /\ fd' = [s \in Index |-> IF s \in First(current) THEN Free ELSE fd[s]]
      /\ UNCHANGED <<revents, created, i, left, current, rest, reported, delivered>>
      /\ map \subseteq created /\ created \subseteq Channels /\ Free \notin Channels
  BY ChannelsAssumption DEF Delete, roundVars, TypeOK
<1>2. \A s \in Index : s # i => fd'[s] = fd[s] /\ fd[s] # current
  <2>. \A s \in First(current) : s = i
    BY <1>1, FirstIsOne DEF DispatchInv, CopyInv
  <2>. QED
    BY <1>1 DEF DispatchInv, CopyInv
<1>3. Ready' = Ready /\ \A s \in Index : (Ahead(s)' <=> Ahead(s)) /\ (Ahead(s) => s # i)
  BY <1>1, SlotsAssumption DEF Ready, Ahead, TypeOK, Index
<1>4. AheadInv'
  BY <1>1, <1>2, <1>3 DEF DispatchInv, AheadInv
<1>5. CopyInv'
  <2>. \A s \in Index : fd'[s] = current => s = i
    BY <1>2
  <2>. QED
    BY <1>1 DEF DispatchInv, CopyInv
<1>6. EventsMatch' /\ QuietInv'
  BY <1>1 DEF DispatchInv, EventsMatch, QuietInv
<1>. QED
  BY <1>4, <1>5, <1>6 DEF DispatchInv

LEMMA DispatchStep == TypeOK /\ SlotsMatchMap /\ DispatchInv /\ [Next]_vars => DispatchInv'
<1>. SUFFICES ASSUME TypeOK, SlotsMatchMap, DispatchInv, [Next]_vars PROVE DispatchInv'
  OBVIOUS
<1>1. CASE Poll
  BY <1>1, PollStep
<1>2. CASE Walk
  BY <1>2, WalkStep
<1>3. CASE SlotDone
  BY <1>3, SlotDoneStep
<1>4. CASE Return
  BY <1>4 DEF Return, slotVars, chanVars, roundVars, DispatchInv, EventsMatch, AheadInv,
              Ahead, Ready, CopyInv, QuietInv
<1>5. CASE NextRound
  BY <1>5 DEF NextRound, chanVars, DispatchInv, EventsMatch, AheadInv, CopyInv, QuietInv
<1>6. ASSUME NEW e \in Events, Deliver(e) PROVE DispatchInv'
  BY <1>6, DeliverStep
<1>7. ASSUME NEW c \in Channels, Add(c) PROVE DispatchInv'
  BY <1>7, AddStep
<1>8. CASE Delete
  BY <1>8, DeleteStep
<1>9. CASE UNCHANGED <<fd, revents, map, created, roundVars, pc>>
  BY <1>9 DEF roundVars, DispatchInv, EventsMatch, AheadInv, Ahead, Ready, CopyInv, QuietInv
<1>. QED
  BY <1>1, <1>2, <1>3, <1>4, <1>5, <1>6, <1>7, <1>8, <1>9
     DEF Next, Update, vars, slotVars, chanVars

-----------------------------------------------------------------------------
\* The three invariants hold together: the type of left needs the count of
\* DispatchInv, which needs the slots to be right.
LEMMA Together == Spec => [](TypeOK /\ SlotsMatchMap /\ DispatchInv)
<1>1. DispatchInv => AheadInv
  BY DEF DispatchInv
<1>. QED
  BY <1>1, TypeInit, TypeStep, SlotsInit, SlotsStep, DispatchInit, DispatchStep, PTL DEF Spec

\* Every variable of PollDispatcher keeps its type: i and left stay within the
\* array although the walk is not bounded by left alone.
THEOREM TypeCorrect == Spec => []TypeOK
BY Together, PTL

\* The array of pollfd slots says what the map and the channels say, each
\* channel once, whatever the callbacks add, update and delete.
THEOREM SlotsAlwaysMatch == Spec => []SlotsMatchMap
BY Together, PTL

\* A channel hears of what poll reported for it and of nothing else, although
\* slots change hands during the walk, and the walk stops after the last slot
\* that is ready without having missed one.
THEOREM EventsAlwaysMatch == Spec => []EventsMatch
<1>. DispatchInv => EventsMatch
  BY DEF DispatchInv
<1>. QED
  BY Together, PTL

=============================================================================
