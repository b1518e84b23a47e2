--------------------------- MODULE ProgramsProofs ---------------------------
(***************************************************************************)
(* Proofs about the stand-alone programs, for any number of runs, clients, *)
(* instances and connections.  A behaviour of Programs is one of a single  *)
(* program, so that each invariant is proved from the steps of its own;    *)
(* for the programs of Streams that is done in StreamProofs.               *)
(***************************************************************************)
EXTENDS Programs, StreamProofs, FiniteSetTheorems, SequenceTheorems, TLAPS

-----------------------------------------------------------------------------
(* PidFile                                                                 *)

LEMMA PidMoves == [Next]_vars => Pid!Next \/ UNCHANGED pidVars
BY DEF Next, Only, vars

PastLock(p) == instanceAt[p] \in {"truncate", "write", "run", "exit"}

\* Who is past the lock holds the lock of the file it has opened.
PidInv ==
  /\ Pid!PidTypeOK
  /\ \A p \in Instances : PastLock(p) \/ instanceAt[p] = "lock" => opened[p] \in Pid!Files
  /\ \A p \in Instances : PastLock(p) => holder[opened[p]] = p
  /\ \A p \in Instances : instanceAt[p] = "run" => written[opened[p]] = p

LEMMA PidStep ==
  ASSUME PidInv, Pid!Next PROVE PidInv'
<1>0. PICK p \in Instances :
        \/ Pid!Open(p) \/ Pid!Lock(p) \/ Pid!Truncate(p) \/ Pid!Write(p)
        \/ Pid!Delete(p) \/ Pid!Exit(p) \/ Pid!Kill(p)
  BY DEF Pid!Next
<1>. USE NobodyAssumption DEF PidInv, PastLock, Pid!PidTypeOK, Pid!Files, Pid!Goes, Pid!Unlocked
<1>1. CASE Pid!Open(p)
  <2>1. CASE named # 0
    BY <1>1, <2>1 DEF Pid!Open
  <2>2. CASE named = 0
    <3>1. /\ lastFile' = lastFile + 1 /\ named' = lastFile' /\ named' \in 1 .. lastFile'
          /\ instanceAt[p] = "open" /\ instanceAt' = [instanceAt EXCEPT ![p] = "lock"]
          /\ opened' = [opened EXCEPT ![p] = named']
          /\ \A f \in 1 .. lastFile : f \in 1 .. lastFile' /\ f # lastFile'
          /\ 0 .. lastFile \subseteq 0 .. lastFile'
      BY <1>1, <2>2 DEF Pid!Open
    <3>2. /\ {holder', written'} \subseteq [1 .. lastFile' -> Instances \union {NoInstance}]
          /\ \A f \in 1 .. lastFile : holder'[f] = holder[f] /\ written'[f] = written[f]
      BY <1>1, <2>2, <3>1 DEF Pid!Open
    <3>3. Pid!PidTypeOK'
      BY <3>1, <3>2
    <3>4. \A q \in Instances : PastLock(q)' => PastLock(q) /\ opened'[q] = opened[q]
      BY <3>1
    <3>. QED
      BY <2>2, <3>1, <3>2, <3>3, <3>4
  <2>. QED
    BY <2>1, <2>2
<1>2. CASE Pid!Lock(p)
  <2>1. CASE UNCHANGED holder
    BY <1>2, <2>1 DEF Pid!Lock
  <2>2. CASE ~UNCHANGED holder
    <3>1. /\ instanceAt[p] = "lock" /\ instanceAt' = [instanceAt EXCEPT ![p] = "truncate"]
          /\ holder[opened[p]] = NoInstance /\ holder' = [holder EXCEPT ![opened[p]] = p]
          /\ UNCHANGED <<opened, named, lastFile, written>>
      BY <1>2, <2>2 DEF Pid!Lock
    <3>2. opened[p] \in 1 .. lastFile
      BY <3>1
    <3>3. \A q \in Instances \ {p} : PastLock(q) => opened[q] # opened[p]
      BY <3>1
    <3>. QED
      BY <3>1, <3>2, <3>3
  <2>. QED
    BY <2>1, <2>2
<1>3. CASE Pid!Truncate(p)
  BY <1>3 DEF Pid!Truncate
<1>4. CASE Pid!Write(p)
  BY <1>4 DEF Pid!Write
<1>5. CASE Pid!Delete(p)
  BY <1>5 DEF Pid!Delete
<1>6. CASE Pid!Exit(p)
  BY <1>6 DEF Pid!Exit
<1>7. CASE Pid!Kill(p)
  BY <1>7 DEF Pid!Kill
<1>. QED
  BY <1>0, <1>1, <1>2, <1>3, <1>4, <1>5, <1>6, <1>7

LEMMA PidAlways == Spec => []PidInv
<1>1. Init => PidInv
  BY DEF Init, Pid!Init, PidInv, PastLock, Pid!PidTypeOK, Pid!Files
<1>2. PidInv /\ [Next]_vars => PidInv'
  <2>1. PidInv /\ Pid!Next => PidInv'
    BY PidStep
  <2>2. PidInv /\ UNCHANGED pidVars => PidInv'
    BY DEF pidVars, PidInv, PastLock, Pid!PidTypeOK, Pid!Files
  <2>. QED
    BY <2>1, <2>2, PidMoves
<1>. QED
  BY <1>1, <1>2, PTL DEF Spec

\* The pid of an instance that runs is in the file it opened, whoever else tries
\* to start and whatever was killed or deleted before; two instances past the lock
\* never share a file.
THEOREM PidAlwaysTrue == Spec => []PidTrue
<1>1. PidInv => PidTrue
  BY DEF PidInv, PastLock, PidTrue, Pid!PidTrue, Pid!PidTypeOK, Pid!Files
<1>. QED
  BY <1>1, PidAlways, PTL

-----------------------------------------------------------------------------
(* SharedMemory                                                            *)

LEMMA MemoryMoves == [Next]_vars => Memory!Next \/ UNCHANGED memVars
BY DEF Next, Only, vars

Using(r, s) == shm_id[r] = s /\ memAt[r] \in {"copy", "sleep"}

\* A run is given one segment.
GivenInv ==
  /\ \A r \in Runs :
       /\ memAt[r] \notin {"shmget", "killed"} => shm_id[r] \in Memory!Ids /\ r \in given[shm_id[r]]
       /\ memAt[r] = "shmget" => shm_id[r] = 0
  /\ \A s \in Memory!Ids : \A r \in given[s] : shm_id[r] = s
  /\ \A s \in segments : pidIn[s] \in given[s] \union {0}

\* One that is marked is still used by some run, and of one that is not marked
\* no user has come to its end.
UsedInv ==
  /\ \A r \in Runs : Using(r, shm_id[r]) => shm_id[r] \in segments
  /\ \A s \in removed : \E r \in Runs : Using(r, s)
  /\ \A s \in segments \ removed : \A r \in given[s] : memAt[r] # "over"

MemInv == Memory!MemTypeOK /\ GivenInv /\ UsedInv

\* A run that leaves takes with it the marked segments only it was using.
LEMMA DetachedEffect ==
  ASSUME NEW r \in Runs, Memory!Detached(r)
  PROVE  \A s : LET only == s \in removed /\ \A q \in Runs : Using(q, s) <=> q = r
                IN  /\ s \in segments' <=> s \in segments /\ ~only
                    /\ s \in removed' <=> s \in removed /\ ~only
<1>. \A s : Memory!Attached(s) = {r} <=> \A q \in Runs : Using(q, s) <=> q = r
  BY DEF Memory!Attached, Using
<1>. QED
  BY DEF Memory!Detached

LEMMA MemoryStep ==
  ASSUME MemInv, Memory!Next PROVE MemInv'
<1>. USE DEF Memory!MemTypeOK, Memory!Ids
<1>0. PICK r \in Runs : Memory!Run(r) \/ Memory!Kill(r)
  BY DEF Memory!Next
<1>1. CASE Memory!Shmget(r)
  <2>0. /\ memAt[r] = "shmget" /\ memAt' = [memAt EXCEPT ![r] = "shmat"] /\ removed' = removed
        /\ \A q \in Runs : \A s : Using(q, s) => q # r
    BY <1>1 DEF Memory!Shmget, Memory!Goes, Using
  <2>1. CASE lastShm' = lastShm
    <3>1. PICK s \in segments \ removed :
            /\ shm_id' = [shm_id EXCEPT ![r] = s]
            /\ given' = [given EXCEPT ![s] = @ \union {r}]
            /\ UNCHANGED <<segments, lastShm, pidIn>>
      BY <1>1, <2>1 DEF Memory!Shmget, MemInv
    <3>2. \A q \in Runs : \A u : Using(q, u)' <=> Using(q, u)
      BY <2>0, <3>1 DEF MemInv, Using
    <3>3. \A u \in Memory!Ids : r \notin given[u] \/ u = s
      BY <2>0, <3>1 DEF MemInv, GivenInv
    <3>4. Memory!MemTypeOK' /\ GivenInv'
      BY <2>0, <3>1, <3>3 DEF MemInv, GivenInv
    <3>5. UsedInv'
      BY <2>0, <3>1, <3>2 DEF MemInv, UsedInv, Using
    <3>. QED
      BY <3>4, <3>5 DEF MemInv
  <2>2. CASE lastShm' # lastShm
    <3>1. /\ lastShm' = lastShm + 1 /\ segments \subseteq removed
          /\ segments' = segments \union {lastShm'} /\ shm_id' = [shm_id EXCEPT ![r] = lastShm']
          /\ pidIn' = [s \in 1 .. lastShm' |-> IF s = lastShm' THEN 0 ELSE pidIn[s]]
          /\ given' = [s \in 1 .. lastShm' |-> IF s = lastShm' THEN {r} ELSE given[s]]
      BY <1>1, <2>2 DEF Memory!Shmget
    <3>2. /\ lastShm \in Nat /\ lastShm' \in 1 .. lastShm' /\ lastShm' \notin 1 .. lastShm
          /\ \A s \in 1 .. lastShm' : s = lastShm' \/ s \in 1 .. lastShm
          /\ 0 .. lastShm \subseteq 0 .. lastShm' /\ 1 .. lastShm \subseteq 1 .. lastShm'
      BY <3>1 DEF MemInv
    <3>3. \A q \in Runs : q # r => shm_id'[q] = shm_id[q] /\ memAt'[q] = memAt[q]
      BY <2>0, <3>1 DEF MemInv
    <3>4. shm_id'[r] = lastShm' /\ memAt'[r] = "shmat"
      BY <2>0, <3>1 DEF MemInv
    <3>5. Memory!MemTypeOK'
      BY <2>0, <3>1, <3>2 DEF MemInv
    <3>6. GivenInv'
      <4>1. \A s \in 1 .. lastShm : r \notin given[s]
        BY <2>0 DEF MemInv, GivenInv
      <4>2. \A s \in 1 .. lastShm : given'[s] = given[s] /\ pidIn'[s] = pidIn[s]
        BY <3>1, <3>2
      <4>3. given'[lastShm'] = {r} /\ pidIn'[lastShm'] = 0
        BY <3>1, <3>2
      <4>4. \A q \in Runs :
              /\ memAt'[q] \notin {"shmget", "killed"} =>
                   shm_id'[q] \in 1 .. lastShm' /\ q \in given'[shm_id'[q]]
              /\ memAt'[q] = "shmget" => shm_id'[q] = 0
        BY <3>2, <3>3, <3>4, <4>2, <4>3 DEF MemInv, GivenInv
      <4>5. \A s \in 1 .. lastShm' : \A q \in given'[s] : shm_id'[q] = s
        BY <3>2, <3>3, <3>4, <4>1, <4>2, <4>3 DEF MemInv, GivenInv
      <4>6. \A s \in segments' : pidIn'[s] \in given'[s] \union {0}
        BY <3>1, <3>2, <4>2, <4>3 DEF MemInv, GivenInv
      <4>. QED
        BY <4>4, <4>5, <4>6 DEF GivenInv
    <3>7. UsedInv'
      <4>1. \A q \in Runs : \A s : Using(q, s)' <=> Using(q, s)
        BY <2>0, <3>3, <3>4 DEF Using
      <4>2. segments' \ removed' \subseteq {lastShm'} /\ given'[lastShm'] = {r}
        BY <2>0, <3>1, <3>2
      <4>. QED
        BY <2>0, <3>1, <3>4, <4>1, <4>2 DEF MemInv, UsedInv
    <3>. QED
      BY <3>5, <3>6, <3>7 DEF MemInv
  <2>. QED
    BY <2>1, <2>2
<1>2. CASE Memory!Shmat(r)
  <2>1. /\ UNCHANGED <<shm_id, segments, removed, lastShm, pidIn, given>>
        /\ memAt[r] = "shmat"
        /\ memAt' = [memAt EXCEPT ![r] = IF shm_id[r] \in segments THEN "copy" ELSE "over"]
    BY <1>2 DEF Memory!Shmat, Memory!Goes, Memory!segmentVars
  <2>2. Memory!MemTypeOK' /\ GivenInv'
    BY <2>1 DEF MemInv, GivenInv
  <2>3. UsedInv'
    <3>1. \A q \in Runs : \A s : Using(q, s) => Using(q, s)'
      BY <2>1 DEF MemInv, Using
    <3>2. \A s \in segments : r \in given[s] => shm_id[r] = s
      BY DEF MemInv, GivenInv
    <3>. QED
      BY <2>1, <3>1, <3>2 DEF MemInv, UsedInv, Using
  <2>. QED
    BY <2>2, <2>3 DEF MemInv
<1>3. CASE Memory!Copy(r)
  <2>1. /\ UNCHANGED <<shm_id, segments, removed, lastShm, given>>
        /\ memAt[r] = "copy" /\ memAt' = [memAt EXCEPT ![r] = "sleep"]
        /\ pidIn' = [pidIn EXCEPT ![shm_id[r]] = r]
    BY <1>3 DEF Memory!Copy, Memory!Goes
  <2>2. Memory!MemTypeOK' /\ GivenInv'
    BY <2>1 DEF MemInv, GivenInv
  <2>3. UsedInv'
    <3>. \A q \in Runs : \A s : Using(q, s)' <=> Using(q, s)
      BY <2>1 DEF MemInv, Using
    <3>. QED
      BY <2>1 DEF MemInv, UsedInv, Using
  <2>. QED
    BY <2>2, <2>3 DEF MemInv
<1>4. CASE Memory!Shmdt(r) \/ Memory!Kill(r)
  <2>1. /\ UNCHANGED <<shm_id, lastShm, pidIn, given>> /\ Memory!Detached(r)
        /\ memAt' = [memAt EXCEPT ![r] = memAt'[r]]
        /\ \/ memAt[r] = "sleep" /\ memAt'[r] = "shmctl"
           \/ memAt'[r] = "killed"
    BY <1>4 DEF Memory!Shmdt, Memory!Kill, Memory!Goes, MemInv
  <2>2. /\ segments' \subseteq segments /\ removed' \subseteq removed
        /\ segments' \ removed' \subseteq segments \ removed
        /\ removed' \subseteq segments'
    BY <2>1, DetachedEffect DEF MemInv
  <2>3. Memory!MemTypeOK' /\ GivenInv'
    <3>1. /\ memAt' \in [Runs -> {"shmget", "shmat", "copy", "sleep", "shmctl", "over", "killed"}]
          /\ \A q \in Runs : q # r => memAt'[q] = memAt[q]
      BY <2>1 DEF MemInv
    <3>2. Memory!MemTypeOK'
      BY <2>1, <2>2, <3>1 DEF MemInv
    <3>3. memAt'[r] \notin {"shmget", "killed"} => memAt[r] \notin {"shmget", "killed"}
      BY <2>1
    <3>. QED
      BY <2>1, <2>2, <3>1, <3>2, <3>3 DEF MemInv, GivenInv
  <2>4. \A q \in Runs : \A s : Using(q, s)' <=> Using(q, s) /\ q # r
    BY <2>1 DEF MemInv, Using
  <2>5. UsedInv'
    <3>1. ASSUME NEW q \in Runs, Using(q, shm_id[q]), q # r PROVE shm_id[q] \in segments'
      BY <2>1, <3>1, DetachedEffect DEF MemInv, UsedInv
    <3>2. ASSUME NEW s \in removed' PROVE \E q \in Runs : Using(q, s)'
      <4>1. s \in removed /\ ~(\A q \in Runs : Using(q, s) <=> q = r)
        BY <2>1, <3>2, DetachedEffect
      <4>. QED
        BY <2>4, <4>1 DEF MemInv, UsedInv
    <3>3. ASSUME NEW s \in segments' \ removed', NEW q \in given[s] PROVE memAt'[q] # "over"
      <4>. s \in segments \ removed
        BY <2>2
      <4>. QED
        BY <2>1, <3>3 DEF MemInv, UsedInv
    <3>. QED
      BY <2>1, <2>4, <3>1, <3>2, <3>3 DEF UsedInv
  <2>. QED
    BY <2>3, <2>5 DEF MemInv
<1>5. CASE Memory!Shmctl(r)
  <2>1. /\ UNCHANGED <<shm_id, lastShm, pidIn, given>> /\ memAt[r] = "shmctl"
        /\ memAt' = [memAt EXCEPT ![r] = "over"]
        /\ \/ /\ shm_id[r] \in segments /\ \E q \in Runs : Using(q, shm_id[r])
              /\ removed' = removed \union {shm_id[r]} /\ segments' = segments
           \/ /\ \A q \in Runs : ~(shm_id[r] \in segments /\ Using(q, shm_id[r]))
              /\ segments' = segments \ {shm_id[r]} /\ removed' = removed \ {shm_id[r]}
    BY <1>5 DEF Memory!Shmctl, Memory!Goes, Memory!Attached, Using
  <2>2. Memory!MemTypeOK' /\ GivenInv'
    BY <2>1 DEF MemInv, GivenInv
  <2>3. \A q \in Runs : \A s : Using(q, s)' <=> Using(q, s)
    <3>1. \A q \in Runs : memAt'[q] = IF q = r THEN "over" ELSE memAt[q]
      BY <2>1 DEF MemInv, Memory!MemTypeOK
    <3>. QED
      BY <2>1, <3>1 DEF Using
  <2>4. UsedInv'
    <3>1. \A q \in Runs : Using(q, shm_id[q]) => shm_id[q] \in segments'
      BY <2>1 DEF MemInv, UsedInv
    <3>2. \A s \in removed' : \E q \in Runs : Using(q, s)
      BY <2>1 DEF MemInv, UsedInv
    <3>3. \A s \in segments' \ removed' : s # shm_id[r] /\ \A q \in given[s] : memAt[q] # "over"
      BY <2>1 DEF MemInv, UsedInv
    <3>4. \A s \in segments' : r \in given[s] => shm_id[r] = s
      BY <2>1, <2>2 DEF GivenInv
    <3>. QED
      BY <2>1, <2>3, <3>1, <3>2, <3>3, <3>4 DEF MemInv, UsedInv
  <2>. QED
    BY <2>2, <2>4 DEF MemInv
<1>. QED
  BY <1>0, <1>1, <1>2, <1>3, <1>4, <1>5 DEF Memory!Run

LEMMA MemoryAlways == Spec => []MemInv
<1>1. Init => MemInv
  BY DEF Init, Memory!Init, MemInv, GivenInv, UsedInv, Using, Memory!MemTypeOK, Memory!Ids
<1>2. MemInv /\ [Next]_vars => MemInv'
  <2>1. MemInv /\ Memory!Next => MemInv'
    BY MemoryStep
  <2>2. MemInv /\ UNCHANGED memVars => MemInv'
    BY DEF memVars, MemInv, GivenInv, UsedInv, Using, Memory!MemTypeOK, Memory!Ids
  <2>. QED
    BY <2>1, <2>2, MemoryMoves
<1>. QED
  BY <1>1, <1>2, PTL DEF Spec

\* Memory stays while a run uses it, though another has removed it, and stays
\* for good only if every run that was given it was killed.
THEOREM SegmentsAlwaysGo == Spec => []SegmentsGo
<1>1. MemInv => SegmentsGo
  BY DEF MemInv, GivenInv, UsedInv, Using, SegmentsGo, Memory!SegmentsGo, Memory!MemTypeOK,
         Memory!Ids, Memory!Attached
<1>. QED
  BY <1>1, MemoryAlways, PTL

-----------------------------------------------------------------------------
(* SysVSemaphore                                                           *)

LEMMA SemMoves == [Next]_vars => Sem!Next \/ UNCHANGED semVars
BY DEF Next, Only, vars

Holding(r) == runAt[r] = "sleep" /\ sem_id[r] = current
Waiting(r) == runAt[r] = "blocked"

\* The permit of a TwoSemaphore: who blocks finds none, and who holds it would
\* give it back if killed.
PermitInv ==
  /\ value \in {0, 1}
  /\ \A r, q \in Runs : Holding(r) /\ Holding(q) => r = q
  /\ value = 1 => \A r \in Runs : ~Holding(r) /\ ~Waiting(r)
  /\ \A r \in Runs : undo[r] = IF Holding(r) THEN 1 ELSE 0

\* The permit is put there once, by the run that made the set.
SetOnceInv ==
  /\ ~isSet => value = 0 /\ \A r \in Runs : ~Holding(r)
  /\ \A r \in Runs : runAt[r] = "setval" => sem_id[r] = r /\ (current = r => ~isSet)

\* A run keeps the identifier it got, and no set has it before it is made.
SetInv ==
  /\ \A r \in Runs :
       runAt[r] \in {"setval", "P", "blocked", "sleep", "destroy"} => sem_id[r] \in Runs
  /\ \A r \in Runs : Waiting(r) => sem_id[r] = current
  /\ \A r \in Runs : runAt[r] \in {"get", "create"} =>
       current # r /\ \A q \in Runs : sem_id[q] # r
  /\ current = NoSet => value = 0 /\ ~isSet

SemInv ==
  class = "TwoSemaphore" => Sem!SemTypeOK /\ SetInv /\ PermitInv /\ SetOnceInv

Places == {"get", "create", "again", "setval", "P", "blocked", "sleep", "destroy", "end"}

\* When the operation of a blocked run is done at once, the permit goes to it.
LEMMA SettleEffect ==
  ASSUME Sem!SemTypeOK, SetInv, UNCHANGED <<class, sem_id, current>>,
         NEW at \in [Runs -> Places], NEW adj \in [Runs -> -1 .. 1], NEW v \in {0, 1},
         Sem!Settle(at, adj, v),
         \A q \in Runs : at[q] = "blocked" => Waiting(q),
         v = 1 => \A q \in Runs : ~(at[q] = "sleep" /\ sem_id[q] = current),
         \A p, q \in Runs :
           at[p] = "sleep" /\ sem_id[p] = current /\ at[q] = "sleep" /\ sem_id[q] = current => p = q,
         \A q \in Runs : adj[q] = IF at[q] = "sleep" /\ sem_id[q] = current THEN 1 ELSE 0
  PROVE  /\ PermitInv'
         /\ runAt' \in [Runs -> Places] /\ undo' \in [Runs -> -1 .. 1]
         /\ \A q \in Runs : \/ runAt'[q] = at[q]
                            \/ Waiting(q) /\ runAt'[q] = "sleep" /\ v = 1 /\ value' = 0
<1>1. CASE v = 0 /\ runAt' = at /\ undo' = adj /\ value' = v
  BY <1>1 DEF PermitInv, Holding
<1>2. CASE Sem!Blocked = {} /\ runAt' = at /\ undo' = adj /\ value' = v
  BY <1>2 DEF PermitInv, Holding, Waiting, Sem!Blocked
<1>3. ASSUME v > 0, NEW w \in Sem!Blocked,
             runAt' = [at EXCEPT ![w] = "sleep"], undo' = [adj EXCEPT ![w] = @ + 1],
             value' = v - 1
      PROVE  /\ PermitInv'
             /\ runAt' \in [Runs -> Places] /\ undo' \in [Runs -> -1 .. 1]
             /\ \A q \in Runs : \/ runAt'[q] = at[q]
                                \/ Waiting(q) /\ runAt'[q] = "sleep" /\ v = 1 /\ value' = 0
  <2>1. /\ w \in Runs /\ Waiting(w) /\ sem_id[w] = current /\ v = 1 /\ value' = 0
        /\ \A q \in Runs : ~(at[q] = "sleep" /\ sem_id[q] = current)
    BY <1>3 DEF Sem!Blocked, SetInv, Waiting
  <2>2. runAt' \in [Runs -> Places] /\ undo' \in [Runs -> -1 .. 1]
    BY <1>3, <2>1 DEF Places
  <2>3. \A q \in Runs : Holding(q)' <=> q = w
    BY <1>3, <2>1 DEF Holding
  <2>4. \A q \in Runs : undo'[q] = IF q = w THEN 1 ELSE 0
    BY <1>3, <2>1
  <2>. QED
    BY <1>3, <2>1, <2>2, <2>3, <2>4 DEF PermitInv
<1>. QED
  BY <1>1, <1>2, <1>3 DEF Sem!Settle

\* What is left of the invariant once the permit has been settled: places that
\* runs leave, never to come back.
LEMMA SettleRest ==
  ASSUME Sem!SemTypeOK, SetInv, SetOnceInv, UNCHANGED <<sem_id, current>>,
         NEW r \in Runs, NEW at \in [Runs -> Places], NEW v,
         at = [runAt EXCEPT ![r] = at[r]], at[r] \in {"P", "destroy", "end"},
         at[r] = "end" \/ runAt[r] \in {"setval", "sleep"},
         \A q \in Runs : \/ runAt'[q] = at[q]
                         \/ Waiting(q) /\ runAt'[q] = "sleep" /\ v = 1 /\ value' = 0,
         PermitInv', isSet' \in BOOLEAN,
         isSet' = isSet \/ (runAt[r] = "setval" /\ current = r /\ isSet'),
         ~isSet' => v = 0 /\ value' = 0, current = NoSet => value' = 0 /\ ~isSet'
  PROVE  SetInv' /\ SetOnceInv'
<1>1. \A q \in Runs : q # r => at[q] = runAt[q]
  BY DEF Places
<1>2. SetInv'
  BY <1>1 DEF SetInv, Waiting
<1>3. \A q \in Runs : runAt'[q] = "setval" => q # r /\ runAt[q] = "setval"
  BY <1>1
<1>4. ~isSet' => \A q \in Runs : ~Holding(q)'
  BY <1>1 DEF SetOnceInv, Holding
<1>. QED
  BY <1>2, <1>3, <1>4 DEF SetOnceInv

LEMMA SemStep ==
  ASSUME class = "TwoSemaphore", Sem!SemTypeOK, SetInv, PermitInv, SetOnceInv, Sem!Next
  PROVE  class' = "TwoSemaphore" /\ Sem!SemTypeOK' /\ SetInv' /\ PermitInv' /\ SetOnceInv'
<1>. USE NobodyAssumption DEF Sem!Goto, Sem!Has, Places
<1>0. PICK r \in Runs : Sem!Goes(r) \/ Sem!Killed(r)
  BY DEF Sem!Next
<1>1. CASE Sem!Get(r)
  BY <1>1 DEF Sem!Get, Sem!SemTypeOK, SetInv, PermitInv, SetOnceInv, Holding, Waiting
<1>2. CASE Sem!Create(r) /\ Sem!Make(r)
  <2>1. /\ runAt[r] = "create" /\ current = NoSet /\ current' = r /\ value' = 0
        /\ isSet' = FALSE /\ sem_id' = [sem_id EXCEPT ![r] = r]
        /\ runAt' = [runAt EXCEPT ![r] = "setval"] /\ class' = class /\ undo' = undo
    BY <1>2 DEF Sem!Create, Sem!Make
  <2>2. \A q \in Runs : ~Holding(q) /\ ~Waiting(q)
    BY <2>1 DEF Holding, Waiting, SetInv
  <2>3. \A q \in Runs : /\ q # r => runAt'[q] = runAt[q] /\ sem_id'[q] = sem_id[q]
                        /\ runAt'[r] = "setval" /\ sem_id'[r] = r
    BY <2>1 DEF Sem!SemTypeOK
  <2>4. \A q \in Runs : q # r => sem_id[q] # r
    BY <2>1 DEF SetInv
  <2>5. \A q \in Runs : ~Holding(q)' /\ ~Waiting(q)'
    BY <2>1, <2>2, <2>3, <2>4 DEF Holding, Waiting
  <2>6. Sem!SemTypeOK'
    BY <2>1 DEF Sem!SemTypeOK
  <2>7. PermitInv'
    BY <2>1, <2>2, <2>5 DEF PermitInv
  <2>8. SetOnceInv'
    <3>1. \A q \in Runs : runAt'[q] = "setval" => sem_id'[q] = q
      BY <2>3 DEF SetOnceInv
    <3>. QED
      BY <2>1, <2>5, <3>1 DEF SetOnceInv
  <2>9. SetInv'
    BY <2>1, <2>3, <2>5 DEF SetInv
  <2>. QED
    BY <2>1, <2>6, <2>7, <2>8, <2>9
<1>3. CASE Sem!Create(r) /\ ~Sem!Make(r)
  BY <1>3 DEF Sem!Create, Sem!SemTypeOK, SetInv, PermitInv, SetOnceInv, Holding, Waiting
<1>4. CASE Sem!SetVal(r) /\ Sem!Has(r)
  <2>. DEFINE at == [runAt EXCEPT ![r] = "P"]
              adj == [q \in Runs |-> 0]
  <2>1. /\ runAt[r] = "setval" /\ sem_id[r] = current /\ isSet' = TRUE
        /\ Sem!Settle(at, adj, 1) /\ UNCHANGED <<class, sem_id, current>>
    BY <1>4 DEF Sem!SetVal
  <2>2. current = r /\ ~isSet /\ \A q \in Runs : ~Holding(q)
    BY <2>1 DEF SetOnceInv
  <2>3. at \in [Runs -> Places] /\ adj \in [Runs -> -1 .. 1]
    BY DEF Sem!SemTypeOK
  <2>4. \A q \in Runs : /\ at[q] = "blocked" => Waiting(q)
                        /\ ~(at[q] = "sleep" /\ sem_id[q] = current) /\ adj[q] = 0
    BY <2>2 DEF Sem!SemTypeOK, Waiting, Holding
  <2>. HIDE DEF at, adj
  <2>5. /\ PermitInv' /\ runAt' \in [Runs -> Places] /\ undo' \in [Runs -> -1 .. 1]
        /\ \A q \in Runs : \/ runAt'[q] = at[q]
                           \/ Waiting(q) /\ runAt'[q] = "sleep" /\ 1 = 1 /\ value' = 0
    BY <2>1, <2>3, <2>4, SettleEffect
  <2>6. at = [runAt EXCEPT ![r] = at[r]] /\ at[r] = "P"
    BY DEF at, Sem!SemTypeOK
  <2>7. SetInv' /\ SetOnceInv'
    BY <2>1, <2>2, <2>3, <2>5, <2>6, SettleRest
  <2>8. Sem!SemTypeOK'
    BY <2>1, <2>5 DEF PermitInv, Sem!SemTypeOK
  <2>. QED
    BY <2>1, <2>5, <2>7, <2>8
<1>5. CASE Sem!P(r)
  BY <1>5 DEF Sem!P, Sem!SemTypeOK, SetInv, PermitInv, SetOnceInv, Holding, Waiting
<1>6. CASE Sem!V(r) /\ Sem!Has(r)
  <2>. DEFINE at == [runAt EXCEPT ![r] = "destroy"]
              adj == [undo EXCEPT ![r] = @ - 1]
  <2>1. /\ Holding(r) /\ runAt[r] = "sleep" /\ sem_id[r] = current
        /\ Sem!Settle(at, adj, value + 1) /\ UNCHANGED <<class, sem_id, current, isSet>>
    BY <1>6 DEF Sem!V, Holding
  <2>2. value = 0 /\ isSet /\ undo[r] = 1 /\ current \in Runs
    BY <2>1 DEF PermitInv, SetOnceInv, SetInv
  <2>3. at \in [Runs -> Places] /\ adj \in [Runs -> -1 .. 1]
    BY <2>2 DEF Sem!SemTypeOK
  <2>4. \A q \in Runs : /\ at[q] = "blocked" => Waiting(q)
                        /\ ~(at[q] = "sleep" /\ sem_id[q] = current) /\ adj[q] = 0
    BY <2>1, <2>2 DEF Sem!SemTypeOK, PermitInv, Waiting, Holding
  <2>. HIDE DEF at, adj
  <2>5. Sem!Settle(at, adj, 1)
    BY <2>1, <2>2
  <2>6. /\ PermitInv' /\ runAt' \in [Runs -> Places] /\ undo' \in [Runs -> -1 .. 1]
        /\ \A q \in Runs : \/ runAt'[q] = at[q]
                           \/ Waiting(q) /\ runAt'[q] = "sleep" /\ 1 = 1 /\ value' = 0
    BY <2>1, <2>5, <2>3, <2>4, SettleEffect
  <2>7. at = [runAt EXCEPT ![r] = at[r]] /\ at[r] = "destroy"
    BY DEF at, Sem!SemTypeOK
  <2>8. SetInv' /\ SetOnceInv'
    BY <2>1, <2>2, <2>3, <2>6, <2>7, SettleRest DEF Sem!SemTypeOK
  <2>9. Sem!SemTypeOK'
    BY <2>1, <2>6 DEF PermitInv, Sem!SemTypeOK
  <2>. QED
    BY <2>1, <2>6, <2>8, <2>9
<1>7. CASE Sem!Destroy(r) /\ Sem!Has(r)
  <2>1. /\ current' = NoSet /\ value' = 0 /\ undo' = [q \in Runs |-> 0] /\ isSet' = FALSE
        /\ runAt' = [q \in Runs |-> IF q = r \/ Waiting(q) THEN "end" ELSE runAt[q]]
        /\ UNCHANGED <<class, sem_id>> /\ runAt[r] = "destroy"
    BY <1>7 DEF Sem!Destroy, Sem!Blocked, Waiting
  <2>2. Sem!SemTypeOK' /\ \A q \in Runs : ~Waiting(q)'
    <3>1. /\ runAt' \in [Runs -> Places] /\ undo' \in [Runs -> -1 .. 1]
          /\ \A q \in Runs : ~Waiting(q)'
      BY <2>1 DEF Sem!SemTypeOK, Waiting
    <3>. QED
      BY <2>1, <3>1 DEF Sem!SemTypeOK, Places
  <2>3. \A q \in Runs : ~Holding(q)'
    BY <2>1 DEF Holding, SetInv
  <2>4. PermitInv'
    BY <2>1, <2>2, <2>3 DEF PermitInv
  <2>5. SetInv' /\ SetOnceInv'
    BY <2>1, <2>2, <2>3 DEF SetInv, SetOnceInv
  <2>. QED
    BY <2>1, <2>2, <2>4, <2>5
<1>8. CASE Sem!Killed(r)
  <2>. DEFINE at == [runAt EXCEPT ![r] = "end"]
              adj == [undo EXCEPT ![r] = 0]
              v == IF Holding(r) THEN 1 ELSE value
  <2>1. undo[r] = IF Holding(r) THEN 1 ELSE 0
    BY DEF PermitInv
  <2>2. v \in {0, 1} /\ (IF value + undo[r] < 0 THEN 0 ELSE value + undo[r]) = v
    BY <2>1 DEF PermitInv
  <2>3. Sem!Settle(at, adj, v) /\ UNCHANGED <<class, sem_id, current, isSet>>
    BY <1>8, <2>2 DEF Sem!Killed
  <2>4. at \in [Runs -> Places] /\ adj \in [Runs -> -1 .. 1]
    BY DEF Sem!SemTypeOK
  <2>5. \A q \in Runs :
          /\ at[q] = "blocked" => Waiting(q)
          /\ at[q] = "sleep" /\ sem_id[q] = current <=> q # r /\ Holding(q)
    BY DEF Sem!SemTypeOK, Waiting, Holding
  <2>6. \A q \in Runs : adj[q] = IF q # r /\ Holding(q) THEN 1 ELSE 0
    BY DEF Sem!SemTypeOK, PermitInv
  <2>7. v = 1 => \A q \in Runs : ~(q # r /\ Holding(q))
    BY DEF PermitInv
  <2>8. /\ (~isSet' => v = 0)
        /\ (current = NoSet => v = 0 /\ ~isSet')
    BY <2>3 DEF SetOnceInv, SetInv, Holding
  <2>9. \A p, q \in Runs : Holding(p) /\ Holding(q) => p = q
    BY DEF PermitInv
  <2>. HIDE DEF at, adj, v
  <2>10. /\ PermitInv' /\ runAt' \in [Runs -> Places] /\ undo' \in [Runs -> -1 .. 1]
         /\ \A q \in Runs : \/ runAt'[q] = at[q]
                            \/ Waiting(q) /\ runAt'[q] = "sleep" /\ v = 1 /\ value' = 0
    BY <2>2, <2>3, <2>4, <2>5, <2>6, <2>7, <2>9, SettleEffect
  <2>11. at = [runAt EXCEPT ![r] = at[r]] /\ at[r] = "end"
    BY DEF at, Sem!SemTypeOK
  <2>12. v = 0 => value' = 0
    BY <2>3, <2>2 DEF Sem!Settle
  <2>13. SetInv' /\ SetOnceInv'
    <3>1. /\ \A q \in Runs : \/ runAt'[q] = at[q]
                             \/ Waiting(q) /\ runAt'[q] = "sleep" /\ v = 1 /\ value' = 0
          /\ PermitInv'
      BY <2>10
    <3>2. /\ isSet' \in BOOLEAN /\ isSet' = isSet
          /\ ~isSet' => v = 0 /\ value' = 0
          /\ current = NoSet => value' = 0 /\ ~isSet'
      BY <2>3, <2>8, <2>12 DEF Sem!SemTypeOK
    <3>. QED
      BY <2>3, <2>4, <2>11, <3>1, <3>2, SettleRest
  <2>14. Sem!SemTypeOK'
    BY <2>3, <2>10 DEF PermitInv, Sem!SemTypeOK
  <2>. QED
    BY <2>3, <2>10, <2>13, <2>14
<1>9. CASE (Sem!SetVal(r) \/ Sem!V(r) \/ Sem!Destroy(r)) /\ ~Sem!Has(r)
  <2>1. /\ runAt' = [runAt EXCEPT ![r] = "end"] /\ runAt[r] \in {"setval", "sleep", "destroy"}
        /\ ~Holding(r) /\ UNCHANGED <<class, sem_id, current, value, undo, isSet>>
    BY <1>9 DEF Sem!SetVal, Sem!V, Sem!Destroy, Holding
  <2>2. \A q \in Runs : (Holding(q)' <=> Holding(q)) /\ (Waiting(q)' <=> Waiting(q))
    BY <2>1 DEF Holding, Waiting, Sem!SemTypeOK
  <2>3. PermitInv'
    BY <2>1, <2>2 DEF PermitInv
  <2>4. SetInv'
    BY <2>1, <2>2 DEF SetInv, Sem!SemTypeOK
  <2>5. SetOnceInv'
    BY <2>1, <2>2 DEF SetOnceInv, Sem!SemTypeOK
  <2>. QED
    BY <2>1, <2>3, <2>4, <2>5 DEF Sem!SemTypeOK
<1>. QED
  BY <1>0, <1>1, <1>2, <1>3, <1>4, <1>5, <1>6, <1>7, <1>8, <1>9 DEF Sem!Goes

\* The semaphore's module counts as this one does.
LEMMA SameCardinality == \A S : Sem!Cardinality(S) = Cardinality(S)
BY DEF Cardinality, Sem!Cardinality

\* Whatever runs come and are killed, and whoever of them makes the set, the one
\* permit of a TwoSemaphore is free, held by one run, or not there yet.
THEOREM PermitAlwaysOne == Spec => []OnePermit
<1>1. Init => SemInv
  <2>1. Init => Sem!Init
    BY DEF Init
  <2>2. Sem!Init => Sem!SemTypeOK
    <3>. SUFFICES ASSUME Sem!Init PROVE Sem!SemTypeOK
      OBVIOUS
    <3>1. /\ runAt \in [Runs -> Places] /\ undo \in [Runs -> -1 .. 1]
          /\ sem_id \in [Runs -> Runs \union {NoSet}]
      BY DEF Sem!Init, Places
    <3>. QED
      BY <3>1 DEF Sem!Init, Sem!SemTypeOK, Places
  <2>3. Sem!Init => \A r \in Runs : ~Holding(r) /\ ~Waiting(r) /\ runAt[r] = "get"
    BY DEF Sem!Init, Holding, Waiting
  <2>4. Sem!Init => SetInv /\ PermitInv /\ SetOnceInv
    BY <2>3, NobodyAssumption DEF Sem!Init, SetInv, PermitInv, SetOnceInv
  <2>. QED
    BY <2>1, <2>2, <2>4 DEF SemInv
<1>2. SemInv /\ [Next]_vars => SemInv'
  <2>1. SemInv /\ Sem!Next => SemInv'
    <3>1. Sem!Next => class' = class
      BY DEF Sem!Next, Sem!Goes, Sem!Get, Sem!Create, Sem!SetVal, Sem!P, Sem!V, Sem!Destroy,
             Sem!Killed
    <3>. QED
      BY <3>1, SemStep DEF SemInv
  <2>2. SemInv /\ UNCHANGED semVars => SemInv'
    BY DEF semVars, SemInv, Sem!SemTypeOK, SetInv, PermitInv, SetOnceInv, Holding, Waiting
  <2>. QED
    BY <2>1, <2>2, SemMoves
<1>3. SemInv => OnePermit
  <2>. SUFFICES ASSUME SemInv, class = "TwoSemaphore"
                PROVE  value + Cardinality(Sem!Holders) <= 1
    BY SameCardinality DEF OnePermit, Sem!OnePermit
  <2>0. PermitInv
    BY DEF SemInv
  <2>1. \A q \in Runs : q \in Sem!Holders <=> Holding(q)
    BY DEF Sem!Holders, Holding, Sem!Has
  <2>2. CASE Sem!Holders = {}
    BY <2>0, <2>2, FS_EmptySet DEF PermitInv
  <2>3. CASE Sem!Holders # {}
    <3>1. PICK q \in Runs : Holding(q)
      BY <2>1, <2>3 DEF Sem!Holders
    <3>2. Sem!Holders = {q} /\ value = 0
      BY <2>0, <2>1, <3>1 DEF PermitInv, Sem!Holders
    <3>. QED
      BY <3>2, FS_Singleton
  <2>. QED
    BY <2>2, <2>3
<1>. QED
  BY <1>1, <1>2, <1>3, PTL DEF Spec

-----------------------------------------------------------------------------
(* ForkServer                                                              *)

LEMMA ForkMoves == [Next]_vars => Fork!Next \/ UNCHANGED forkVars
BY DEF Next, Only, vars

\* What a child has a descriptor of: what fork() gave it, less what it closed.
ChildHolds(c) ==
  CASE childAt[c] = "close" -> {Listen, c}
    [] childAt[c] = "run"   -> {c}
    [] OTHER                -> {}

Serving(c) == parentAt # "accept" /\ taken = c

\* Nobody but the parent, while it is about to fork and close, and its own child
\* has a descriptor of a connection; a connection that waits is nobody's.
ForkInv ==
  /\ Fork!ForkTypeOK
  /\ parentAt # "accept" => taken \in Conns
  /\ holds[Parent] = IF parentAt = "accept" THEN {Listen} ELSE {Listen, taken}
  /\ \A c \in Conns : holds[c] = ChildHolds(c)
  /\ parentAt = "fork" => childAt[taken] = "none"
  /\ \A c \in backlog : childAt[c] = "none" /\ ~Serving(c)

LEMMA ForkStep == ForkInv /\ Fork!Next => ForkInv'
<1>. USE NobodyAssumption DEF ForkInv, Fork!ForkTypeOK, ChildHolds, Serving, Fork!Processes
<1>. SUFFICES ASSUME ForkInv, Fork!Next PROVE ForkInv'
  OBVIOUS
<1>1. CASE Fork!Accept
  <2>. PICK c \in backlog : /\ taken' = c /\ backlog' = backlog \ {c}
                            /\ holds' = [holds EXCEPT ![Parent] = @ \union {c}]
    BY <1>1 DEF Fork!Accept
  <2>1. /\ parentAt = "accept" /\ parentAt' = "fork" /\ c \in Conns
        /\ UNCHANGED <<childAt, handling, sigchld, finished>>
    BY <1>1 DEF Fork!Accept
  <2>2. \A d \in Conns : holds'[d] = holds[d]
    OBVIOUS
  <2>. QED
    BY <2>1, <2>2
<1>2. CASE Fork!Fork
  <2>1. /\ parentAt = "fork" /\ parentAt' = "close"
        /\ UNCHANGED <<taken, backlog, handling, sigchld, finished>>
    BY <1>2 DEF Fork!Fork
  <2>2. CASE UNCHANGED <<childAt, holds>>
    BY <2>1, <2>2
  <2>3. CASE /\ childAt' = [childAt EXCEPT ![taken] = "close"]
             /\ holds' = [holds EXCEPT ![taken] = holds[Parent]]
    <3>1. holds'[taken] = {Listen, taken} /\ taken \notin backlog /\ childAt'[taken] = "close"
      BY <2>1, <2>3
    <3>2. \A d \in Conns : d # taken => holds'[d] = holds[d] /\ childAt'[d] = childAt[d]
      BY <2>1, <2>3
    <3>3. holds'[Parent] = holds[Parent]
      BY <2>1, <2>3
    <3>4. \A d \in Conns : holds'[d] = ChildHolds(d)'
      BY <2>1, <3>1, <3>2
    <3>. QED
      BY <2>1, <2>3, <3>1, <3>2, <3>3, <3>4
  <2>. QED
    BY <1>2, <2>2, <2>3 DEF Fork!Fork
<1>3. CASE Fork!ParentCloses
  <2>1. /\ parentAt = "close" /\ parentAt' = "accept"
        /\ holds' = [holds EXCEPT ![Parent] = @ \ {taken}]
        /\ UNCHANGED <<taken, backlog, childAt, handling, sigchld, finished>>
    BY <1>3 DEF Fork!ParentCloses
  <2>2. holds'[Parent] = {Listen} /\ \A d \in Conns : holds'[d] = holds[d]
    BY <2>1
  <2>. QED
    BY <2>1, <2>2
<1>4. CASE Fork!HandlerStarts
  BY <1>4 DEF Fork!HandlerStarts
<1>5. CASE Fork!WaitPid
  <2>1. CASE UNCHANGED childAt
    BY <1>5, <2>1 DEF Fork!WaitPid
  <2>2. ASSUME NEW z \in Fork!Zombies, childAt' = [childAt EXCEPT ![z] = "reaped"]
        PROVE  ForkInv'
    <3>1. z \in Conns /\ childAt[z] = "zombie" /\ childAt'[z] = "reaped"
      BY <2>2 DEF Fork!Zombies
    <3>2. \A d \in Conns : d # z => childAt'[d] = childAt[d]
      BY <2>2
    <3>3. \A d \in Conns : ChildHolds(d)' = ChildHolds(d)
      BY <3>1, <3>2
    <3>. QED
      BY <1>5, <2>2, <3>1, <3>2, <3>3 DEF Fork!WaitPid
  <2>. QED
    BY <1>5, <2>1, <2>2 DEF Fork!WaitPid
<1>6. ASSUME NEW c \in Conns, Fork!ChildCloses(c) PROVE ForkInv'
  <2>1. /\ childAt[c] = "close" /\ childAt' = [childAt EXCEPT ![c] = "run"]
        /\ holds' = [holds EXCEPT ![c] = @ \ {Listen}]
        /\ UNCHANGED <<parentAt, taken, backlog, handling, sigchld, finished>>
    BY <1>6 DEF Fork!ChildCloses
  <2>2. holds'[c] = {c} /\ childAt'[c] = "run" /\ holds'[Parent] = holds[Parent]
    BY <2>1
  <2>3. \A d \in Conns : d # c => holds'[d] = holds[d] /\ childAt'[d] = childAt[d]
    BY <2>1
  <2>4. \A d \in Conns : holds'[d] = ChildHolds(d)'
    BY <2>2, <2>3
  <2>. QED
    BY <2>1, <2>2, <2>3, <2>4
<1>7. ASSUME NEW c \in Conns, Fork!ChildExits(c) PROVE ForkInv'
  <2>1. /\ childAt[c] = "run" /\ childAt' = [childAt EXCEPT ![c] = "zombie"]
        /\ holds' = [holds EXCEPT ![c] = {}] /\ sigchld' = TRUE
        /\ UNCHANGED <<parentAt, taken, backlog, handling, finished>>
    BY <1>7 DEF Fork!ChildExits
  <2>2. holds'[c] = {} /\ childAt'[c] = "zombie" /\ holds'[Parent] = holds[Parent]
    BY <2>1
  <2>3. \A d \in Conns : d # c => holds'[d] = holds[d] /\ childAt'[d] = childAt[d]
    BY <2>1
  <2>4. \A d \in Conns : holds'[d] = ChildHolds(d)'
    BY <2>2, <2>3
  <2>. QED
    BY <2>1, <2>2, <2>3, <2>4
<1>8. ASSUME NEW c \in Conns, Fork!Connect(c) PROVE ForkInv'
  <2>1. /\ c \notin Fork!Connected /\ backlog' = backlog \union {c}
        /\ UNCHANGED <<parentAt, taken, childAt, holds, handling, sigchld, finished>>
    BY <1>8 DEF Fork!Connect
  <2>2. childAt[c] = "none" /\ c \notin holds[Parent]
    BY <2>1 DEF Fork!Connected, Fork!Holders
  <2>. QED
    BY <2>1, <2>2
<1>9. ASSUME NEW c \in Conns, Fork!ClientFinishes(c) PROVE ForkInv'
  BY <1>9 DEF Fork!ClientFinishes
<1>. QED
  BY <1>1, <1>2, <1>3, <1>4, <1>5, <1>6, <1>7, <1>8, <1>9
     DEF Fork!Next, Fork!ParentStep, Fork!Handler, Fork!Child, Fork!Client

LEMMA ForkAlways == Spec => []ForkInv
<1>1. Init => ForkInv
  <2>1. Init => Fork!Init
    BY DEF Init
  <2>2. Fork!Init => ForkInv
    BY NobodyAssumption DEF Fork!Init, ForkInv, Fork!ForkTypeOK, ChildHolds, Serving,
       Fork!Processes
  <2>. QED
    BY <2>1, <2>2
<1>2. ForkInv /\ [Next]_vars => ForkInv'
  <2>1. ForkInv /\ UNCHANGED forkVars => ForkInv'
    BY DEF forkVars, ForkInv, Fork!ForkTypeOK, ChildHolds, Serving
  <2>. QED
    BY <2>1, ForkStep, ForkMoves
<1>. QED
  BY <1>1, <1>2, PTL DEF Spec

\* However accept, fork and close of the parent, its handler and the children
\* interleave, a connection is let go of when its child exits.
THEOREM ClosesWithChild == Spec => []ClosedWithChild
<1>1. ForkInv => ClosedWithChild
  <2>. SUFFICES ASSUME ForkInv PROVE Fork!ClosedWithChild
    BY DEF ClosedWithChild
  <2>1. \A c \in Conns : childAt[c] = "run" => holds[c] = {c}
    BY DEF ForkInv, ChildHolds
  <2>2. ASSUME NEW c \in Fork!Exited, NEW p \in Fork!Holders(c)
        PROVE  parentAt = "close" /\ taken = c
    <3>1. p = Parent
      <4>1. /\ c \in Conns /\ childAt[c] \in {"zombie", "reaped"}
            /\ p \in Conns \union {Parent} /\ c \in holds[p] /\ c # Listen
        BY <2>2, NobodyAssumption DEF Fork!Exited, Fork!Holders, Fork!Processes
      <4>2. \A d \in Conns : holds[d] \subseteq {Listen, d}
        BY DEF ForkInv, ChildHolds
      <4>3. holds[c] = {}
        BY <4>1 DEF ForkInv, ChildHolds
      <4>. QED
        BY <4>1, <4>2, <4>3
    <3>2. c \in holds[Parent] /\ c # Listen
      BY <2>2, <3>1, NobodyAssumption DEF Fork!Exited, Fork!Holders
    <3>. QED
      BY <2>2, <3>2 DEF ForkInv, Fork!ForkTypeOK, Fork!Exited
  <2>. QED
    BY <2>1, <2>2 DEF Fork!ClosedWithChild
<1>. QED
  BY <1>1, ForkAlways, PTL

-----------------------------------------------------------------------------
(* EpollServer                                                             *)

LEMMA EpollMoves == [Next]_vars => Epoll!Next \/ UNCHANGED epollVars
BY DEF Next, Only, vars

Told(c) ==
  \/ c \in ready \/ \E e \in events : e.fd = c
  \/ epollAt \in {"read", "write"} /\ processing_fd = c

\* The loop waits when it has handled all events; but for this the property is
\* inductive.
EpollInv ==
  /\ DOMAIN link = Callers /\ DOMAIN waiting = Callers /\ DOMAIN hangs = Callers
  /\ epollAt = "wait" => events = {}
  /\ epollAt # "exit" =>
       \A c \in Callers : link[c] = "open" /\ Epoll!Arrived(c) => Told(c)

\* epoll_wait reports what is ready and has something to read, and keeps the rest.
LEMMA EpollWaitTells ==
  ASSUME EpollInv, Epoll!EpollWait
  PROVE  EpollInv'
<1>1. PICK reported \in SUBSET {f \in ready : Epoll!Happened(f)} :
        /\ events' = {Epoll!EventOf(f) : f \in reported}
        /\ ready' = {f \in ready : Epoll!Happened(f)} \ reported
  BY DEF Epoll!EpollWait
<1>2. /\ epollAt = "wait" /\ epollAt' = "events"
      /\ UNCHANGED <<link, waiting, hangs>>
  BY DEF Epoll!EpollWait, Epoll!callerVars
<1>3. ASSUME NEW f \in reported PROVE \E e \in events' : e.fd = f
  <2>1. Epoll!EventOf(f) \in events'
    BY <1>1
  <2>2. Epoll!EventOf(f).fd = f
    BY DEF Epoll!EventOf
  <2>. QED
    BY <2>1, <2>2
<1>4. ASSUME NEW c \in Callers, link[c] = "open", Epoll!Arrived(c)
      PROVE  c \in ready' \/ \E e \in events' : e.fd = c
  <2>1. c \in ready
    BY <1>2, <1>4 DEF EpollInv, Told, Epoll!EpollWait
  <2>2. Epoll!Happened(c)
    BY <1>4, NobodyAssumption DEF Epoll!Happened
  <2>. QED
    BY <2>1, <2>2, <1>1, <1>3
<1>. QED
  BY <1>2, <1>4 DEF EpollInv, Told, Epoll!Arrived

LEMMA EpollStep == EpollInv /\ Epoll!Next => EpollInv'
<1>. USE DEF EpollInv, Told, Epoll!Arrived, Epoll!serverVars, Epoll!callerVars
<1>. SUFFICES ASSUME EpollInv, Epoll!Next PROVE EpollInv'
  OBVIOUS
<1>1. CASE Epoll!EpollWait
  BY <1>1, EpollWaitTells
<1>2. CASE Epoll!AllHandled
  BY <1>2 DEF Epoll!AllHandled
<1>3. CASE Epoll!Failed
  BY <1>3 DEF Epoll!Failed, Epoll!Close
<1>4. CASE Epoll!Accept
  <2>. PICK c \in epollBacklog : /\ link' = [link EXCEPT ![c] = "open"]
                                 /\ ready' = IF Epoll!Arrived(c) THEN ready \union {c} ELSE ready
    BY <1>4 DEF Epoll!Accept
  <2>1. /\ epollAt = "events" /\ events' = {e \in events : e.fd # ServerFd}
        /\ UNCHANGED <<epollAt, processing_fd, hangs, waiting>>
    BY <1>4 DEF Epoll!Accept
  <2>. QED
    BY <2>1, NobodyAssumption
<1>5. CASE Epoll!Process
  BY <1>5 DEF Epoll!Process
<1>6. CASE Epoll!Read
  BY <1>6 DEF Epoll!Read
<1>7. CASE Epoll!ReadNothing
  BY <1>7 DEF Epoll!ReadNothing, Epoll!Close
<1>8. CASE Epoll!Write
  BY <1>8 DEF Epoll!Write, Epoll!Again
<1>9. CASE Epoll!WriteFails
  BY <1>9 DEF Epoll!WriteFails
<1>10. ASSUME NEW c \in Callers, Epoll!Arrive(c) PROVE EpollInv'
  BY <1>10 DEF Epoll!Arrive
<1>11. ASSUME NEW c \in Callers, Epoll!Call(c) PROVE EpollInv'
  BY <1>11 DEF Epoll!Call, Epoll!Edge
<1>12. ASSUME NEW c \in Callers, Epoll!HangUp(c) PROVE EpollInv'
  BY <1>12 DEF Epoll!HangUp, Epoll!Edge
<1>. QED
  BY <1>1, <1>2, <1>3, <1>4, <1>5, <1>6, <1>7, <1>8, <1>9, <1>10, <1>11, <1>12
     DEF Epoll!Next, Epoll!EpollLoop

\* However bytes, ends of stream and connections arrive between epoll_wait, the
\* events and the reads, an edge that has been reported is followed up.
THEOREM NothingEverForgotten == Spec => []NothingForgotten
<1>1. Init => EpollInv
  <2>1. Init => Epoll!Init
    BY DEF Init
  <2>. QED
    BY <2>1 DEF Epoll!Init, Epoll!Listening, EpollInv, Told, Epoll!Arrived
<1>2. EpollInv /\ [Next]_vars => EpollInv'
  <2>1. EpollInv /\ UNCHANGED epollVars => EpollInv'
    BY DEF epollVars, EpollInv, Told, Epoll!Arrived
  <2>. QED
    BY <2>1, EpollStep, EpollMoves
<1>3. EpollInv => NothingForgotten
  BY DEF EpollInv, Told, NothingForgotten, Epoll!NothingForgotten
<1>. QED
  BY <1>1, <1>2, <1>3, PTL DEF Spec

-----------------------------------------------------------------------------
(* Heartbeat                                                               *)

LEMMA PingMoves == [Next]_vars => Ping!Next \/ UNCHANGED pingVars
BY DEF Next, Only, vars

\* What has gone by since the server was heard of and what is left of the timeout
\* make up the time for the PINGs that have been sent.
PingInv ==
  /\ timeout \in Nat /\ silence \in Nat /\ heartbeats \in Nat
  /\ pingClientAt = "select" =>
       /\ heartbeats <= ProbeTimes
       /\ silence + timeout >= KeepAliveTime + heartbeats * KeepAliveInterval
  /\ pingClientAt = "dead" => silence >= Ping!PatienceTime

LEMMA PingsTakeTime ==
  ASSUME NEW n \in Nat, n <= ProbeTimes
  PROVE  /\ n * KeepAliveInterval \in Nat
         /\ (n + 1) * KeepAliveInterval = n * KeepAliveInterval + KeepAliveInterval
         /\ n * KeepAliveInterval <= ProbeTimes * KeepAliveInterval
         /\ ProbeTimes * KeepAliveInterval \in Nat
<1>1. ProbeTimes * KeepAliveInterval = n * KeepAliveInterval + (ProbeTimes - n) * KeepAliveInterval
  BY NumbersAssumption
<1>2. (ProbeTimes - n) \in Nat /\ (ProbeTimes - n) * KeepAliveInterval \in Nat
  BY NumbersAssumption
<1>. QED
  BY <1>1, <1>2, NumbersAssumption

LEMMA PingStep == PingInv /\ Ping!Next => PingInv'
<1>. USE NumbersAssumption DEF PingInv, Ping!PatienceTime, Ping!clientVars
<1>. SUFFICES ASSUME PingInv, Ping!Next PROVE PingInv'
  OBVIOUS
<1>0. pingClientAt = "select" =>
        /\ heartbeats * KeepAliveInterval \in Nat
        /\ (heartbeats + 1) * KeepAliveInterval = heartbeats * KeepAliveInterval + KeepAliveInterval
        /\ heartbeats * KeepAliveInterval <= ProbeTimes * KeepAliveInterval
        /\ ProbeTimes * KeepAliveInterval \in Nat
  BY PingsTakeTime
<1>1. CASE Ping!TimedOut
  <2>1. /\ pingClientAt = "select" /\ timeout = 0 /\ heartbeats' = heartbeats + 1
        /\ UNCHANGED silence
    BY <1>1 DEF Ping!TimedOut
  <2>2. CASE heartbeats + 1 > ProbeTimes
    <3>1. pingClientAt' = "dead" /\ UNCHANGED timeout /\ heartbeats = ProbeTimes
      BY <1>1, <2>1, <2>2 DEF Ping!TimedOut
    <3>. QED
      BY <2>1, <3>1
  <2>3. CASE ~(heartbeats + 1 > ProbeTimes)
    <3>1. pingClientAt' = "select" /\ timeout' = KeepAliveInterval /\ heartbeats' <= ProbeTimes
      BY <1>1, <2>1, <2>3 DEF Ping!TimedOut
    <3>. QED
      BY <1>0, <2>1, <3>1
  <2>. QED
    BY <2>2, <2>3
<1>2. CASE Ping!ClientReads
  BY <1>2 DEF Ping!ClientReads
<1>3. CASE Ping!Tick
  <2>1. /\ pingClientAt = "select" /\ pingClientAt' = "select" /\ UNCHANGED heartbeats
        /\ timeout' = IF timeout > 0 THEN timeout - 1 ELSE 0
        /\ silence' = IF silence > Ping!PatienceTime THEN silence ELSE silence + 1
    BY <1>3 DEF Ping!Tick, Ping!Less
  <2>. QED
    BY <1>0, <2>1
<1>4. CASE Ping!Typed \/ Ping!ServerTerminated \/ Ping!ResetRead
  BY <1>4 DEF Ping!Typed, Ping!ServerTerminated, Ping!ResetRead
<1>5. CASE Ping!PingServer \/ Ping!ServerGone \/ Ping!ServerResets
  BY <1>5 DEF Ping!PingServer, Ping!ServerReads, Ping!ServerAnswers, Ping!ClientClosed,
              Ping!ServerGone, Ping!ServerResets
<1>. QED
  BY <1>1, <1>2, <1>3, <1>4, <1>5 DEF Ping!Next, Ping!PingClient

\* Whatever the times, the number of PINGs and the server's pace, a server that
\* is given up has not been heard of for all the time it had.
THEOREM DeadOnlyIfSilent == Spec => []DeadMeansSilent
<1>1. Init => PingInv
  <2>1. Init => Ping!Init
    BY DEF Init
  <2>. QED
    BY <2>1, NumbersAssumption DEF Ping!Init, PingInv
<1>2. PingInv /\ [Next]_vars => PingInv'
  <2>1. PingInv /\ UNCHANGED pingVars => PingInv'
    BY DEF pingVars, PingInv
  <2>. QED
    BY <2>1, PingStep, PingMoves
<1>3. PingInv => DeadMeansSilent
  BY DEF PingInv, DeadMeansSilent, Ping!DeadMeansSilent
<1>. QED
  BY <1>1, <1>2, <1>3, PTL DEF Spec

-----------------------------------------------------------------------------
(* PollServer                                                              *)

LEMMA PollMoves == [Next]_vars => Polling!Next \/ UNCHANGED pollVars
BY DEF Next, Only, vars

Open(d) == guestOf[d] # NoGuest

\* Every open descriptor is in one slot, and no other is in any; a guest has one
\* descriptor, once it no longer waits for accept().
TableInv ==
  /\ event_set \in [Polling!Slots -> Polling!Descriptors \union {-1}]
  /\ guestOf \in [Polling!Descriptors -> Guests \union {NoGuest}]
  /\ queued \subseteq came /\ came \subseteq Guests
  /\ \A d \in Polling!Descriptors : Open(d) => guestOf[d] \in came \ queued
  /\ \A d, e \in Polling!Descriptors : Open(d) /\ guestOf[d] = guestOf[e] => d = e
  /\ pollAt # "exit" =>
       /\ \A s \in Polling!Slots : event_set[s] # -1 => Open(event_set[s])
       /\ \A d \in Polling!Descriptors : Open(d) => \E s \in Polling!Slots : event_set[s] = d
       /\ \A s, t \in Polling!Slots : event_set[s] # -1 /\ event_set[s] = event_set[t] => s = t

\* The slots that this round has still to look at.
Coming(s) == (pollAt = "slots" => s >= slot) /\ (pollAt = "write" => s > slot)

\* What poll() has found in a slot is there until the slot's turn, and the slot
\* that accept() fills had nothing for poll() to look at.
NewsInv ==
  /\ pending \in [Guests -> Nat] /\ slot \in Nat /\ DOMAIN parted = Guests
  /\ pollAt \in {"accept", "slots", "write"} =>
       \A s \in Polling!Slots : Coming(s) /\ Polling!ToRead(s) => Polling!HasNews(event_set[s])
  /\ pollAt = "accept" =>
       \A s \in Polling!Slots : s \in revents => event_set[s] # -1
  /\ pollAt = "write" => slot \in Polling!Slots /\ event_set[slot] # -1

PollInv == TableInv /\ NewsInv

\* There are more descriptors than slots.
LEMMA DescriptorLeft ==
  ASSUME TableInv, pollAt # "exit"
  PROVE  \E d \in Polling!Descriptors : ~Open(d)
<1>. SUFFICES ASSUME \A d \in Polling!Descriptors : Open(d) PROVE FALSE
  OBVIOUS
<1>. DEFINE f == [s \in Polling!Slots |-> IF event_set[s] = -1 THEN 1 ELSE event_set[s]]
<1>1. 1 \in Polling!Descriptors
  BY NumbersAssumption DEF Polling!Descriptors
<1>2. f \in [Polling!Slots -> Polling!Descriptors]
  BY <1>1 DEF TableInv
<1>3. ASSUME NEW d \in Polling!Descriptors PROVE \E s \in Polling!Slots : f[s] = d
  BY <1>3 DEF TableInv, Polling!Descriptors
<1>4. ExistsSurjection(Polling!Slots, Polling!Descriptors)
  BY <1>2, <1>3 DEF ExistsSurjection, Surjection
<1>5. Cardinality(1 .. InitSize) <= InitSize - 1
  BY <1>4, FS_SurjCardinalityBound, NumbersAssumption DEF Polling!Slots, Polling!Descriptors
<1>6. Cardinality(1 .. InitSize) = InitSize
  BY FS_Interval, NumbersAssumption
<1>. QED
  BY <1>5, <1>6, NumbersAssumption

LEMMA FirstOf ==
  ASSUME NEW S \in SUBSET Nat, S # {}
  PROVE  Polling!First(S) \in S
BY LeastNumber DEF Polling!First

\* accept() takes a descriptor that is closed and a slot that is free.
LEMMA AcceptEffect ==
  ASSUME TableInv, Polling!Accept
  PROVE  \E g \in queued, d \in Polling!Descriptors :
           /\ ~Open(d) /\ queued' = queued \ {g} /\ guestOf' = [guestOf EXCEPT ![d] = g]
           /\ \/ /\ pollAt' = "exit" /\ event_set' = event_set
              \/ /\ pollAt' \in {"poll", "slots"}
                 /\ \E s \in Polling!Free : event_set' = [event_set EXCEPT ![s] = d]
<1>. DEFINE d == Polling!First({f \in Polling!Descriptors : guestOf[f] = NoGuest})
<1>1. pollAt = "accept"
  BY DEF Polling!Accept
<1>2. PICK g \in queued :
        /\ queued' = queued \ {g} /\ guestOf' = [guestOf EXCEPT ![d] = g]
        /\ event_set' = IF Polling!Free = {} THEN event_set
                        ELSE [event_set EXCEPT ![Polling!First(Polling!Free)] = d]
  BY DEF Polling!Accept
<1>3. d \in {f \in Polling!Descriptors : guestOf[f] = NoGuest}
  <2>1. {f \in Polling!Descriptors : guestOf[f] = NoGuest} # {}
    BY <1>1, DescriptorLeft DEF Open
  <2>2. {f \in Polling!Descriptors : guestOf[f] = NoGuest} \in SUBSET Nat
    BY NumbersAssumption DEF Polling!Descriptors
  <2>. QED
    BY <2>1, <2>2, FirstOf
<1>4. Polling!Free # {} => Polling!First(Polling!Free) \in Polling!Free
  <2>1. Polling!Free \in SUBSET Nat
    BY NumbersAssumption DEF Polling!Free, Polling!Slots
  <2>. QED
    BY <2>1, FirstOf
<1>5. /\ Polling!Free = {} => pollAt' = "exit"
      /\ Polling!Free # {} => pollAt' \in {"poll", "slots"}
  BY DEF Polling!Accept
<1>. HIDE DEF d
<1>. QED
  BY <1>2, <1>3, <1>4, <1>5 DEF Open

LEMMA TableStep == TableInv /\ Polling!Next => TableInv'
<1>. SUFFICES ASSUME TableInv, Polling!Next PROVE TableInv'
  OBVIOUS
<1>. USE DEF Polling!guestVars, Polling!tableVars, Open
<1>1. CASE Polling!Accept
  <2>1. PICK g \in queued, d \in Polling!Descriptors :
           /\ ~Open(d) /\ queued' = queued \ {g} /\ guestOf' = [guestOf EXCEPT ![d] = g]
           /\ \/ pollAt' = "exit" /\ event_set' = event_set
              \/ /\ pollAt' \in {"poll", "slots"}
                 /\ \E s \in Polling!Free : event_set' = [event_set EXCEPT ![s] = d]
    BY <1>1, AcceptEffect
  <2>2. pollAt = "accept" /\ UNCHANGED came /\ g \in Guests /\ d # -1
    BY <1>1 DEF Polling!Accept, TableInv, Polling!Descriptors
  <2>3. \A e \in Polling!Descriptors : guestOf'[e] = IF e = d THEN g ELSE guestOf[e]
    BY <2>1 DEF TableInv
  <2>4. \A e \in Polling!Descriptors : Open(e)' <=> e = d \/ Open(e)
    BY <2>2, <2>3, NobodyAssumption DEF Open
  <2>5. /\ guestOf' \in [Polling!Descriptors -> Guests \union {NoGuest}]
        /\ \A e \in Polling!Descriptors : Open(e)' => guestOf'[e] \in came' \ queued'
        /\ \A e, f \in Polling!Descriptors : Open(e)' /\ guestOf'[e] = guestOf'[f] => e = f
    BY <2>1, <2>2, <2>3, <2>4, NobodyAssumption DEF TableInv
  <2>6. CASE pollAt' = "exit" /\ event_set' = event_set
    BY <2>1, <2>2, <2>5, <2>6 DEF TableInv
  <2>7. ASSUME pollAt' \in {"poll", "slots"}, NEW s \in Polling!Free,
               event_set' = [event_set EXCEPT ![s] = d]
        PROVE  TableInv'
    <3>1. s \in Polling!Slots /\ event_set[s] = -1
      BY DEF Polling!Free
    <3>2. \A t \in Polling!Slots : event_set'[t] = IF t = s THEN d ELSE event_set[t]
      BY <2>7, <3>1 DEF TableInv
    <3>3. \A t \in Polling!Slots : event_set[t] # d
      BY <2>1, <2>2 DEF TableInv
    <3>4. event_set' \in [Polling!Slots -> Polling!Descriptors \union {-1}]
      BY <2>7 DEF TableInv
    <3>5. \A t \in Polling!Slots : event_set'[t] # -1 => guestOf'[event_set'[t]] # NoGuest
      BY <2>2, <2>4, <3>2 DEF TableInv
    <3>6. \A e \in Polling!Descriptors : Open(e)' => \E t \in Polling!Slots : event_set'[t] = e
      <4>. SUFFICES ASSUME NEW e \in Polling!Descriptors, e # d, guestOf[e] # NoGuest
                    PROVE  \E t \in Polling!Slots : event_set'[t] = e
        BY <2>4, <3>1, <3>2
      <4>1. PICK t \in Polling!Slots : event_set[t] = e
        BY <2>2 DEF TableInv
      <4>2. t # s
        BY <3>1, <4>1, NumbersAssumption DEF Polling!Descriptors
      <4>. QED
        BY <3>2, <4>1, <4>2
    <3>7. \A t, u \in Polling!Slots : event_set'[t] # -1 /\ event_set'[t] = event_set'[u] => t = u
      BY <2>2, <3>2, <3>3 DEF TableInv
    <3>. QED
      BY <2>1, <2>2, <2>5, <3>4, <3>5, <3>6, <3>7 DEF TableInv
  <2>. QED
    BY <2>1, <2>6, <2>7
<1>2. CASE Polling!Close
  <2>1. /\ pollAt = "slots" /\ slot \in Polling!Slots /\ event_set[slot] # -1
        /\ guestOf' = [guestOf EXCEPT ![event_set[slot]] = NoGuest]
        /\ event_set' = [event_set EXCEPT ![slot] = -1]
        /\ UNCHANGED <<pollAt, queued, came>>
    BY <1>2 DEF Polling!Close, Polling!ToRead, Polling!Vacate
  <2>2. \A e \in Polling!Descriptors : guestOf'[e] = IF e = event_set[slot] THEN NoGuest ELSE guestOf[e]
    BY <2>1 DEF TableInv
  <2>3. \A e \in Polling!Descriptors : Open(e)' <=> e # event_set[slot] /\ Open(e)
    BY <2>2 DEF Open
  <2>4. \A t \in Polling!Slots : event_set'[t] = IF t = slot THEN -1 ELSE event_set[t]
    BY <2>1 DEF TableInv
  <2>5. /\ event_set' \in [Polling!Slots -> Polling!Descriptors \union {-1}]
        /\ guestOf' \in [Polling!Descriptors -> Guests \union {NoGuest}]
    BY <2>1 DEF TableInv
  <2>6. /\ \A e \in Polling!Descriptors : Open(e)' => guestOf'[e] \in came' \ queued'
        /\ \A e, f \in Polling!Descriptors : Open(e)' /\ guestOf'[e] = guestOf'[f] => e = f
    BY <2>1, <2>2, <2>3 DEF TableInv
  <2>7. \A t \in Polling!Slots : event_set'[t] # -1 => guestOf'[event_set'[t]] # NoGuest
    BY <2>1, <2>3, <2>4 DEF TableInv
  <2>8. \A e \in Polling!Descriptors : Open(e)' => \E t \in Polling!Slots : event_set'[t] = e
    BY <2>1, <2>3, <2>4 DEF TableInv
  <2>9. \A t, u \in Polling!Slots : event_set'[t] # -1 /\ event_set'[t] = event_set'[u] => t = u
    BY <2>1, <2>4 DEF TableInv
  <2>. QED
    BY <2>1, <2>5, <2>6, <2>7, <2>8, <2>9 DEF TableInv
<1>3. ASSUME UNCHANGED <<event_set, guestOf, queued, came>>, pollAt' = "exit" \/ pollAt # "exit"
      PROVE  TableInv'
  BY <1>3 DEF TableInv
<1>4. CASE Polling!Poll
  BY <1>3, <1>4 DEF Polling!Poll
<1>5. CASE Polling!Skip \/ Polling!RoundDone \/ Polling!Read \/ Polling!Write
  BY <1>3, <1>5 DEF Polling!Skip, Polling!RoundDone, Polling!Read, Polling!Write
<1>6. ASSUME NEW g \in Guests, Polling!Come(g) PROVE TableInv'
  BY <1>6 DEF Polling!Come, TableInv
<1>7. ASSUME NEW g \in Guests, Polling!SendLine(g) \/ Polling!Part(g) PROVE TableInv'
  BY <1>3, <1>7 DEF Polling!SendLine, Polling!Part
<1>. QED
  BY <1>1, <1>2, <1>4, <1>5, <1>6, <1>7 DEF Polling!Next, Polling!PollLoop

\* What a slot has to read is news of its own guest only.
LEMMA NewsOf ==
  ASSUME TableInv, pollAt # "exit",
         NEW s \in Polling!Slots, NEW t \in Polling!Slots, s # t,
         event_set[s] # -1, event_set[t] # -1
  PROVE  /\ event_set[s] # event_set[t] /\ guestOf[event_set[s]] # guestOf[event_set[t]]
         /\ guestOf[event_set[t]] \in Guests /\ event_set[t] \in Polling!Descriptors
<1>1. event_set[s] \in Polling!Descriptors /\ event_set[t] \in Polling!Descriptors
  BY DEF TableInv
<1>2. Open(event_set[s]) /\ Open(event_set[t]) /\ event_set[s] # event_set[t]
  BY DEF TableInv
<1>. QED
  BY <1>1, <1>2 DEF TableInv

LEMMA NewsStep == PollInv /\ Polling!Next => NewsInv'
<1>. SUFFICES ASSUME TableInv, NewsInv, Polling!Next PROVE NewsInv'
  BY DEF PollInv
<1>. USE DEF Polling!guestVars, Polling!tableVars, Polling!Guest
<1>1. CASE Polling!Poll
  <2>1. /\ pollAt = "poll" /\ pollAt' \in {"accept", "slots"} /\ slot' \in {0, 1}
        /\ \A s \in Polling!Slots : s \in revents' => event_set[s] # -1 /\ Polling!HasNews(event_set[s])
        /\ UNCHANGED <<event_set, guestOf, parted, pending>>
    BY <1>1, NumbersAssumption DEF Polling!Poll, Polling!Free, Polling!Slots
  <2>. QED
    BY <2>1 DEF NewsInv, Polling!ToRead, Polling!HasNews
<1>2. CASE Polling!Accept
  <2>1. PICK g \in queued, d \in Polling!Descriptors :
           /\ ~Open(d) /\ guestOf' = [guestOf EXCEPT ![d] = g]
           /\ \/ pollAt' = "exit" /\ event_set' = event_set
              \/ /\ pollAt' \in {"poll", "slots"}
                 /\ \E s \in Polling!Free : event_set' = [event_set EXCEPT ![s] = d]
    BY <1>2, AcceptEffect
  <2>2. /\ pollAt = "accept" /\ slot' = 1
        /\ UNCHANGED <<revents, parted, pending>>
    BY <1>2 DEF Polling!Accept
  <2>3. CASE pollAt' = "exit"
    BY <2>2, <2>3 DEF NewsInv
  <2>4. ASSUME pollAt' \in {"poll", "slots"}, NEW s \in Polling!Free,
               event_set' = [event_set EXCEPT ![s] = d],
               NEW t \in Polling!Slots, Polling!ToRead(t)'
        PROVE  Polling!HasNews(event_set[t])'
    <3>1. s \in Polling!Slots /\ event_set[s] = -1 /\ t # s
      BY <2>2, <2>4 DEF Polling!Free, Polling!ToRead, NewsInv
    <3>2. event_set'[t] = event_set[t] /\ Polling!ToRead(t)
      BY <2>2, <2>4, <3>1 DEF Polling!ToRead, TableInv
    <3>3. Polling!HasNews(event_set[t]) /\ event_set[t] # d /\ event_set[t] \in Polling!Descriptors
      BY <2>1, <2>2, <3>2 DEF NewsInv, TableInv, Coming, Polling!ToRead
    <3>4. guestOf'[event_set[t]] = guestOf[event_set[t]]
      BY <2>1, <3>3 DEF TableInv
    <3>. QED
      BY <2>2, <3>2, <3>3, <3>4 DEF Polling!HasNews
  <2>5. pollAt' \in {"exit", "poll", "slots"}
    BY <2>1
  <2>. QED
    BY <2>1, <2>2, <2>3, <2>4, <2>5 DEF NewsInv
<1>3. CASE Polling!Skip
  <2>1. /\ pollAt = "slots" /\ ~Polling!ToRead(slot) /\ slot' = slot + 1
        /\ UNCHANGED <<pollAt, event_set, revents, guestOf, parted, pending>>
    BY <1>3 DEF Polling!Skip
  <2>2. ASSUME NEW s \in Polling!Slots, s >= slot + 1 PROVE s >= slot
    BY <2>2, NumbersAssumption DEF NewsInv, Polling!Slots
  <2>. QED
    BY <2>1, <2>2 DEF NewsInv, Coming, Polling!ToRead, Polling!HasNews
<1>4. CASE Polling!RoundDone
  BY <1>4 DEF Polling!RoundDone, NewsInv
<1>5. CASE Polling!Read
  <2>. DEFINE me == guestOf[event_set[slot]]
  <2>1. /\ pollAt = "slots" /\ pollAt' = "write" /\ slot \in Polling!Slots /\ event_set[slot] # -1
        /\ pending[me] > 0
        /\ read_count' = IF pending[me] < PollReadSize THEN pending[me] ELSE PollReadSize
        /\ pending' = [pending EXCEPT ![me] = @ - read_count']
        /\ UNCHANGED <<event_set, revents, slot, guestOf, parted>>
    BY <1>5 DEF Polling!Read, Polling!ToRead
  <2>2. pending' \in [Guests -> Nat]
    <3>1. me \in Guests
      BY <2>1 DEF TableInv, Open
    <3>2. pending[me] - read_count' \in Nat
      BY <2>1, <3>1, NumbersAssumption DEF NewsInv
    <3>. QED
      BY <2>1, <3>1, <3>2 DEF NewsInv
  <2>3. ASSUME NEW t \in Polling!Slots, t > slot, Polling!ToRead(t)'
        PROVE  Polling!HasNews(event_set[t])'
    <3>1. event_set[t] # -1 /\ Polling!ToRead(t) /\ slot # t
      BY <2>1, <2>3 DEF Polling!ToRead, NewsInv, Polling!Slots
    <3>2. guestOf[event_set[t]] # me /\ guestOf[event_set[t]] \in Guests
      BY <2>1, <3>1, NewsOf
    <3>3. Polling!HasNews(event_set[t])
      BY <2>1, <2>3, <3>1, NumbersAssumption DEF NewsInv, Coming, Polling!Slots
    <3>4. pending'[guestOf[event_set[t]]] = pending[guestOf[event_set[t]]]
      BY <2>1, <3>2 DEF NewsInv
    <3>. QED
      BY <2>1, <3>3, <3>4 DEF Polling!HasNews
  <2>4. slot' \in Nat
    BY <2>1 DEF NewsInv
  <2>. QED
    BY <2>1, <2>2, <2>3, <2>4 DEF NewsInv, Coming
<1>6. CASE Polling!Write
  <2>1. /\ pollAt = "write" /\ pollAt' \in {"exit", "slots"} /\ slot' \in Nat
        /\ pollAt' = "slots" => slot' = slot + 1
        /\ UNCHANGED <<event_set, revents, guestOf, parted, pending>>
    BY <1>6 DEF Polling!Write, NewsInv
  <2>. QED
    BY <2>1, NumbersAssumption DEF NewsInv, Coming, Polling!ToRead, Polling!HasNews, Polling!Slots
<1>7. CASE Polling!Close
  <2>1. /\ pollAt = "slots" /\ slot \in Polling!Slots /\ event_set[slot] # -1
        /\ guestOf' = [guestOf EXCEPT ![event_set[slot]] = NoGuest]
        /\ event_set' = [event_set EXCEPT ![slot] = -1] /\ slot' = slot + 1
        /\ UNCHANGED <<pollAt, revents, parted, pending>>
    BY <1>7 DEF Polling!Close, Polling!ToRead, Polling!Vacate
  <2>2. ASSUME NEW t \in Polling!Slots, t >= slot + 1, Polling!ToRead(t)'
        PROVE  Polling!HasNews(event_set[t])'
    <3>1. t # slot /\ event_set'[t] = event_set[t]
      BY <2>1, <2>2 DEF TableInv, NewsInv, Polling!Slots
    <3>2. event_set[t] # -1 /\ Polling!ToRead(t) /\ t >= slot
      BY <2>1, <2>2, <3>1, NumbersAssumption DEF Polling!ToRead, NewsInv, Polling!Slots
    <3>3. event_set[slot] # event_set[t] /\ event_set[t] \in Polling!Descriptors
      BY <2>1, <3>1, <3>2, NewsOf
    <3>4. guestOf'[event_set[t]] = guestOf[event_set[t]]
      BY <2>1, <3>3 DEF TableInv
    <3>5. Polling!HasNews(event_set[t])
      BY <2>1, <3>2 DEF NewsInv, Coming
    <3>. QED
      BY <2>1, <3>1, <3>4, <3>5 DEF Polling!HasNews
  <2>. QED
    BY <2>1, <2>2 DEF NewsInv, Coming
<1>8. ASSUME NEW g \in Guests, Polling!Come(g) \/ Polling!SendLine(g) \/ Polling!Part(g)
      PROVE  NewsInv'
  <2>1. /\ UNCHANGED <<pollAt, event_set, revents, slot, guestOf>>
        /\ pending' \in [Guests -> Nat] /\ DOMAIN parted' = Guests
    BY <1>8 DEF Polling!Come, Polling!SendLine, Polling!Part, NewsInv
  <2>2. /\ \A h \in Guests : pending'[h] >= pending[h]
        /\ \A h \in Guests : parted[h] # "no" => parted'[h] # "no"
    BY <1>8 DEF Polling!Come, Polling!SendLine, Polling!Part, NewsInv
  <2>3. ASSUME NEW s \in Polling!Slots, event_set[s] # -1, Polling!HasNews(event_set[s]), pollAt # "exit"
        PROVE  Polling!HasNews(event_set[s])'
    <3>1. guestOf[event_set[s]] \in Guests
      BY <2>3 DEF TableInv, Polling!HasNews
    <3>. QED
      BY <2>1, <2>2, <2>3, <3>1 DEF Polling!HasNews, NewsInv
  <2>. QED
    BY <2>1, <2>3 DEF NewsInv, Coming, Polling!ToRead
<1>. QED
  BY <1>1, <1>2, <1>3, <1>4, <1>5, <1>6, <1>7, <1>8 DEF Polling!Next, Polling!PollLoop

LEMMA PollAlways == Spec => []PollInv
<1>1. Init => PollInv
  <2>1. Init => Polling!Init
    BY DEF Init
  <2>. QED
    BY <2>1 DEF Polling!Init, Polling!Listening, PollInv, TableInv, NewsInv, Open
<1>2. PollInv /\ [Next]_vars => PollInv'
  <2>1. PollInv /\ UNCHANGED pollVars => PollInv'
    BY DEF pollVars, PollInv, TableInv, NewsInv, Open, Coming, Polling!ToRead, Polling!HasNews,
           Polling!Slots, Polling!Descriptors
  <2>. QED
    BY <2>1, TableStep, NewsStep, PollMoves DEF PollInv
<1>. QED
  BY <1>1, <1>2, PTL DEF Spec

\* However slots and descriptors are freed and taken again between poll() and a
\* slot's turn, no read() of the round is of a socket that has nothing.
THEOREM NeverBlockedInRead == Spec => []ReadsOnlyReady
<1>1. PollInv => ReadsOnlyReady
  BY DEF PollInv, NewsInv, Coming, ReadsOnlyReady, Polling!ReadsOnlyReady
<1>. QED
  BY <1>1, PollAlways, PTL

-----------------------------------------------------------------------------
(* Reactor                                                                 *)

LEMMA ReactMoves == [Next]_vars => React!Next \/ UNCHANGED reactorVars
BY DEF Next, Only, vars

Adds(l, k)    == todo[l][k].type = "ADD"
Deletes(l, k) == todo[l][k].type = "DELETE"
ChanIn(l, k)  == todo[l][k].chan
Waits(l)      == DOMAIN todo[l]
Unserved(f)   == \A l \in React!Loops : f \notin interest[l]

\* The channel's connection is open and no loop has its descriptor.
Fresh(ch) == openAs[ch[2]] = ch[1] /\ Unserved(ch[2])

\* The main thread has one connection at most to post.
AcceptingInv == accepting # <<>> => Len(accepting) = 1 /\ Fresh(Head(accepting))

\* While an ADD waits its connection is open, nobody has it, and nobody else will.
AddsFresh ==
  \A l \in React!Loops : \A k \in Waits(l) : Adds(l, k) =>
    Fresh(ChanIn(l, k)) /\ (accepting # <<>> => Head(accepting)[2] # ChanIn(l, k)[2])

AddsApart ==
  \A l, m \in React!Loops : \A k \in Waits(l), j \in Waits(m) :
    Adds(l, k) /\ Adds(m, j) /\ ChanIn(l, k)[2] = ChanIn(m, j)[2] => l = m /\ k = j

AddsInv == AddsFresh /\ AddsApart

\* A loop that has posted a DELETE handles it, and all before it, before any
\* other event, and none of these is of the descriptor.
DeletesInv ==
  /\ \A l \in React!Loops : loopAt[l] = "drain" => todo[l] # <<>>
  /\ \A l \in React!Loops : \A k \in Waits(l) : Deletes(l, k) =>
       loopAt[l] = "drain" /\ \A e \in batch[l] : e[1] # ChanIn(l, k)[2]

\* epoll_wait reports a descriptor once.
BatchInv == \A l \in React!Loops : \A d, e \in batch[l] : d[1] = e[1] => d = e

ReactInv ==
  /\ React!ReactorTypeOK /\ AcceptingInv /\ AddsInv /\ DeletesInv /\ BatchInv
  /\ React!KeptApart

LEMMA AppendEffect ==
  ASSUME NEW S, NEW s \in Seq(S), NEW o \in S
  PROVE  /\ Append(s, o) \in Seq(S) /\ Len(s) \in Nat /\ Len(Append(s, o)) = Len(s) + 1
         /\ Append(s, o)[Len(s) + 1] = o
         /\ \A k \in 1 .. Len(s) : Append(s, o)[k] = s[k] /\ s[k] \in S
OBVIOUS

LEMMA TailEffect ==
  ASSUME NEW S, NEW s \in Seq(S), s # <<>>
  PROVE  /\ Tail(s) \in Seq(S) /\ Len(s) \in Nat \ {0} /\ Len(Tail(s)) = Len(s) - 1
         /\ Head(s) = s[1] /\ Head(s) \in S
         /\ \A k \in 1 .. Len(s) - 1 : Tail(s)[k] = s[k + 1] /\ s[k + 1] \in S
OBVIOUS

\* What an operation does to the channel_map.
LEMMA ApplyingAdd ==
  ASSUME NEW l, NEW r, NEW o, o.type = "ADD", React!FdOf[o.chan] # -1
  PROVE  React!Queue(l)!Applied(r, o) =
           IF r[React!FdOf[o.chan]] = NoClient THEN [r EXCEPT ![React!FdOf[o.chan]] = o.chan]
           ELSE r
BY Zenon DEF React!Queue!Applied

LEMMA ApplyingDelete ==
  ASSUME NEW l, NEW r, NEW o, o.type = "DELETE", React!FdOf[o.chan] # -1
  PROVE  React!Queue(l)!Applied(r, o) = [r EXCEPT ![React!FdOf[o.chan]] = NoClient]
BY Zenon DEF React!Queue!Applied

Node == [type : {"ADD", "DELETE"}, chan : React!Channels]

LEMMA NodeFd ==
  ASSUME NEW o \in Node
  PROVE  /\ React!FdOf[o.chan] = o.chan[2] /\ o.chan[2] \in React!Fds /\ o.chan[2] # -1
         /\ o.chan[1] \in React!Clients /\ o.chan = <<o.chan[1], o.chan[2]>>
         /\ o.type \in {"ADD", "DELETE"} /\ o.chan \in React!Channels
BY NumbersAssumption DEF Node, React!Channels, React!FdOf, React!Fds

\* event_loop_handle_pending_channel: an ADD registers the channel where there
\* is none, a DELETE leaves none; nothing else of the tables changes.
LEMMA ApplyEffect ==
  ASSUME ReactInv, NEW l \in React!Loops, React!Apply(l)
  PROVE  LET o == Head(todo[l])  f == o.chan[2] IN
         /\ o \in Node /\ todo[l] # <<>>
         /\ \/ /\ o.type = "ADD" /\ map[l][f] = NoClient
               /\ map' = [map EXCEPT ![l] = [@ EXCEPT ![f] = o.chan]]
               /\ interest' = [interest EXCEPT ![l] = @ \union {f}]
            \/ o.type = "ADD" /\ map' = map /\ interest' = interest
            \/ /\ o.type = "DELETE"
               /\ map' = [map EXCEPT ![l] = [@ EXCEPT ![f] = NoClient]]
               /\ interest' = [interest EXCEPT ![l] = @ \ {f}]
<1>. DEFINE o == Head(todo[l])
            f == o.chan[2]
<1>1. loopAt[l] = "drain" /\ todo[l] # <<>> /\ todo[l] \in Seq(Node)
  BY DEF React!Apply, ReactInv, DeletesInv, React!ReactorTypeOK, Node
<1>2. o \in Node
  BY <1>1, TailEffect
<1>3. React!FdOf[o.chan] = f /\ f \in React!Fds /\ f # -1 /\ o.type \in {"ADD", "DELETE"}
  BY <1>2, NodeFd
<1>4. map \in [React!Loops -> [React!Fds -> React!Channels \union {NoClient}]]
  BY DEF ReactInv, React!ReactorTypeOK
<1>5. map' = [map EXCEPT ![l] = React!Queue(l)!Applied(map[l], o)]
  BY DEF React!Apply
<1>6. /\ o.type = "ADD" /\ map'[l] # map[l] => interest' = [interest EXCEPT ![l] = @ \union {f}]
      /\ o.type = "ADD" /\ map'[l] = map[l] => interest' = interest
      /\ o.type = "DELETE" => interest' = [interest EXCEPT ![l] = @ \ {f}]
  BY <1>3 DEF React!Apply
<1>. HIDE DEF o
<1>7. CASE o.type = "DELETE"
  <2>1. React!Queue(l)!Applied(map[l], o) = [map[l] EXCEPT ![f] = NoClient]
    BY <1>3, <1>7, ApplyingDelete
  <2>. QED
    BY <1>1, <1>2, <1>5, <1>6, <1>7, <2>1 DEF o
<1>8. CASE o.type = "ADD" /\ map[l][f] = NoClient /\ o.chan # NoClient
  <2>1. React!Queue(l)!Applied(map[l], o) = [map[l] EXCEPT ![f] = o.chan]
    BY <1>3, <1>8, ApplyingAdd
  <2>2. map'[l] = [map[l] EXCEPT ![f] = o.chan]
    BY <1>4, <1>5, <2>1
  <2>3. map'[l][f] = o.chan
    BY <1>3, <1>4, <2>2
  <2>. QED
    BY <1>1, <1>2, <1>5, <1>6, <1>8, <2>1, <2>3 DEF o
<1>9. CASE o.type = "ADD" /\ ~(map[l][f] = NoClient /\ o.chan # NoClient)
  <2>1. React!Queue(l)!Applied(map[l], o) = map[l]
    BY <1>3, <1>4, <1>9, ApplyingAdd
  <2>2. map' = map
    BY <1>4, <1>5, <2>1
  <2>. QED
    BY <1>1, <1>2, <1>6, <1>9, <2>2 DEF o
<1>. QED
  BY <1>3, <1>7, <1>8, <1>9

LEMMA ReactTypes ==
  ASSUME ReactInv, React!Next
  PROVE  React!ReactorTypeOK'
<1>. USE NumbersAssumption DEF React!clientVars, React!mainVars, React!tableVars, React!loopVars
<1>0. React!ReactorTypeOK
  BY DEF ReactInv
<1>1. CASE React!Accept
  <2>. DEFINE f == React!Least(React!FreeFds)
  <2>1. f \in React!Fds
    <3>1. React!FreeFds \in SUBSET Nat /\ React!FreeFds # {} /\ React!FreeFds \subseteq React!Fds
      BY <1>1 DEF React!Accept, React!FreeFds, React!Fds
    <3>. QED
      BY <3>1, LeastNumber DEF React!Least
  <2>2. /\ admitted' = admitted + 1 /\ admitted < coming
        /\ openAs' = [openAs EXCEPT ![f] = admitted']
        /\ accepting' = <<<<admitted', f>>>>
        /\ UNCHANGED <<coming, gone, position, undelivered, todo, map, interest, loopAt, batch>>
    BY <1>1 DEF React!Accept
  <2>. HIDE DEF f
  <2>3. admitted' \in React!Clients /\ admitted' \in 0 .. coming
    BY <1>0, <2>2 DEF React!ReactorTypeOK, React!Clients
  <2>4. openAs' \in [React!Fds -> React!Clients \union {NoClient}]
    BY <1>0, <2>1, <2>2, <2>3 DEF React!ReactorTypeOK
  <2>5. accepting' \in Seq(React!Channels)
    BY <2>1, <2>2, <2>3 DEF React!Channels
  <2>. QED
    BY <1>0, <2>2, <2>3, <2>4, <2>5 DEF React!ReactorTypeOK
<1>2. CASE React!PostConnection
  <2>1. /\ accepting # <<>> /\ accepting' = <<>>
        /\ position' = IF position + 1 >= N THEN 0 ELSE position + 1
        /\ todo' = [todo EXCEPT ![position] = Append(@, [type |-> "ADD", chan |-> Head(accepting)])]
        /\ UNCHANGED <<coming, gone, admitted, undelivered, openAs, map, interest, loopAt, batch>>
    BY <1>2 DEF React!PostConnection, React!Posted
  <2>2. [type |-> "ADD", chan |-> Head(accepting)] \in Node
    BY <1>0, <2>1 DEF React!ReactorTypeOK, Node
  <2>3. position \in React!Loops /\ todo[position] \in Seq(Node)
    BY <1>0 DEF React!ReactorTypeOK, Node
  <2>4. todo' \in [React!Loops -> Seq(Node)]
    BY <1>0, <2>1, <2>2, <2>3, AppendEffect DEF React!ReactorTypeOK, Node
  <2>5. position' \in React!Loops
    BY <2>1, <2>3 DEF React!Loops
  <2>6. accepting' \in Seq(React!Channels)
    BY <2>1
  <2>. QED
    BY <1>0, <2>1, <2>4, <2>5, <2>6 DEF React!ReactorTypeOK, Node
<1>3. ASSUME NEW l \in React!Loops, React!Wait(l) PROVE React!ReactorTypeOK'
  <2>1. /\ loopAt' = [loopAt EXCEPT ![l] = "walk"]
        /\ UNCHANGED <<coming, gone, admitted, accepting, position, undelivered, openAs, todo,
                       map, interest>>
    BY <1>3 DEF React!Wait
  <2>2. PICK B : batch' = [batch EXCEPT ![l] = B] /\ B \in SUBSET React!Event
    <3>. DEFINE B == {<<f, IF gone[openAs[f]] = "rst" THEN "err" ELSE "in">> :
                        f \in {g \in React!Fds : React!Ready(l, g)}}
    <3>1. B \in SUBSET React!Event
      BY DEF React!Event
    <3>. QED
      BY <1>3, <3>1 DEF React!Wait
  <2>. QED
    BY <1>0, <2>1, <2>2 DEF React!ReactorTypeOK
<1>4. ASSUME NEW l \in React!Loops, NEW e \in batch[l], React!Error(l, e)
      PROVE  React!ReactorTypeOK'
  <2>1. /\ openAs' = [openAs EXCEPT ![e[1]] = NoClient]
        /\ interest' = [k \in React!Loops |-> interest[k] \ {e[1]}]
        /\ undelivered' = undelivered \ {openAs[e[1]]}
        /\ batch' = [batch EXCEPT ![l] = batch[l] \ {e}]
        /\ UNCHANGED <<coming, gone, admitted, accepting, position, todo, map, loopAt>>
    BY <1>4 DEF React!Error, React!Handled
  <2>. QED
    BY <1>0, <2>1 DEF React!ReactorTypeOK
<1>5. ASSUME NEW l \in React!Loops, NEW e \in batch[l], React!Readable(l, e)
      PROVE  React!ReactorTypeOK'
  <2>1. /\ batch' = [batch EXCEPT ![l] = batch[l] \ {e}]
        /\ undelivered' = undelivered \ {openAs[e[1]]}
        /\ UNCHANGED <<coming, gone, admitted, accepting, position, openAs, map, interest>>
        /\ \/ UNCHANGED <<todo, loopAt>>
           \/ /\ todo' = [todo EXCEPT ![l] = Append(@, [type |-> "DELETE", chan |-> map[l][e[1]]])]
              /\ loopAt' = [loopAt EXCEPT ![l] = "drain"]
    BY <1>5 DEF React!Readable, React!Handled, React!Posted
  <2>2. [type |-> "DELETE", chan |-> map[l][e[1]]] \in Node
    <3>1. e[1] \in interest[l]
      BY DEF ReactInv, React!KeptApart
    <3>2. /\ e[1] \in React!Fds /\ openAs[e[1]] \in React!Clients
          /\ map[l][e[1]] = <<openAs[e[1]], e[1]>>
      BY <1>0, <3>1 DEF ReactInv, React!KeptApart, React!ReactorTypeOK
    <3>. QED
      BY <3>2 DEF Node, React!Channels
  <2>3. todo' \in [React!Loops -> Seq(Node)]
    <3>1. todo \in [React!Loops -> Seq(Node)]
      BY <1>0 DEF React!ReactorTypeOK, Node
    <3>2. Append(todo[l], [type |-> "DELETE", chan |-> map[l][e[1]]]) \in Seq(Node)
      BY <2>2, <3>1, AppendEffect
    <3>. QED
      BY <2>1, <3>1, <3>2
  <2>. QED
    BY <1>0, <2>1, <2>3 DEF React!ReactorTypeOK, Node
<1>6. ASSUME NEW l \in React!Loops, React!WalkDone(l) PROVE React!ReactorTypeOK'
  BY <1>0, <1>6 DEF React!WalkDone, React!ReactorTypeOK
<1>7. ASSUME NEW l \in React!Loops, React!Apply(l) PROVE React!ReactorTypeOK'
  <2>. DEFINE o == Head(todo[l])
              f == o.chan[2]
  <2>1. /\ o \in Node /\ todo[l] # <<>>
        /\ \/ /\ map' = [map EXCEPT ![l] = [@ EXCEPT ![f] = o.chan]]
              /\ interest' = [interest EXCEPT ![l] = @ \union {f}]
           \/ map' = map /\ interest' = interest
           \/ /\ map' = [map EXCEPT ![l] = [@ EXCEPT ![f] = NoClient]]
              /\ interest' = [interest EXCEPT ![l] = @ \ {f}]
    BY <1>7, ApplyEffect
  <2>2. f \in React!Fds /\ o.chan \in React!Channels
    BY <2>1, NodeFd
  <2>. HIDE DEF o
  <2>3. /\ map' \in [React!Loops -> [React!Fds -> React!Channels \union {NoClient}]]
        /\ interest' \in [React!Loops -> SUBSET React!Fds]
    <3>1. /\ map \in [React!Loops -> [React!Fds -> React!Channels \union {NoClient}]]
          /\ interest \in [React!Loops -> SUBSET React!Fds]
      BY <1>0 DEF React!ReactorTypeOK
    <3>2. \A x \in React!Channels \union {NoClient} :
            [map[l] EXCEPT ![f] = x] \in [React!Fds -> React!Channels \union {NoClient}]
      BY <3>1
    <3>3. /\ interest[l] \union {f} \in SUBSET React!Fds
          /\ interest[l] \ {f} \in SUBSET React!Fds
      BY <2>2, <3>1
    <3>. HIDE DEF f
    <3>4. map' \in [React!Loops -> [React!Fds -> React!Channels \union {NoClient}]]
      BY <2>1, <2>2, <3>1, <3>2
    <3>5. interest' \in [React!Loops -> SUBSET React!Fds]
      BY <2>1, <3>1, <3>3
    <3>. QED
      BY <3>4, <3>5
  <2>4. Tail(todo[l]) \in Seq(Node)
    BY <1>0, <2>1, TailEffect DEF React!ReactorTypeOK, Node
  <2>5. todo' \in [React!Loops -> Seq(Node)]
    BY <1>0, <1>7, <2>4 DEF React!Apply, React!ReactorTypeOK, Node
  <2>6. loopAt' \in [React!Loops -> {"wait", "walk", "drain"}]
    BY <1>0, <1>7 DEF React!Apply, React!ReactorTypeOK
  <2>. QED
    BY <1>0, <1>7, <2>3, <2>5, <2>6 DEF React!Apply, React!ReactorTypeOK, Node
<1>8. CASE React!Connect
  <2>1. coming' \in 0 .. MaxComing /\ admitted \in 0 .. coming'
    BY <1>0, <1>8 DEF React!Connect, React!ReactorTypeOK
  <2>. QED
    BY <1>0, <1>8, <2>1 DEF React!Connect, React!ReactorTypeOK
<1>9. ASSUME NEW c \in React!Clients, React!Send(c) \/ React!Leave(c) PROVE React!ReactorTypeOK'
  BY <1>0, <1>9 DEF React!Send, React!Leave, React!ReactorTypeOK
<1>. QED
  BY <1>1, <1>2, <1>3, <1>4, <1>5, <1>6, <1>7, <1>8, <1>9
     DEF React!Next, React!MainLoop, React!Loop

\* The operations before and after one is posted, and one is taken.
LEMMA NodesWait ==
  ASSUME React!ReactorTypeOK
  PROVE  /\ todo \in [React!Loops -> Seq(Node)]
         /\ \A l \in React!Loops : \A k \in Waits(l) : todo[l][k] \in Node
<1>1. todo \in [React!Loops -> Seq(Node)]
  BY DEF React!ReactorTypeOK, Node
<1>. HIDE DEF Node
<1>. QED
  BY <1>1 DEF Waits

LEMMA PostedEffect ==
  ASSUME React!ReactorTypeOK, NEW p \in React!Loops, NEW o \in Node,
         todo' = [todo EXCEPT ![p] = Append(@, o)],
         NEW last, last = Len(todo[p]) + 1
  PROVE  /\ last \notin Waits(p) /\ todo'[p][last] = o
         /\ DOMAIN todo'[p] = Waits(p) \union {last} /\ todo'[p] # <<>>
         /\ \A k \in Waits(p) : todo'[p][k] = todo[p][k]
         /\ \A l \in React!Loops : l # p => todo'[l] = todo[l]
<1>1. todo \in [React!Loops -> Seq(Node)]
  BY NodesWait
<1>2. /\ todo'[p] = Append(todo[p], o)
      /\ \A l \in React!Loops : l # p => todo'[l] = todo[l]
  BY <1>1
<1>3. /\ Len(todo[p]) \in Nat /\ Len(todo'[p]) = last /\ todo'[p][last] = o
      /\ todo'[p] \in Seq(Node)
      /\ \A k \in 1 .. Len(todo[p]) : todo'[p][k] = todo[p][k]
  BY <1>1, <1>2, AppendEffect
<1>4. todo'[p] # <<>>
  BY <1>3
<1>5. /\ DOMAIN todo[p] = 1 .. Len(todo[p]) /\ DOMAIN todo'[p] = 1 .. last
      /\ 1 .. last = 1 .. Len(todo[p]) \union {last}
      /\ last \notin 1 .. Len(todo[p])
  BY <1>1, <1>3
<1>. QED
  BY <1>2, <1>3, <1>4, <1>5 DEF Waits

LEMMA TakenEffect ==
  ASSUME React!ReactorTypeOK, NEW p \in React!Loops, todo[p] # <<>>,
         todo' = [todo EXCEPT ![p] = Tail(@)]
  PROVE  /\ 1 \in Waits(p) /\ Head(todo[p]) = todo[p][1]
         /\ \A l \in React!Loops :
              /\ l # p => todo'[l] = todo[l] /\ DOMAIN todo'[l] = Waits(l)
              /\ \A k \in DOMAIN todo'[l] : \E j \in Waits(l) :
                   /\ todo'[l][k] = todo[l][j]
                   /\ IF l = p THEN j = k + 1 /\ j # 1 ELSE j = k
<1>1. todo \in [React!Loops -> Seq(Node)]
  BY NodesWait
<1>2. /\ todo'[p] = Tail(todo[p])
      /\ \A l \in React!Loops : l # p => todo'[l] = todo[l]
  BY <1>1
<1>3. /\ Len(todo[p]) \in Nat \ {0} /\ Len(todo'[p]) = Len(todo[p]) - 1
      /\ Head(todo[p]) = todo[p][1]
      /\ \A k \in 1 .. Len(todo[p]) - 1 : todo'[p][k] = todo[p][k + 1]
  BY <1>1, <1>2, TailEffect
<1>4. ASSUME NEW k \in 1 .. Len(todo'[p])
      PROVE  k + 1 \in 1 .. Len(todo[p]) /\ k + 1 # 1 /\ todo'[p][k] = todo[p][k + 1]
  BY <1>3
<1>5. /\ 1 \in 1 .. Len(todo[p])
      /\ DOMAIN todo[p] = 1 .. Len(todo[p]) /\ DOMAIN todo'[p] = 1 .. Len(todo'[p])
  BY <1>1, <1>2, <1>3, TailEffect
<1>. QED
  BY <1>2, <1>3, <1>4, <1>5 DEF Waits

\* What is left of the invariant when the types are known.
KeptInv == AcceptingInv /\ AddsInv /\ DeletesInv /\ BatchInv /\ React!KeptApart

\* A descriptor that accept() takes is in no loop and in no operation.
LEMMA AcceptKeeps ==
  ASSUME ReactInv, React!Accept, React!ReactorTypeOK'
  PROVE  KeptInv'
<1>. USE NumbersAssumption, NobodyAssumption DEF Adds, Deletes, ChanIn, Waits
<1>. DEFINE f == React!Least(React!FreeFds)
<1>0. React!ReactorTypeOK /\ AddsFresh /\ AddsApart /\ DeletesInv /\ BatchInv /\ React!KeptApart
  BY DEF ReactInv, AddsInv
<1>1. f \in React!FreeFds
  <2>1. React!FreeFds \in SUBSET Nat /\ React!FreeFds # {}
    BY DEF React!Accept, React!FreeFds, React!Fds
  <2>. QED
    BY <2>1, LeastNumber DEF React!Least
<1>2. /\ accepting = <<>> /\ accepting' = <<<<admitted', f>>>>
      /\ openAs' = [openAs EXCEPT ![f] = admitted']
      /\ UNCHANGED <<todo, map, interest, loopAt, batch>>
  BY DEF React!Accept, React!tableVars, React!loopVars
<1>3. openAs[f] = NoClient /\ f \in React!Fds
  BY <1>1 DEF React!FreeFds
<1>. HIDE DEF f
<1>4. \A g \in React!Fds : openAs'[g] = IF g = f THEN admitted' ELSE openAs[g]
  BY <1>0, <1>2 DEF React!ReactorTypeOK
<1>5. Unserved(f)
  BY <1>0, <1>3 DEF React!KeptApart, Unserved
<1>6. ASSUME NEW l \in React!Loops, NEW k \in Waits(l), todo[l][k].type = "ADD"
      PROVE  todo[l][k].chan[2] # f /\ todo[l][k].chan[2] \in React!Fds
  <2>1. todo[l][k].chan[2] \in React!Fds /\ todo[l][k].chan[1] \in React!Clients
    BY <1>0, NodesWait, NodeFd
  <2>2. openAs[todo[l][k].chan[2]] = todo[l][k].chan[1]
    BY <1>0, <1>6 DEF AddsFresh, Fresh
  <2>. QED
    BY <1>3, <2>1, <2>2 DEF React!Clients
<1>7. AcceptingInv'
  BY <1>2, <1>3, <1>4, <1>5 DEF AcceptingInv, Unserved, Fresh
<1>8. AddsFresh'
  <2>1. accepting' # <<>> /\ Head(accepting')[2] = f
    BY <1>2
  <2>. QED
    BY <1>0, <1>2, <1>4, <1>6, <2>1 DEF AddsFresh, Fresh, Unserved, Waits
<1>9. AddsApart' /\ DeletesInv' /\ BatchInv'
  BY <1>0, <1>2 DEF AddsApart, DeletesInv, BatchInv, Waits
<1>10. React!KeptApart'
  BY <1>0, <1>2, <1>4, <1>5 DEF React!KeptApart, Unserved, React!ReactorTypeOK
<1>. QED
  BY <1>7, <1>8, <1>9, <1>10 DEF KeptInv, AddsInv

\* The connection passes from the main thread to one operation.
LEMMA PostKeeps ==
  ASSUME ReactInv, React!PostConnection, React!ReactorTypeOK'
  PROVE  KeptInv'
<1>. USE DEF Adds, Deletes, ChanIn, Waits
<1>. DEFINE node == [type |-> "ADD", chan |-> Head(accepting)]
            p == position
<1>0. /\ React!ReactorTypeOK /\ AcceptingInv /\ AddsFresh /\ AddsApart /\ DeletesInv /\ BatchInv
      /\ React!KeptApart
  BY DEF ReactInv, AddsInv
<1>1. /\ accepting # <<>> /\ accepting' = <<>> /\ loopAt[p] # "drain"
      /\ todo' = [todo EXCEPT ![p] = Append(@, node)]
      /\ UNCHANGED <<openAs, map, interest, loopAt, batch>>
  BY DEF React!PostConnection, React!Posted, React!tableVars, React!loopVars
<1>2. p \in React!Loops /\ Head(accepting) \in React!Channels
  BY <1>0, <1>1 DEF React!ReactorTypeOK
<1>3. node \in Node /\ node.type = "ADD" /\ node.chan = Head(accepting)
  BY <1>2 DEF Node
<1>. HIDE DEF node, p
<1>. DEFINE last == Len(todo[p]) + 1
<1>4. /\ last \notin Waits(p) /\ todo'[p][last] = node
      /\ DOMAIN todo'[p] = Waits(p) \union {last} /\ todo'[p] # <<>>
      /\ \A k \in Waits(p) : todo'[p][k] = todo[p][k]
      /\ \A l \in React!Loops : l # p => todo'[l] = todo[l]
  BY <1>0, <1>1, <1>2, <1>3, PostedEffect
<1>. HIDE DEF last
<1>5. \A l \in React!Loops :
        /\ \A k \in DOMAIN todo'[l] :
             \/ l = p /\ k = last /\ todo'[l][k] = node
             \/ k \in Waits(l) /\ todo'[l][k] = todo[l][k]
        /\ todo[l] # <<>> => todo'[l] # <<>>
  BY <1>4
<1>6. AcceptingInv'
  BY <1>1 DEF AcceptingInv
<1>7. AddsFresh'
  BY <1>0, <1>1, <1>3, <1>4, <1>5 DEF AddsFresh, AcceptingInv, Fresh, Unserved
<1>8. AddsApart'
  <2>1. ASSUME NEW l \in React!Loops, NEW k \in Waits(l), todo[l][k].type = "ADD"
        PROVE  todo[l][k].chan[2] # node.chan[2]
    BY <1>0, <1>1, <1>3, <2>1 DEF AddsFresh
  <2>2. ASSUME NEW l \in React!Loops, NEW m \in React!Loops,
               NEW k \in DOMAIN todo'[l], NEW j \in DOMAIN todo'[m],
               todo'[l][k].type = "ADD", todo'[m][j].type = "ADD",
               todo'[l][k].chan[2] = todo'[m][j].chan[2]
        PROVE  l = m /\ k = j
    BY <1>0, <1>4, <1>5, <2>1, <2>2 DEF AddsApart
  <2>. QED
    BY <2>2 DEF AddsApart
<1>9. DeletesInv'
  BY <1>0, <1>1, <1>3, <1>4, <1>5 DEF DeletesInv
<1>10. BatchInv' /\ React!KeptApart'
  BY <1>0, <1>1 DEF BatchInv, React!KeptApart
<1>. QED
  BY <1>6, <1>7, <1>8, <1>9, <1>10 DEF KeptInv, AddsInv

\* epoll_wait is called when no DELETE waits, and reports a descriptor once.
LEMMA WaitKeeps ==
  ASSUME ReactInv, NEW p \in React!Loops, React!Wait(p)
  PROVE  KeptInv'
<1>. USE DEF Adds, Deletes, ChanIn, Waits
<1>. DEFINE B == {<<f, IF gone[openAs[f]] = "rst" THEN "err" ELSE "in">> :
                    f \in {g \in React!Fds : React!Ready(p, g)}}
<1>0. /\ React!ReactorTypeOK /\ AcceptingInv /\ AddsFresh /\ AddsApart /\ DeletesInv /\ BatchInv
      /\ React!KeptApart
  BY DEF ReactInv, AddsInv
<1>1. /\ loopAt[p] = "wait" /\ loopAt' = [loopAt EXCEPT ![p] = "walk"]
      /\ batch' = [batch EXCEPT ![p] = B]
      /\ UNCHANGED <<accepting, openAs, todo, map, interest>>
  BY DEF React!Wait, React!mainVars, React!tableVars
<1>2. /\ \A e \in B : e[1] \in interest[p]
      /\ \A d, e \in B : d[1] = e[1] => d = e
  BY DEF React!Ready
<1>. HIDE DEF B
<1>3. \A l \in React!Loops :
        /\ batch'[l] = IF l = p THEN B ELSE batch[l]
        /\ loopAt'[l] = IF l = p THEN "walk" ELSE loopAt[l]
  BY <1>0, <1>1 DEF React!ReactorTypeOK
<1>4. AcceptingInv' /\ AddsFresh' /\ AddsApart'
  BY <1>0, <1>1 DEF AcceptingInv, AddsFresh, AddsApart, Fresh, Unserved
<1>5. DeletesInv'
  BY <1>0, <1>1, <1>3 DEF DeletesInv
<1>6. BatchInv' /\ React!KeptApart'
  BY <1>0, <1>1, <1>2, <1>3 DEF BatchInv, React!KeptApart
<1>. QED
  BY <1>4, <1>5, <1>6 DEF KeptInv, AddsInv

\* The descriptor that the error branch closes is in no operation that adds, in
\* no other loop and in no other event.
LEMMA ErrorKeeps ==
  ASSUME ReactInv, NEW p \in React!Loops, NEW e \in batch[p], React!Error(p, e)
  PROVE  KeptInv'
<1>. USE DEF Adds, Deletes, ChanIn, Waits
<1>. DEFINE f == e[1]
<1>0. /\ React!ReactorTypeOK /\ AcceptingInv /\ AddsFresh /\ AddsApart /\ DeletesInv /\ BatchInv
      /\ React!KeptApart
  BY DEF ReactInv, AddsInv
<1>1. /\ openAs' = [openAs EXCEPT ![f] = NoClient]
      /\ interest' = [k \in React!Loops |-> interest[k] \ {f}]
      /\ batch' = [batch EXCEPT ![p] = batch[p] \ {e}]
      /\ UNCHANGED <<accepting, todo, map, loopAt>>
  BY DEF React!Error, React!Handled, React!mainVars
<1>2. f \in interest[p]
  BY <1>0 DEF React!KeptApart
<1>3. \A d \in batch[p] \ {e} : d[1] # f
  BY <1>0 DEF BatchInv
<1>. HIDE DEF f
<1>4. /\ \A l \in React!Loops : /\ batch'[l] = IF l = p THEN batch[p] \ {e} ELSE batch[l]
                                /\ interest'[l] = interest[l] \ {f}
      /\ \A g \in React!Fds : openAs'[g] = IF g = f THEN NoClient ELSE openAs[g]
  BY <1>0, <1>1 DEF React!ReactorTypeOK
<1>5. /\ \A g : Unserved(g) => g # f
      /\ \A g : Unserved(g) => \A l \in React!Loops : g \notin interest'[l]
  BY <1>2, <1>4 DEF Unserved
<1>6. \A ch \in React!Channels : Fresh(ch) => Fresh(ch)'
  BY <1>4, <1>5 DEF Fresh, Unserved, React!Channels
<1>7. AcceptingInv'
  <2>1. accepting # <<>> => Head(accepting) \in React!Channels
    BY <1>0 DEF React!ReactorTypeOK
  <2>2. ASSUME accepting # <<>>
        PROVE  openAs'[Head(accepting)[2]] = Head(accepting)[1]
               /\ \A l \in React!Loops : Head(accepting)[2] \notin interest'[l]
    BY <1>0, <1>6, <2>1, <2>2 DEF AcceptingInv, Fresh, Unserved
  <2>. QED
    BY <1>0, <1>1, <2>2 DEF AcceptingInv, Fresh, Unserved
<1>8. AddsFresh'
  <2>1. ASSUME NEW l \in React!Loops, NEW k \in DOMAIN todo[l], todo[l][k].type = "ADD"
        PROVE  /\ openAs'[todo[l][k].chan[2]] = todo[l][k].chan[1]
               /\ \A m \in React!Loops : todo[l][k].chan[2] \notin interest'[m]
    <3>1. todo[l][k].chan \in React!Channels
      BY <1>0, NodesWait, NodeFd
    <3>2. Fresh(todo[l][k].chan)
      BY <1>0, <2>1 DEF AddsFresh
    <3>. QED
      BY <1>6, <3>1, <3>2 DEF Fresh, Unserved
  <2>. QED
    BY <1>0, <1>1, <2>1 DEF AddsFresh, Fresh, Unserved
<1>9. AddsApart' /\ DeletesInv' /\ BatchInv'
  BY <1>0, <1>1, <1>4 DEF AddsApart, DeletesInv, BatchInv
<1>10. React!KeptApart'
  BY <1>0, <1>1, <1>2, <1>3, <1>4 DEF React!KeptApart, React!ReactorTypeOK
<1>. QED
  BY <1>7, <1>8, <1>9, <1>10 DEF KeptInv, AddsInv

\* A DELETE that handle_read posts is of a descriptor whose only event is done.
LEMMA ReadKeeps ==
  ASSUME ReactInv, NEW p \in React!Loops, NEW e \in batch[p], React!Readable(p, e)
  PROVE  KeptInv'
<1>. USE DEF Adds, Deletes, ChanIn, Waits
<1>. DEFINE node == [type |-> "DELETE", chan |-> map[p][e[1]]]
            last == Len(todo[p]) + 1
<1>0. /\ React!ReactorTypeOK /\ AcceptingInv /\ AddsFresh /\ AddsApart /\ DeletesInv /\ BatchInv
      /\ React!KeptApart
  BY DEF ReactInv, AddsInv
<1>1. /\ loopAt[p] = "walk" /\ batch' = [batch EXCEPT ![p] = batch[p] \ {e}]
      /\ UNCHANGED <<accepting, openAs, map, interest>>
      /\ \/ UNCHANGED <<todo, loopAt>>
         \/ /\ todo' = [todo EXCEPT ![p] = Append(@, node)]
            /\ loopAt' = [loopAt EXCEPT ![p] = "drain"]
  BY DEF React!Readable, React!Handled, React!Posted, React!mainVars, React!tableVars
<1>2. \A d \in batch[p] \ {e} : d[1] # e[1]
  BY <1>0 DEF BatchInv
<1>3. node \in Node /\ node.type = "DELETE" /\ node.chan[2] = e[1]
  <2>1. e[1] \in interest[p]
    BY <1>0 DEF React!KeptApart
  <2>2. /\ e[1] \in React!Fds /\ openAs[e[1]] \in React!Clients
        /\ map[p][e[1]] = <<openAs[e[1]], e[1]>>
    BY <1>0, <2>1 DEF React!KeptApart, React!ReactorTypeOK
  <2>. QED
    BY <2>2 DEF Node, React!Channels
<1>. HIDE DEF node
<1>4. \A l \in React!Loops : batch'[l] = IF l = p THEN batch[p] \ {e} ELSE batch[l]
  BY <1>0, <1>1 DEF React!ReactorTypeOK
<1>5. AcceptingInv' /\ BatchInv' /\ React!KeptApart'
  BY <1>0, <1>1, <1>4 DEF AcceptingInv, Fresh, Unserved, BatchInv, React!KeptApart
<1>6. CASE UNCHANGED <<todo, loopAt>>
  <2>1. AddsFresh' /\ AddsApart' /\ DeletesInv'
    BY <1>0, <1>1, <1>4, <1>6 DEF AddsFresh, AddsApart, DeletesInv, Fresh, Unserved
  <2>. QED
    BY <1>5, <2>1 DEF KeptInv, AddsInv
<1>7. CASE /\ todo' = [todo EXCEPT ![p] = Append(@, node)]
           /\ loopAt' = [loopAt EXCEPT ![p] = "drain"]
  <2>1. /\ last \notin Waits(p) /\ todo'[p][last] = node
        /\ DOMAIN todo'[p] = Waits(p) \union {last} /\ todo'[p] # <<>>
        /\ \A k \in Waits(p) : todo'[p][k] = todo[p][k]
        /\ \A l \in React!Loops : l # p => todo'[l] = todo[l]
    BY <1>0, <1>3, <1>7, PostedEffect
  <2>. HIDE DEF last
  <2>2. \A l \in React!Loops :
          /\ \A k \in DOMAIN todo'[l] :
               \/ l = p /\ k = last /\ todo'[l][k] = node
               \/ k \in DOMAIN todo[l] /\ todo'[l][k] = todo[l][k]
          /\ todo[l] # <<>> => todo'[l] # <<>>
    BY <2>1
  <2>3. \A l \in React!Loops : loopAt'[l] = IF l = p THEN "drain" ELSE loopAt[l]
    BY <1>0, <1>7 DEF React!ReactorTypeOK
  <2>4. AddsFresh'
    BY <1>0, <1>1, <1>3, <2>2 DEF AddsFresh, Fresh, Unserved
  <2>5. AddsApart'
    BY <1>0, <1>3, <2>2 DEF AddsApart
  <2>6. DeletesInv'
    <3>1. ASSUME NEW l \in React!Loops, loopAt'[l] = "drain"
          PROVE  todo'[l] # <<>>
      BY <1>0, <2>1, <2>2, <2>3, <3>1 DEF DeletesInv
    <3>2. ASSUME NEW l \in React!Loops, NEW k \in DOMAIN todo'[l], todo'[l][k].type = "DELETE"
          PROVE  loopAt'[l] = "drain" /\ \A d \in batch'[l] : d[1] # todo'[l][k].chan[2]
      <4>1. CASE l = p /\ k = last /\ todo'[l][k] = node
        BY <1>2, <1>3, <1>4, <2>3, <4>1
      <4>2. CASE k \in DOMAIN todo[l] /\ todo'[l][k] = todo[l][k]
        BY <1>0, <1>4, <2>3, <3>2, <4>2 DEF DeletesInv
      <4>. QED
        BY <2>2, <4>1, <4>2
    <3>. QED
      BY <3>1, <3>2 DEF DeletesInv
  <2>. QED
    BY <1>5, <2>4, <2>5, <2>6 DEF KeptInv, AddsInv
<1>. QED
  BY <1>1, <1>6, <1>7

\* An ADD registers a connection that is open and that nobody has; what a DELETE
\* takes away no event is waiting for.
LEMMA ApplyKeeps ==
  ASSUME ReactInv, NEW p \in React!Loops, React!Apply(p)
  PROVE  KeptInv'
<1>. USE DEF Adds, Deletes, ChanIn, Waits
<1>. DEFINE o == Head(todo[p])
            f == o.chan[2]
<1>0. /\ React!ReactorTypeOK /\ AcceptingInv /\ AddsFresh /\ AddsApart /\ DeletesInv /\ BatchInv
      /\ React!KeptApart
  BY DEF ReactInv, AddsInv
<1>1. /\ o \in Node /\ todo[p] # <<>>
      /\ \/ /\ o.type = "ADD" /\ map[p][f] = NoClient
            /\ map' = [map EXCEPT ![p] = [@ EXCEPT ![f] = o.chan]]
            /\ interest' = [interest EXCEPT ![p] = @ \union {f}]
         \/ o.type = "ADD" /\ map' = map /\ interest' = interest
         \/ /\ o.type = "DELETE"
            /\ map' = [map EXCEPT ![p] = [@ EXCEPT ![f] = NoClient]]
            /\ interest' = [interest EXCEPT ![p] = @ \ {f}]
  BY ApplyEffect
<1>2. f \in React!Fds /\ o.chan \in React!Channels /\ o.chan = <<o.chan[1], f>>
      /\ o.chan[1] \in React!Clients
  BY <1>1, NodeFd
<1>3. /\ loopAt[p] = "drain" /\ todo' = [todo EXCEPT ![p] = Tail(@)]
      /\ loopAt' = [loopAt EXCEPT ![p] = IF todo'[p] # <<>> THEN "drain"
                                         ELSE IF batch[p] # {} THEN "walk" ELSE "wait"]
      /\ UNCHANGED <<accepting, openAs, batch>>
  BY DEF React!Apply, React!mainVars
<1>4. /\ 1 \in Waits(p) /\ o = todo[p][1]
      /\ \A l \in React!Loops :
           /\ l # p => todo'[l] = todo[l] /\ DOMAIN todo'[l] = Waits(l)
           /\ \A k \in DOMAIN todo'[l] : \E j \in Waits(l) :
                /\ todo'[l][k] = todo[l][j]
                /\ IF l = p THEN j = k + 1 /\ j # 1 ELSE j = k
  BY <1>0, <1>1, <1>3, TakenEffect
<1>. HIDE DEF o
<1>5. todo'[p] \in Seq(Node) /\ (todo'[p] = <<>> => DOMAIN todo'[p] = {})
  BY <1>0, <1>1, <1>3, NodesWait, TailEffect
<1>6. \A l \in React!Loops :
        loopAt'[l] = IF l = p THEN IF todo'[p] # <<>> THEN "drain"
                                   ELSE IF batch[p] # {} THEN "walk" ELSE "wait"
                     ELSE loopAt[l]
  BY <1>0, <1>3 DEF React!ReactorTypeOK
\* What waits after the step waited before, and is not the one that was taken.
<1>7. ASSUME NEW l \in React!Loops, NEW k \in DOMAIN todo'[l]
      PROVE  \E j \in DOMAIN todo[l] :
               /\ todo'[l][k] = todo[l][j] /\ ~(l = p /\ j = 1)
               /\ IF l = p THEN j = k + 1 ELSE j = k
  BY <1>4
<1>8. ASSUME NEW g, NEW l \in React!Loops, g \in interest'[l],
             ~(g = f /\ o.type = "ADD")
      PROVE  g \in interest[l]
  <2>1. interest \in [React!Loops -> SUBSET React!Fds]
    BY <1>0 DEF React!ReactorTypeOK
  <2>. HIDE DEF f
  <2>. QED
    BY <1>1, <1>8, <2>1
<1>9. ASSUME NEW l \in React!Loops, NEW j \in DOMAIN todo[l], todo[l][j].type = "ADD",
             ~(l = p /\ j = 1)
      PROVE  /\ \A m \in React!Loops : todo[l][j].chan[2] \notin interest'[m]
             /\ openAs[todo[l][j].chan[2]] = todo[l][j].chan[1]
             /\ accepting # <<>> => Head(accepting)[2] # todo[l][j].chan[2]
  <2>1. ~(todo[l][j].chan[2] = f /\ o.type = "ADD")
    BY <1>0, <1>4, <1>9 DEF AddsApart
  <2>2. Unserved(todo[l][j].chan[2])
    BY <1>0, <1>9 DEF AddsFresh, Fresh
  <2>3. \A m \in React!Loops : todo[l][j].chan[2] \notin interest'[m]
    BY <1>8, <2>1, <2>2 DEF Unserved
  <2>. QED
    BY <1>0, <1>9, <2>3 DEF AddsFresh, Fresh
<1>10. AcceptingInv'
  <2>1. accepting # <<>> =>
          ~(Head(accepting)[2] = f /\ o.type = "ADD") /\ Unserved(Head(accepting)[2])
    BY <1>0, <1>4 DEF AddsFresh, AcceptingInv, Fresh
  <2>2. accepting # <<>> => \A m \in React!Loops : Head(accepting)[2] \notin interest'[m]
    BY <1>8, <2>1 DEF Unserved
  <2>. QED
    BY <1>0, <1>3, <2>2 DEF AcceptingInv, Fresh, Unserved
<1>11. AddsFresh'
  <2>1. ASSUME NEW l \in React!Loops, NEW k \in DOMAIN todo'[l], todo'[l][k].type = "ADD"
        PROVE  /\ \A m \in React!Loops : todo'[l][k].chan[2] \notin interest'[m]
               /\ openAs[todo'[l][k].chan[2]] = todo'[l][k].chan[1]
               /\ accepting # <<>> => Head(accepting)[2] # todo'[l][k].chan[2]
    BY <1>7, <1>9, <2>1
  <2>. QED
    BY <1>3, <2>1 DEF AddsFresh, Fresh, Unserved
<1>12. AddsApart'
  <2>1. ASSUME NEW l \in React!Loops, NEW m \in React!Loops,
               NEW k \in DOMAIN todo'[l], NEW j \in DOMAIN todo'[m],
               todo'[l][k].type = "ADD", todo'[m][j].type = "ADD",
               todo'[l][k].chan[2] = todo'[m][j].chan[2]
        PROVE  l = m /\ k = j
    <3>1. PICK g \in DOMAIN todo[l] :
            todo'[l][k] = todo[l][g] /\ IF l = p THEN g = k + 1 ELSE g = k
      BY <1>7
    <3>2. PICK h \in DOMAIN todo[m] :
            todo'[m][j] = todo[m][h] /\ IF m = p THEN h = j + 1 ELSE h = j
      BY <1>7
    <3>3. l = m /\ g = h
      BY <1>0, <2>1, <3>1, <3>2 DEF AddsApart
    <3>4. l = p => k \in Int /\ j \in Int
      BY <1>5, <3>3
    <3>. QED
      BY <3>1, <3>2, <3>3, <3>4
  <2>. QED
    BY <2>1 DEF AddsApart
<1>13. DeletesInv'
  <2>1. ASSUME NEW l \in React!Loops, loopAt'[l] = "drain"
        PROVE  todo'[l] # <<>>
    BY <1>0, <1>4, <1>6, <2>1 DEF DeletesInv
  <2>2. ASSUME NEW l \in React!Loops, NEW k \in DOMAIN todo'[l], todo'[l][k].type = "DELETE"
        PROVE  loopAt'[l] = "drain" /\ \A d \in batch[l] : d[1] # todo'[l][k].chan[2]
    <3>1. PICK j \in DOMAIN todo[l] : todo'[l][k] = todo[l][j]
      BY <1>7
    <3>2. loopAt[l] = "drain" /\ \A d \in batch[l] : d[1] # todo[l][j].chan[2]
      BY <1>0, <2>2, <3>1 DEF DeletesInv
    <3>3. l = p => todo'[p] # <<>>
      BY <1>5
    <3>. QED
      BY <1>6, <3>1, <3>2, <3>3
  <2>. QED
    BY <1>3, <2>1, <2>2 DEF DeletesInv
<1>14. BatchInv'
  BY <1>0, <1>3 DEF BatchInv
<1>15. React!KeptApart'
  <2>. DEFINE Own(l, g) == openAs[g] # NoClient /\ map[l][g] = <<openAs[g], g>>
  <2>0. /\ \A l \in React!Loops : \A g \in interest[l] : Own(l, g)
        /\ \A l, k \in React!Loops : \A g \in interest[l] : k # l => g \notin interest[k]
        /\ \A l \in React!Loops : \A d \in batch[l] : d[1] \in interest[l]
        /\ \A l \in React!Loops : interest[l] \subseteq React!Fds
    BY <1>0 DEF React!KeptApart, React!ReactorTypeOK
  <2>1. CASE /\ o.type = "ADD"
             /\ map' = [map EXCEPT ![p] = [@ EXCEPT ![f] = o.chan]]
             /\ interest' = [interest EXCEPT ![p] = @ \union {f}]
    <3>1. Fresh(o.chan)
      BY <1>0, <1>4, <2>1 DEF AddsFresh
    <3>2. openAs[f] = o.chan[1] /\ o.chan = <<openAs[f], f>> /\ openAs[f] # NoClient
      BY <1>2, <3>1, NobodyAssumption DEF Fresh, React!Clients
    <3>3. \A l \in React!Loops : f \notin interest[l]
      BY <3>1 DEF Fresh, Unserved
    <3>4. \A l \in React!Loops :
            /\ interest'[l] = IF l = p THEN interest[l] \union {f} ELSE interest[l]
            /\ \A g \in React!Fds : map'[l][g] = IF l = p /\ g = f THEN o.chan ELSE map[l][g]
      BY <1>0, <1>2, <2>1 DEF React!ReactorTypeOK
    <3>. HIDE DEF f
    <3>5. ASSUME NEW l \in React!Loops, NEW g \in interest'[l]
          PROVE  openAs[g] # NoClient /\ map'[l][g] = <<openAs[g], g>>
      <4>1. CASE l = p /\ g = f
        BY <1>2, <3>2, <3>4, <4>1
      <4>2. CASE ~(l = p /\ g = f)
        <5>1. g \in interest[l]
          BY <3>4, <3>5, <4>2
        <5>2. g \in React!Fds /\ Own(l, g)
          BY <2>0, <5>1
        <5>. HIDE DEF Own
        <5>3. map'[l][g] = map[l][g]
          BY <3>4, <4>2, <5>2
        <5>. QED
          BY <5>2, <5>3 DEF Own
      <4>. QED
        BY <4>1, <4>2
    <3>6. ASSUME NEW l \in React!Loops, NEW k \in React!Loops, k # l, NEW g \in interest'[l]
          PROVE  g \notin interest'[k]
      <4>1. g = f => l = p
        BY <3>3, <3>4, <3>6
      <4>2. g # f => g \in interest[l]
        BY <3>4, <3>6
      <4>3. g \in interest[l] => g \notin interest[k]
        BY <2>0, <3>6
      <4>. QED
        BY <3>3, <3>4, <3>6, <4>1, <4>2, <4>3
    <3>7. ASSUME NEW l \in React!Loops, NEW d \in batch[l]
          PROVE  d[1] \in interest'[l]
      BY <2>0, <3>4
    <3>. QED
      BY <1>3, <3>5, <3>6, <3>7 DEF React!KeptApart
  <2>2. CASE map' = map /\ interest' = interest
    BY <1>0, <1>3, <2>2 DEF React!KeptApart
  <2>3. CASE /\ o.type = "DELETE"
             /\ map' = [map EXCEPT ![p] = [@ EXCEPT ![f] = NoClient]]
             /\ interest' = [interest EXCEPT ![p] = @ \ {f}]
    <3>1. \A d \in batch[p] : d[1] # f
      BY <1>0, <1>4, <2>3 DEF DeletesInv
    <3>2. \A l \in React!Loops :
            /\ interest'[l] = IF l = p THEN interest[l] \ {f} ELSE interest[l]
            /\ \A g \in React!Fds : g # f => map'[l][g] = map[l][g]
            /\ l # p => map'[l] = map[l]
            /\ interest[l] \subseteq React!Fds
      BY <1>0, <1>2, <2>3 DEF React!ReactorTypeOK
    <3>. HIDE DEF f
    <3>3. ASSUME NEW l \in React!Loops, NEW g \in interest'[l]
          PROVE  /\ g \in interest[l] /\ Own(l, g) /\ map'[l][g] = map[l][g]
                 /\ \A k \in React!Loops \ {l} : g \notin interest'[k]
      <4>1. g \in interest[l] /\ (l = p => g # f)
        BY <3>2, <3>3
      <4>2. Own(l, g) /\ \A k \in React!Loops \ {l} : g \notin interest[k]
        BY <2>0, <4>1
      <4>. HIDE DEF Own
      <4>3. map'[l][g] = map[l][g]
        BY <2>0, <3>2, <4>1
      <4>. QED
        BY <3>2, <4>1, <4>2, <4>3
    <3>4. ASSUME NEW l \in React!Loops, NEW d \in batch[l]
          PROVE  d[1] \in interest'[l]
      <4>1. d[1] \in interest[l] /\ (l = p => d[1] # f)
        BY <2>0, <3>1
      <4>. QED
        BY <3>2, <4>1
    <3>. QED
      BY <1>3, <3>3, <3>4 DEF React!KeptApart
  <2>. QED
    BY <1>1, <2>1, <2>2, <2>3
<1>. QED
  BY <1>10, <1>11, <1>12, <1>13, <1>14, <1>15 DEF KeptInv, AddsInv

\* The end of a walk and the clients.
LEMMA OthersKeep ==
  ASSUME ReactInv,
         \/ \E p \in React!Loops : React!WalkDone(p)
         \/ React!Connect
         \/ \E c \in React!Clients : React!Send(c) \/ React!Leave(c)
  PROVE  KeptInv'
<1>. USE DEF Adds, Deletes, ChanIn, Waits
<1>0. /\ React!ReactorTypeOK /\ AcceptingInv /\ AddsFresh /\ AddsApart /\ DeletesInv /\ BatchInv
      /\ React!KeptApart
  BY DEF ReactInv, AddsInv
<1>1. UNCHANGED <<accepting, openAs, todo, map, interest, batch>>
  BY DEF React!WalkDone, React!Connect, React!Send, React!Leave, React!mainVars,
         React!tableVars, React!loopVars
<1>2. \A l \in React!Loops :
        /\ loopAt[l] = "drain" => loopAt'[l] = "drain"
        /\ loopAt'[l] = "drain" => loopAt[l] = "drain" \/ todo[l] # <<>>
  BY <1>0 DEF React!WalkDone, React!Connect, React!Send, React!Leave, React!loopVars,
              React!ReactorTypeOK
<1>3. AcceptingInv' /\ AddsFresh' /\ AddsApart' /\ BatchInv' /\ React!KeptApart'
  BY <1>0, <1>1 DEF AcceptingInv, AddsFresh, AddsApart, Fresh, Unserved, BatchInv,
                    React!KeptApart
<1>4. DeletesInv'
  BY <1>0, <1>1, <1>2 DEF DeletesInv
<1>. QED
  BY <1>3, <1>4 DEF KeptInv, AddsInv

LEMMA ReactStep ==
  ASSUME ReactInv, React!Next
  PROVE  ReactInv'
<1>1. React!ReactorTypeOK'
  BY ReactTypes
<1>2. KeptInv'
  BY <1>1, AcceptKeeps, PostKeeps, WaitKeeps, ErrorKeeps, ReadKeeps, ApplyKeeps, OthersKeep
     DEF React!Next, React!MainLoop, React!Loop
<1>. QED
  BY <1>1, <1>2 DEF ReactInv, KeptInv

LEMMA ReactAlways == Spec => []ReactInv
<1>1. Init => ReactInv
  <2>1. Init => React!Init
    BY DEF Init
  <2>2. React!Init => React!ReactorTypeOK
    BY NumbersAssumption DEF React!Init, React!Listening, React!ReactorTypeOK, React!Loops
  <2>3. React!Init => AcceptingInv /\ AddsInv /\ DeletesInv /\ BatchInv /\ React!KeptApart
    BY DEF React!Init, React!Listening, AcceptingInv, AddsInv, AddsFresh, AddsApart,
           DeletesInv, BatchInv, React!KeptApart, Waits
  <2>. QED
    BY <2>1, <2>2, <2>3 DEF ReactInv
<1>2. ReactInv /\ UNCHANGED reactorVars => ReactInv'
  <2>1. UNCHANGED reactorVars =>
          UNCHANGED <<coming, gone, admitted, accepting, position, undelivered, openAs, todo,
                      map, interest, loopAt, batch>>
    BY DEF reactorVars
  <2>2. /\ React!ReactorTypeOK /\ UNCHANGED reactorVars => React!ReactorTypeOK'
    BY <2>1 DEF React!ReactorTypeOK
  <2>3. KeptInv /\ UNCHANGED reactorVars => KeptInv'
    BY <2>1 DEF KeptInv, AcceptingInv, AddsInv, AddsFresh, AddsApart, DeletesInv, BatchInv,
                React!KeptApart, Fresh, Unserved, Adds, Deletes, ChanIn, Waits
  <2>. QED
    BY <2>2, <2>3 DEF ReactInv, KeptInv
<1>3. ReactInv /\ [Next]_vars => ReactInv'
  BY <1>2, ReactMoves, ReactStep
<1>. QED
  BY <1>1, <1>3, PTL DEF Spec

\* Whatever the loops are at when descriptors are closed and taken again, no
\* loop reads or closes the connection that another one serves.
THEOREM LoopsKeptApart == Spec => []KeptApart
<1>1. ReactInv => KeptApart
  BY DEF ReactInv, KeptApart
<1>. QED
  BY <1>1, ReactAlways, PTL

-----------------------------------------------------------------------------
(* TtyEcho                                                                 *)

LEMMA TtyMoves == [Next]_vars => Tty!Next \/ UNCHANGED ttyVars
BY DEF Next, Only, vars

\* What is typed is typed before the read that follows, whichever it is, and no
\* read finds nothing after that.
TypedInv  == reads \in Nat /\ typedAt \in Nat \union {-1}
SilentInv == echoAt # "over" => told = ""
TypedLast == told = "" /\ typedAt # -1 => reads = typedAt
EchoedInv == told \in {"echo", "part"} => typedAt # -1 /\ reads = typedAt + 1
GaveUpInv == told = "timeout" => reads = MaxTries /\ typedAt \in {-1, MaxTries}

EchoInv == TypedInv /\ SilentInv /\ TypedLast /\ EchoedInv /\ GaveUpInv

\* What is typed is echoed by the next read, and the program gives up only when
\* nothing was typed before its last read.
THEOREM AlwaysEchoedSoon == Spec => []EchoedSoon
<1>1. Init => EchoInv
  <2>1. Init => Tty!Init
    BY DEF Init
  <2>2. Tty!Init => TypedInv
    <3>1. Tty!Init => reads = 0 /\ typedAt = -1
      BY DEF Tty!Init
    <3>. QED
      BY <3>1 DEF TypedInv
  <2>3. Tty!Init => SilentInv /\ TypedLast
    BY DEF Tty!Init, SilentInv, TypedLast
  <2>4. Tty!Init => told = ""
    BY DEF Tty!Init
  <2>5. Tty!Init => EchoedInv /\ GaveUpInv
    BY <2>4 DEF EchoedInv, GaveUpInv
  <2>. QED
    BY <2>1, <2>2, <2>3, <2>5 DEF EchoInv
<1>2. EchoInv /\ [Next]_vars => EchoInv'
  <2>. SUFFICES ASSUME EchoInv, [Next]_vars PROVE EchoInv'
    OBVIOUS
  <2>1. CASE Tty!Type
    <3>1. typedAt = -1 /\ typedAt' = reads /\ UNCHANGED <<echoAt, reads, told>>
      BY <2>1 DEF Tty!Type
    <3>2. told \notin {"echo", "part"}
      BY <3>1 DEF EchoInv, EchoedInv
    <3>3. TypedInv' /\ SilentInv'
      BY <3>1 DEF EchoInv, TypedInv, SilentInv
    <3>4. TypedLast' /\ EchoedInv' /\ GaveUpInv'
      BY <3>1, <3>2 DEF EchoInv, TypedLast, EchoedInv, GaveUpInv
    <3>. QED
      BY <3>3, <3>4 DEF EchoInv
  <2>2. CASE Tty!Echo
    <3>1. /\ echoAt = "read" /\ typedAt # -1 /\ typedAt' = typedAt
          /\ reads' = reads + 1 /\ echoAt' = "over" /\ told' \in {"echo", "part"}
      BY <2>2 DEF Tty!Echo
    <3>2. reads = typedAt
      BY <3>1 DEF EchoInv, SilentInv, TypedLast
    <3>3. TypedInv'
      BY <3>1 DEF EchoInv, TypedInv
    <3>4. SilentInv' /\ TypedLast' /\ GaveUpInv'
      BY <3>1 DEF SilentInv, TypedLast, GaveUpInv
    <3>5. EchoedInv'
      BY <3>1, <3>2 DEF EchoedInv
    <3>. QED
      BY <3>3, <3>4, <3>5 DEF EchoInv
  <2>3. CASE Tty!TryAgain
    <3>1. /\ echoAt = "read" /\ typedAt = -1 /\ typedAt' = typedAt
          /\ reads' = reads + 1 /\ told' = told
      BY <2>3 DEF Tty!TryAgain
    <3>2. told = "" /\ told' = ""
      BY <3>1 DEF EchoInv, SilentInv
    <3>3. TypedInv'
      BY <3>1 DEF EchoInv, TypedInv
    <3>4. SilentInv' /\ TypedLast'
      BY <3>1, <3>2 DEF SilentInv, TypedLast
    <3>5. EchoedInv' /\ GaveUpInv'
      BY <3>2 DEF EchoedInv, GaveUpInv
    <3>. QED
      BY <3>3, <3>4, <3>5 DEF EchoInv
  <2>4. CASE Tty!Sleep
    <3>1. /\ echoAt = "sleep" /\ UNCHANGED <<reads, typedAt>>
          /\ \/ echoAt' = "over" /\ told' = "timeout" /\ reads = MaxTries
             \/ echoAt' = "read" /\ told' = told
      BY <2>4 DEF Tty!Sleep, Tty!OutOfTries
    <3>2. told = ""
      BY <3>1 DEF EchoInv, SilentInv
    <3>3. typedAt # -1 => reads = typedAt
      BY <3>2 DEF EchoInv, TypedLast
    <3>4. TypedInv' /\ SilentInv' /\ TypedLast'
      BY <3>1, <3>2 DEF EchoInv, TypedInv, SilentInv, TypedLast
    <3>5. EchoedInv' /\ GaveUpInv'
      BY <3>1, <3>2, <3>3 DEF EchoedInv, GaveUpInv
    <3>. QED
      BY <3>4, <3>5 DEF EchoInv
  <2>5. CASE UNCHANGED ttyVars
    BY <2>5 DEF ttyVars, EchoInv, TypedInv, SilentInv, TypedLast, EchoedInv, GaveUpInv
  <2>6. CASE Tty!ReadFails
    <3>1. reads' = reads + 1 /\ echoAt' = "over" /\ told' = "error" /\ typedAt' = typedAt
      BY <2>6 DEF Tty!ReadFails
    <3>2. TypedInv'
      BY <3>1 DEF EchoInv, TypedInv
    <3>. QED
      BY <3>1, <3>2 DEF EchoInv, SilentInv, TypedLast, EchoedInv, GaveUpInv
  <2>. QED
    BY <2>1, <2>2, <2>3, <2>4, <2>5, <2>6, TtyMoves DEF Tty!Next
<1>3. EchoInv => EchoedSoon
  BY DEF EchoInv, EchoedInv, GaveUpInv, EchoedSoon, Tty!EchoedSoon
<1>. QED
  BY <1>1, <1>2, <1>3, PTL DEF Spec

-----------------------------------------------------------------------------
(* Datagram                                                                *)

LEMMA UdpMoves == [Next]_vars => Udp!Next \/ UNCHANGED udpVars
BY DEF Next, Only, vars

\* A question or its answer: a datagram, or one in a receive queue.
Question == [from : Hosts, no : 1 .. MaxQuestions, bye : BOOLEAN]

UdpTypes ==
  /\ chapter \in {6, 7, 14} /\ duplicates \in 0 .. MaxDuplicates
  /\ net \subseteq [to : Hosts \union {NoHost}, text : Question]
  /\ inbox \in Seq(Question)
  /\ serverAt \in {"serve", "first", "connect", "send", "recv", "end"}
  /\ received \in Question \union {Udp!Nothing}
  /\ serverAt \in {"connect", "send"} => received \in Question
  /\ peer \in Hosts \union {NoHost}
  /\ clientAt \in [Hosts -> {"ask", "wait", "end"}] /\ asked \in [Hosts -> 0 .. MaxQuestions]
  /\ mailbox \in [Hosts -> Seq(Question)] /\ shown \in [Hosts -> Seq(Question)]
  /\ refused \in [Hosts \union {NoHost} -> BOOLEAN]

\* chapters 6 and 7: no error is reported, and an answer goes to who asked.
SenderInv ==
  chapter # 14 =>
    /\ serverAt \in {"serve", "end"} /\ \A s \in Hosts \union {NoHost} : ~refused[s]
    /\ \A d \in net : d.to \in {NoHost, d.text.from}
    /\ \A c \in Hosts : \A k \in DOMAIN mailbox[c] : mailbox[c][k].from = c
    /\ \A c \in Hosts : \A k \in DOMAIN shown[c] : shown[c][k].from = c

\* While nothing is duplicated, a question that is waited for is in one place
\* at most, or its answer is, and nothing else of that client is anywhere; a client
\* that was stopped waits no more.
Waited(c, q) == q.from = c => clientAt[c] # "ask" /\ q.no = asked[c]

AllWaited(c) ==
  /\ \A d \in net : Waited(c, d.text)
  /\ \A k \in DOMAIN inbox : Waited(c, inbox[k])
  /\ \A k \in DOMAIN mailbox[c] : Waited(c, mailbox[c][k])

OncePlaced(c) ==
  /\ \A d, e \in net : d.text.from = c /\ e.text.from = c => d = e
  /\ \A j, k \in DOMAIN inbox : inbox[j].from = c /\ inbox[k].from = c => j = k
  /\ \A j, k \in DOMAIN mailbox[c] : j = k

OneOnly(c) ==
  /\ \A d \in net, k \in DOMAIN inbox : d.text.from = c => inbox[k].from # c
  /\ \A d \in net, k \in DOMAIN mailbox[c] : d.text.from # c
  /\ \A k \in DOMAIN inbox, j \in DOMAIN mailbox[c] : inbox[k].from # c

Numbered(c) ==
  /\ clientAt[c] = "ask"  => asked[c] = Len(shown[c])
  /\ clientAt[c] = "wait" => asked[c] = Len(shown[c]) + 1
  /\ \A k \in DOMAIN shown[c] : shown[c][k].no = k

NumberInv ==
  chapter # 14 /\ duplicates = 0 =>
    \A c \in Hosts : AllWaited(c) /\ OncePlaced(c) /\ OneOnly(c) /\ Numbered(c)

\* chapter 14: answers are for the client that the socket is connected to.
PeerInv ==
  chapter = 14 =>
    /\ serverAt # "serve" /\ (serverAt \in {"first", "connect"} => peer = NoHost)
    /\ \A d \in net : d.to \in {NoHost, peer}
    /\ \A c \in Hosts : (mailbox[c] # <<>> => c = peer) /\ (shown[c] # <<>> => c = peer)

UdpInv == UdpTypes /\ SenderInv /\ NumberInv /\ PeerInv

LEMMA ConsumedEffect ==
  ASSUME NEW d, Udp!Consumed(d), UdpTypes
  PROVE  /\ net' \subseteq net /\ duplicates' \in 0 .. MaxDuplicates
         /\ duplicates' = 0 => duplicates = 0 /\ net' = net \ {d}
BY BoundsAssumption DEF Udp!Consumed, UdpTypes

\* What each step of a queue, a server or a client does to the types.
LEMMA UdpTypesStep == UdpTypes /\ Udp!Next => UdpTypes'
<1>. SUFFICES ASSUME UdpTypes, Udp!Next PROVE UdpTypes'
  OBVIOUS
<1>. USE DEF Udp!netVars, Udp!udpServer, Udp!udpClient
<1>. DEFINE Sent == [to : Hosts \union {NoHost}, text : Question]
<1>1. CASE Udp!DeliverQuestion
  <2>1. PICK d \in net :
          /\ Udp!Consumed(d)
          /\ \/ refused' = Udp!Reported(d.text.from) /\ UNCHANGED inbox
             \/ inbox' = Append(inbox, d.text) /\ UNCHANGED refused
          /\ UNCHANGED <<chapter, serverAt, received, peer, clientAt, asked, mailbox, shown>>
    BY <1>1 DEF Udp!DeliverQuestion
  <2>2. d.text \in Question
    BY DEF UdpTypes
  <2>3. inbox' \in Seq(Question)
    <3>1. inbox \in Seq(Question) /\ Append(inbox, d.text) \in Seq(Question)
      BY <2>2, AppendEffect DEF UdpTypes
    <3>. QED
      BY <2>1, <3>1
  <2>4. refused' \in [Hosts \union {NoHost} -> BOOLEAN]
    BY <2>1 DEF Udp!Reported, UdpTypes
  <2>5. net' \subseteq net /\ duplicates' \in 0 .. MaxDuplicates
    BY <2>1, ConsumedEffect
  <2>. QED
    BY <2>1, <2>3, <2>4, <2>5 DEF UdpTypes
<1>2. CASE Udp!DeliverAnswer
  <2>1. PICK d \in net :
          /\ d.to # NoHost /\ Udp!Consumed(d)
          /\ \/ refused' = Udp!Reported(NoHost) /\ UNCHANGED mailbox
             \/ mailbox' = [mailbox EXCEPT ![d.to] = Append(@, d.text)] /\ UNCHANGED refused
          /\ UNCHANGED <<chapter, inbox, serverAt, received, peer, clientAt, asked, shown>>
    BY <1>2 DEF Udp!DeliverAnswer
  <2>2. d.text \in Question /\ d.to \in Hosts
    BY <2>1 DEF UdpTypes
  <2>3. mailbox' \in [Hosts -> Seq(Question)]
    <3>1. Append(mailbox[d.to], d.text) \in Seq(Question)
      BY <2>2, AppendEffect DEF UdpTypes
    <3>. QED
      BY <2>1, <3>1 DEF UdpTypes
  <2>4. refused' \in [Hosts \union {NoHost} -> BOOLEAN]
    BY <2>1 DEF Udp!Reported, UdpTypes
  <2>5. net' \subseteq net /\ duplicates' \in 0 .. MaxDuplicates
    BY <2>1, ConsumedEffect
  <2>. QED
    BY <2>1, <2>3, <2>4, <2>5 DEF UdpTypes
<1>3. CASE Udp!Lose
  BY <1>3 DEF Udp!Lose, UdpTypes
<1>4. CASE Udp!AnswerOne
  <2>1. Tail(inbox) \in Seq(Question) /\ Head(inbox) \in Question
    BY <1>4, TailEffect DEF Udp!AnswerOne, UdpTypes
  <2>2. [to |-> Head(inbox).from, text |-> Head(inbox)] \in Sent
    BY <2>1 DEF Question
  <2>. QED
    BY <1>4, <2>1, <2>2 DEF Udp!AnswerOne, Udp!Answer, UdpTypes
<1>5. ASSUME NEW from, NEW to \in {"connect", "send", "end"}, Udp!Receive(from, to)
      PROVE  UdpTypes'
  <2>1. Tail(inbox) \in Seq(Question) /\ Head(inbox) \in Question
    BY <1>5, TailEffect DEF Udp!Receive, UdpTypes
  <2>. QED
    BY <1>5, <2>1 DEF Udp!Receive, UdpTypes
<1>6. CASE Udp!ConnectPeer
  BY <1>6 DEF Udp!ConnectPeer, Udp!Loop, UdpTypes, Question
<1>7. CASE Udp!Send
  <2>1. net' = net \union {[to |-> peer, text |-> received]} /\ received \in Question
    BY <1>7 DEF Udp!Send, Udp!Answer, UdpTypes
  <2>. QED
    BY <1>7, <2>1 DEF Udp!Send, UdpTypes
<1>8. CASE Udp!ServerRefused
  BY <1>8 DEF Udp!ServerRefused, UdpTypes
<1>9. ASSUME NEW c \in Hosts, NEW bye \in BOOLEAN, Udp!AskOne(c, bye) PROVE UdpTypes'
  <2>0. asked[c] \in 0 .. MaxQuestions /\ asked[c] < MaxQuestions
    BY <1>9 DEF Udp!AskOne, UdpTypes
  <2>1. /\ asked' = [asked EXCEPT ![c] = @ + 1]
        /\ asked' \in [Hosts -> 0 .. MaxQuestions] /\ asked'[c] \in 1 .. MaxQuestions
    BY <1>9, <2>0, BoundsAssumption DEF Udp!AskOne, UdpTypes
  <2>2. [to |-> NoHost, text |-> [from |-> c, no |-> asked'[c], bye |-> bye]] \in Sent
    BY <2>1 DEF Question
  <2>3. clientAt' \in [Hosts -> {"ask", "wait", "end"}]
    BY <1>9 DEF Udp!AskOne, UdpTypes
  <2>. QED
    BY <1>9, <2>1, <2>2, <2>3 DEF Udp!AskOne, Udp!ToServer, UdpTypes
<1>10. ASSUME NEW c \in Hosts, Udp!ShowAnswer(c) PROVE UdpTypes'
  <2>1. mailbox[c] \in Seq(Question) /\ mailbox[c] # <<>> /\ shown[c] \in Seq(Question)
    BY <1>10 DEF Udp!ShowAnswer, UdpTypes
  <2>2. /\ Tail(mailbox[c]) \in Seq(Question)
        /\ Append(shown[c], Head(mailbox[c])) \in Seq(Question)
    BY <2>1, TailEffect, AppendEffect
  <2>3. /\ shown' = [shown EXCEPT ![c] = Append(shown[c], Head(mailbox[c]))]
        /\ mailbox' = [mailbox EXCEPT ![c] = Tail(mailbox[c])]
        /\ clientAt' = [clientAt EXCEPT ![c] = "ask"]
        /\ UNCHANGED <<chapter, net, duplicates, inbox, serverAt, received, peer, asked, refused>>
    BY <1>10 DEF Udp!ShowAnswer
  <2>. QED
    BY <2>2, <2>3 DEF UdpTypes
<1>11. ASSUME NEW c \in Hosts, Udp!Refused(c) \/ Udp!Quit(c) PROVE UdpTypes'
  BY <1>11 DEF Udp!Refused, Udp!Quit, UdpTypes
<1>12. CASE Udp!UdpServer
  <2>1. CASE Udp!ReceiveFirst
    BY <1>5, <2>1 DEF Udp!ReceiveFirst
  <2>2. CASE Udp!ReceiveNext
    BY <1>5, <2>2 DEF Udp!ReceiveNext
  <2>3. CASE Udp!LocalFails
    <3>1. Head(inbox) \in Question /\ Tail(inbox) \in Seq(Question)
      BY <2>3, TailEffect DEF Udp!LocalFails, UdpTypes
    <3>. QED
      BY <2>3, <3>1 DEF Udp!LocalFails, UdpTypes
  <2>. QED
    BY <1>4, <1>6, <1>7, <1>8, <1>12, <2>1, <2>2, <2>3 DEF Udp!UdpServer, Udp!Serve, Udp!ServeLocal
<1>13. ASSUME NEW c \in Hosts, Udp!UdpClient(c) PROVE UdpTypes'
  BY <1>9, <1>10, <1>11, <1>13 DEF Udp!UdpClient, Udp!Ask, Udp!AskLocal
<1>. QED
  BY <1>1, <1>2, <1>3, <1>12, <1>13 DEF Udp!Next

\* The places of a queue before and after something is put in or taken out.
LEMMA PlacesAfterAppend ==
  ASSUME NEW S, NEW s \in Seq(S), NEW o \in S
  PROVE  /\ Len(s) + 1 \notin DOMAIN s /\ DOMAIN Append(s, o) = DOMAIN s \union {Len(s) + 1}
         /\ \A k \in DOMAIN s : Append(s, o)[k] = s[k]
         /\ Append(s, o)[Len(s) + 1] = o
<1>1. /\ DOMAIN s = 1 .. Len(s) /\ DOMAIN Append(s, o) = 1 .. Len(s) + 1 /\ Len(s) \in Nat
      /\ Append(s, o)[Len(s) + 1] = o /\ \A k \in 1 .. Len(s) : Append(s, o)[k] = s[k]
  OBVIOUS
<1>. QED
  BY <1>1

LEMMA PlacesAfterTail ==
  ASSUME NEW S, NEW s \in Seq(S), s # <<>>
  PROVE  /\ 1 \in DOMAIN s /\ Head(s) = s[1] /\ Head(s) \in S
         /\ \A k \in DOMAIN Tail(s) :
              k \in Int /\ k + 1 \in DOMAIN s /\ k + 1 # 1 /\ Tail(s)[k] = s[k + 1]
<1>1. /\ Len(s) \in Nat \ {0} /\ Len(Tail(s)) = Len(s) - 1 /\ Tail(s) \in Seq(S)
      /\ Head(s) = s[1] /\ Head(s) \in S
      /\ \A k \in 1 .. Len(s) - 1 : Tail(s)[k] = s[k + 1]
  BY TailEffect
<1>2. DOMAIN s = 1 .. Len(s) /\ DOMAIN Tail(s) = 1 .. Len(s) - 1
  BY <1>1
<1>. QED
  BY <1>1, <1>2

\* chapters 6 and 7: an answer goes to whoever asked.
LEMMA SenderStep == UdpTypes /\ SenderInv /\ Udp!Next => SenderInv'
<1>. SUFFICES ASSUME UdpTypes, SenderInv, Udp!Next, chapter' # 14
              PROVE  /\ serverAt' \in {"serve", "end"} /\ \A s \in Hosts \union {NoHost} : ~refused'[s]
                     /\ \A d \in net' : d.to \in {NoHost, d.text.from}
                     /\ \A c \in Hosts : \A k \in DOMAIN mailbox'[c] : mailbox'[c][k].from = c
                     /\ \A c \in Hosts : \A k \in DOMAIN shown'[c] : shown'[c][k].from = c
  BY DEF SenderInv
<1>. USE DEF Udp!netVars, Udp!udpServer, Udp!udpClient
<1>0. chapter' = chapter
  BY DEF Udp!Next, Udp!DeliverQuestion, Udp!DeliverAnswer, Udp!Lose, Udp!UdpServer, Udp!Serve,
         Udp!ServeLocal, Udp!LocalFails, Udp!AnswerOne, Udp!ReceiveFirst, Udp!Receive, Udp!ConnectPeer, Udp!Send,
         Udp!ReceiveNext, Udp!ServerRefused, Udp!UdpClient, Udp!Ask, Udp!AskLocal, Udp!AskOne,
         Udp!ShowAnswer, Udp!Refused, Udp!Quit
<1>1. /\ serverAt \in {"serve", "end"} /\ \A s \in Hosts \union {NoHost} : ~refused[s]
      /\ \A d \in net : d.to \in {NoHost, d.text.from}
      /\ \A c \in Hosts : \A k \in DOMAIN mailbox[c] : mailbox[c][k].from = c
      /\ \A c \in Hosts : \A k \in DOMAIN shown[c] : shown[c][k].from = c
  BY <1>0 DEF SenderInv
<1>2. CASE Udp!DeliverQuestion
  <2>1. PICK d \in net :
          /\ Udp!Consumed(d) /\ UNCHANGED <<serverAt, mailbox, shown>>
          /\ UNCHANGED refused \/ refused' = Udp!Reported(d.text.from)
    BY <1>2 DEF Udp!DeliverQuestion
  <2>2. \A s \in Hosts \union {NoHost} : ~refused'[s]
    BY <1>0, <1>1, <2>1 DEF Udp!Reported, UdpTypes
  <2>3. net' \subseteq net
    BY <2>1, ConsumedEffect
  <2>. QED
    BY <1>1, <2>1, <2>2, <2>3
<1>3. CASE Udp!DeliverAnswer
  <2>1. PICK d \in net :
          /\ d.to # NoHost /\ Udp!Consumed(d) /\ UNCHANGED <<serverAt, shown>>
          /\ \/ refused' = Udp!Reported(NoHost) /\ UNCHANGED mailbox
             \/ mailbox' = [mailbox EXCEPT ![d.to] = Append(@, d.text)] /\ UNCHANGED refused
    BY <1>3 DEF Udp!DeliverAnswer
  <2>2. \A s \in Hosts \union {NoHost} : ~refused'[s]
    BY <1>0, <1>1, <2>1 DEF Udp!Reported, UdpTypes
  <2>3. net' \subseteq net
    BY <2>1, ConsumedEffect
  <2>4. d.to \in Hosts /\ d.text.from = d.to /\ d.text \in Question
    BY <1>1, <2>1 DEF UdpTypes
  <2>5. ASSUME NEW c \in Hosts, NEW k \in DOMAIN mailbox'[c]
        PROVE  mailbox'[c][k].from = c
    <3>1. CASE mailbox'[c] = mailbox[c]
      BY <1>1, <2>5, <3>1
    <3>2. CASE c = d.to /\ mailbox'[c] = Append(mailbox[c], d.text)
      <4>1. mailbox[c] \in Seq(Question)
        BY DEF UdpTypes
      <4>2. \/ k \in DOMAIN mailbox[c] /\ mailbox'[c][k] = mailbox[c][k]
            \/ mailbox'[c][k] = d.text
        BY <2>4, <2>5, <3>2, <4>1, PlacesAfterAppend
      <4>. QED
        BY <1>1, <2>4, <3>2, <4>2
    <3>. QED
      BY <2>1, <3>1, <3>2 DEF UdpTypes
  <2>. QED
    BY <1>1, <2>1, <2>2, <2>3, <2>5
<1>4. CASE Udp!Lose
  BY <1>1, <1>4 DEF Udp!Lose
<1>5. CASE Udp!UdpServer
  <2>1. CASE Udp!AnswerOne
    <3>1. Udp!Answer(Head(inbox).from, Head(inbox)).to = Head(inbox).from
          /\ Udp!Answer(Head(inbox).from, Head(inbox)).text = Head(inbox)
      BY DEF Udp!Answer
    <3>. QED
      BY <1>1, <2>1, <3>1 DEF Udp!AnswerOne
  <2>2. CASE Udp!LocalFails
    BY <1>1, <2>2 DEF Udp!LocalFails
  <2>3. Udp!AnswerOne \/ Udp!LocalFails
    BY <1>1, <1>5 DEF Udp!UdpServer, Udp!Serve, Udp!ServeLocal, Udp!ReceiveFirst, Udp!ReceiveNext,
                      Udp!Receive, Udp!ConnectPeer, Udp!Send, Udp!ServerRefused
  <2>. QED
    BY <2>1, <2>2, <2>3
<1>6. ASSUME NEW c \in Hosts, NEW bye \in BOOLEAN, Udp!AskOne(c, bye)
      PROVE  /\ serverAt' \in {"serve", "end"} /\ \A s \in Hosts \union {NoHost} : ~refused'[s]
             /\ \A d \in net' : d.to \in {NoHost, d.text.from}
             /\ \A h \in Hosts : \A k \in DOMAIN mailbox'[h] : mailbox'[h][k].from = h
             /\ \A h \in Hosts : \A k \in DOMAIN shown'[h] : shown'[h][k].from = h
  BY <1>1, <1>6 DEF Udp!AskOne, Udp!ToServer
<1>7. ASSUME NEW c \in Hosts, Udp!ShowAnswer(c)
      PROVE  /\ serverAt' \in {"serve", "end"} /\ \A s \in Hosts \union {NoHost} : ~refused'[s]
             /\ \A d \in net' : d.to \in {NoHost, d.text.from}
             /\ \A h \in Hosts : \A k \in DOMAIN mailbox'[h] : mailbox'[h][k].from = h
             /\ \A h \in Hosts : \A k \in DOMAIN shown'[h] : shown'[h][k].from = h
  <2>1. /\ mailbox[c] # <<>> /\ mailbox[c] \in Seq(Question) /\ shown[c] \in Seq(Question)
        /\ \A h \in Hosts : mailbox'[h] = IF h = c THEN Tail(mailbox[c]) ELSE mailbox[h]
        /\ \A h \in Hosts : shown'[h] = IF h = c THEN Append(shown[c], Head(mailbox[c])) ELSE shown[h]
        /\ UNCHANGED <<serverAt, refused, net>>
    BY <1>7 DEF Udp!ShowAnswer, UdpTypes
  <2>2. /\ Head(mailbox[c]).from = c /\ Head(mailbox[c]) \in Question
        /\ \A k \in DOMAIN Tail(mailbox[c]) : Tail(mailbox[c])[k].from = c
    BY <1>1, <2>1, PlacesAfterTail
  <2>3. \A k \in DOMAIN Append(shown[c], Head(mailbox[c])) :
          Append(shown[c], Head(mailbox[c]))[k].from = c
    <3>1. \A k \in DOMAIN Append(shown[c], Head(mailbox[c])) :
            \/ k \in DOMAIN shown[c] /\ Append(shown[c], Head(mailbox[c]))[k] = shown[c][k]
            \/ Append(shown[c], Head(mailbox[c]))[k] = Head(mailbox[c])
      BY <2>1, <2>2, PlacesAfterAppend
    <3>. QED
      BY <1>1, <2>2, <3>1
  <2>4. ASSUME NEW h \in Hosts
        PROVE  /\ \A k \in DOMAIN mailbox'[h] : mailbox'[h][k].from = h
               /\ \A k \in DOMAIN shown'[h] : shown'[h][k].from = h
    <3>1. CASE h = c
      <4>1. mailbox'[h] = Tail(mailbox[c]) /\ shown'[h] = Append(shown[c], Head(mailbox[c]))
        BY <2>1, <3>1
      <4>. QED
        BY <2>2, <2>3, <3>1, <4>1
    <3>2. CASE h # c
      <4>1. mailbox'[h] = mailbox[h] /\ shown'[h] = shown[h]
        BY <2>1, <3>2
      <4>. QED
        BY <1>1, <4>1
    <3>. QED
      BY <3>1, <3>2
  <2>. QED
    BY <1>1, <2>1, <2>4
<1>8. ASSUME NEW c \in Hosts, Udp!Refused(c) \/ Udp!Quit(c)
      PROVE  UNCHANGED <<serverAt, refused, net, mailbox, shown>>
  BY <1>8 DEF Udp!Refused, Udp!Quit
<1>. QED
  BY <1>1, <1>2, <1>3, <1>4, <1>5, <1>6, <1>7, <1>8
     DEF Udp!Next, Udp!UdpClient, Udp!Ask, Udp!AskLocal

\* chapters 6 and 7: a question, or its answer, is in one place at most.
LEMMA NumberStep == UdpTypes /\ SenderInv /\ NumberInv /\ Udp!Next => NumberInv'
<1>. SUFFICES ASSUME UdpTypes, SenderInv, NumberInv, Udp!Next, chapter' # 14, duplicates' = 0,
                     NEW h \in Hosts
              PROVE  AllWaited(h)' /\ OncePlaced(h)' /\ OneOnly(h)' /\ Numbered(h)'
  BY DEF NumberInv
<1>. USE DEF Udp!netVars, Udp!udpServer, Udp!udpClient
<1>0. chapter # 14
  BY DEF Udp!Next, Udp!DeliverQuestion, Udp!DeliverAnswer, Udp!Lose, Udp!UdpServer, Udp!Serve,
         Udp!ServeLocal, Udp!LocalFails, Udp!AnswerOne, Udp!ReceiveFirst, Udp!Receive, Udp!ConnectPeer, Udp!Send,
         Udp!ReceiveNext, Udp!ServerRefused, Udp!UdpClient, Udp!Ask, Udp!AskLocal, Udp!AskOne,
         Udp!ShowAnswer, Udp!Refused, Udp!Quit
<1>1. /\ serverAt \in {"serve", "end"} /\ \A s \in Hosts \union {NoHost} : ~refused[s]
      /\ \A d \in net : d.to \in {NoHost, d.text.from}
      /\ \A c \in Hosts : \A k \in DOMAIN mailbox[c] : mailbox[c][k].from = c
  BY <1>0 DEF SenderInv
<1>2. ASSUME duplicates = 0
      PROVE  AllWaited(h) /\ OncePlaced(h) /\ OneOnly(h) /\ Numbered(h)
  BY <1>0, <1>2 DEF NumberInv
<1>3. CASE Udp!DeliverQuestion
  <2>1. PICK d \in net :
          /\ Udp!Consumed(d) /\ UNCHANGED <<clientAt, asked, mailbox, shown>>
          /\ UNCHANGED inbox \/ inbox' = Append(inbox, d.text)
    BY <1>3 DEF Udp!DeliverQuestion
  <2>2. duplicates = 0 /\ net' = net \ {d}
    BY <2>1, ConsumedEffect
  <2>3. AllWaited(h) /\ OncePlaced(h) /\ OneOnly(h) /\ Numbered(h)
    BY <1>2, <2>2
  <2>4. Numbered(h)'
    BY <2>1, <2>3 DEF Numbered
  <2>5. CASE UNCHANGED inbox
    BY <2>1, <2>2, <2>3, <2>4, <2>5 DEF AllWaited, OncePlaced, OneOnly, Waited
  <2>6. CASE inbox' = Append(inbox, d.text)
    <3>. DEFINE last == Len(inbox) + 1
    <3>1. inbox \in Seq(Question) /\ d.text \in Question
      BY DEF UdpTypes
    <3>2. /\ DOMAIN inbox' = DOMAIN inbox \union {last} /\ inbox'[last] = d.text
          /\ \A k \in DOMAIN inbox : inbox'[k] = inbox[k]
      BY <2>6, <3>1, PlacesAfterAppend
    <3>. HIDE DEF last
    <3>3. AllWaited(h)'
      BY <2>1, <2>2, <2>3, <3>2 DEF AllWaited, Waited
    <3>4. OncePlaced(h)'
      BY <2>1, <2>2, <2>3, <3>2 DEF OncePlaced, OneOnly
    <3>5. OneOnly(h)'
      BY <2>1, <2>2, <2>3, <3>2 DEF OncePlaced, OneOnly
    <3>. QED
      BY <2>4, <3>3, <3>4, <3>5
  <2>. QED
    BY <2>1, <2>5, <2>6
<1>4. CASE Udp!DeliverAnswer
  <2>1. PICK d \in net :
          /\ d.to # NoHost /\ Udp!Consumed(d) /\ UNCHANGED <<inbox, clientAt, asked, shown>>
          /\ UNCHANGED mailbox \/ mailbox' = [mailbox EXCEPT ![d.to] = Append(@, d.text)]
    BY <1>4 DEF Udp!DeliverAnswer
  <2>2. duplicates = 0 /\ net' = net \ {d}
    BY <2>1, ConsumedEffect
  <2>3. AllWaited(h) /\ OncePlaced(h) /\ OneOnly(h) /\ Numbered(h)
    BY <1>2, <2>2
  <2>4. Numbered(h)'
    BY <2>1, <2>3 DEF Numbered
  <2>5. d.to \in Hosts /\ d.text.from = d.to /\ d.text \in Question
    BY <1>1, <2>1 DEF UdpTypes
  <2>6. CASE mailbox'[h] = mailbox[h]
    BY <2>1, <2>2, <2>3, <2>4, <2>6 DEF AllWaited, OncePlaced, OneOnly, Waited
  <2>7. CASE h = d.to /\ mailbox'[h] = Append(mailbox[h], d.text)
    <3>. DEFINE last == Len(mailbox[h]) + 1
    <3>1. mailbox[h] \in Seq(Question)
      BY DEF UdpTypes
    <3>2. DOMAIN mailbox'[h] = DOMAIN mailbox[h] \union {last} /\ mailbox'[h][last] = d.text
      BY <2>5, <2>7, <3>1, PlacesAfterAppend
    <3>3. DOMAIN mailbox[h] = {}
      BY <2>3, <2>5, <2>7 DEF OneOnly
    <3>. HIDE DEF last
    <3>4. AllWaited(h)' /\ OncePlaced(h)'
      BY <2>1, <2>2, <2>3, <3>2, <3>3 DEF AllWaited, OncePlaced, Waited
    <3>5. OneOnly(h)'
      BY <2>1, <2>2, <2>3, <2>5, <2>7, <3>2, <3>3 DEF OncePlaced, OneOnly
    <3>. QED
      BY <2>4, <3>4, <3>5
  <2>. QED
    BY <2>1, <2>6, <2>7 DEF UdpTypes
<1>5. CASE Udp!Lose
  BY <1>2, <1>5 DEF Udp!Lose, AllWaited, OncePlaced, OneOnly, Numbered, Waited
<1>6. CASE Udp!AnswerOne
  <2>. DEFINE q == Head(inbox)
              a == Udp!Answer(q.from, q)
  <2>1. /\ inbox # <<>> /\ inbox' = Tail(inbox) /\ net' = net \union {a} /\ a.text = q
        /\ duplicates = 0 /\ UNCHANGED <<clientAt, asked, mailbox, shown>>
    BY <1>6 DEF Udp!AnswerOne, Udp!Answer
  <2>2. inbox \in Seq(Question)
    BY DEF UdpTypes
  <2>3. /\ 1 \in DOMAIN inbox /\ q = inbox[1]
        /\ \A k \in DOMAIN inbox' :
             k \in Int /\ k + 1 \in DOMAIN inbox /\ k + 1 # 1 /\ inbox'[k] = inbox[k + 1]
    BY <2>1, <2>2, PlacesAfterTail
  <2>. HIDE DEF q, a
  <2>4. AllWaited(h) /\ OncePlaced(h) /\ OneOnly(h) /\ Numbered(h)
    BY <1>2, <2>1
  <2>5. Numbered(h)'
    BY <2>1, <2>4 DEF Numbered
  <2>6. AllWaited(h)'
    BY <2>1, <2>3, <2>4 DEF AllWaited, Waited
  <2>7. OncePlaced(h)'
    <3>1. \A d, e \in net' : d.text.from = h /\ e.text.from = h => d = e
      BY <2>1, <2>3, <2>4 DEF OncePlaced, OneOnly
    <3>2. \A j, k \in DOMAIN inbox' : inbox'[j].from = h /\ inbox'[k].from = h => j = k
      BY <2>3, <2>4 DEF OncePlaced
    <3>. QED
      BY <2>1, <2>4, <3>1, <3>2 DEF OncePlaced
  <2>8. OneOnly(h)'
    <3>1. \A d \in net', k \in DOMAIN inbox' : d.text.from = h => inbox'[k].from # h
      BY <2>1, <2>3, <2>4 DEF OncePlaced, OneOnly
    <3>2. \A d \in net', k \in DOMAIN mailbox[h] : d.text.from # h
      BY <2>1, <2>3, <2>4 DEF OneOnly
    <3>3. \A k \in DOMAIN inbox', j \in DOMAIN mailbox[h] : inbox'[k].from # h
      BY <2>3, <2>4 DEF OneOnly
    <3>. QED
      BY <2>1, <3>1, <3>2, <3>3 DEF OneOnly
  <2>. QED
    BY <2>5, <2>6, <2>7, <2>8
<1>7. ASSUME NEW c \in Hosts, NEW bye \in BOOLEAN, Udp!AskOne(c, bye)
      PROVE  AllWaited(h)' /\ OncePlaced(h)' /\ OneOnly(h)' /\ Numbered(h)'
  <2>. DEFINE new == Udp!ToServer([from |-> c, no |-> asked'[c], bye |-> bye])
  <2>1. /\ clientAt[c] = "ask" /\ duplicates = 0 /\ net' = net \union {new}
        /\ \A g \in Hosts : asked'[g] = IF g = c THEN asked[g] + 1 ELSE asked[g]
        /\ \A g \in Hosts : clientAt'[g] = IF g = c THEN "wait" ELSE clientAt[g]
        /\ UNCHANGED <<inbox, mailbox, shown>>
    BY <1>7 DEF Udp!AskOne, UdpTypes
  <2>2. new.text.from = c /\ new.text.no = asked'[c]
    BY DEF Udp!ToServer
  <2>. HIDE DEF new
  <2>3. AllWaited(h) /\ OncePlaced(h) /\ OneOnly(h) /\ Numbered(h)
    BY <1>2, <2>1
  <2>4. CASE h = c
    <3>1. /\ \A d \in net : d.text.from # h
          /\ \A k \in DOMAIN inbox : inbox[k].from # h
          /\ DOMAIN mailbox[h] = {}
      BY <1>1, <2>1, <2>3, <2>4 DEF AllWaited, Waited
    <3>2. AllWaited(h)'
      BY <2>1, <2>2, <2>4, <3>1 DEF AllWaited, Waited
    <3>3. OncePlaced(h)' /\ OneOnly(h)'
      BY <2>1, <3>1 DEF OncePlaced, OneOnly
    <3>4. Numbered(h)'
      BY <2>1, <2>3, <2>4 DEF Numbered
    <3>. QED
      BY <3>2, <3>3, <3>4
  <2>5. CASE h # c
    BY <2>1, <2>2, <2>3, <2>5 DEF AllWaited, OncePlaced, OneOnly, Numbered, Waited
  <2>. QED
    BY <2>4, <2>5
<1>8. ASSUME NEW c \in Hosts, Udp!ShowAnswer(c)
      PROVE  AllWaited(h)' /\ OncePlaced(h)' /\ OneOnly(h)' /\ Numbered(h)'
  <2>1. /\ clientAt[c] = "wait" /\ mailbox[c] # <<>> /\ duplicates = 0
        /\ mailbox' = [mailbox EXCEPT ![c] = Tail(mailbox[c])]
        /\ shown' = [shown EXCEPT ![c] = Append(shown[c], Head(mailbox[c]))]
        /\ clientAt' = [clientAt EXCEPT ![c] = "ask"]
        /\ UNCHANGED <<net, inbox, asked>>
    BY <1>8 DEF Udp!ShowAnswer
  <2>2. AllWaited(h) /\ OncePlaced(h) /\ OneOnly(h) /\ Numbered(h)
    BY <1>2, <2>1
  <2>3. CASE h = c
    <3>1. mailbox[h] \in Seq(Question) /\ shown[h] \in Seq(Question)
      BY DEF UdpTypes
    <3>2. /\ mailbox'[h] = Tail(mailbox[h]) /\ clientAt'[h] = "ask"
          /\ shown'[h] = Append(shown[h], Head(mailbox[h])) /\ mailbox[h] # <<>>
          /\ clientAt[h] = "wait"
      BY <2>1, <2>3 DEF UdpTypes
    <3>3. /\ 1 \in DOMAIN mailbox[h] /\ Head(mailbox[h]) = mailbox[h][1]
          /\ Head(mailbox[h]) \in Question
          /\ \A k \in DOMAIN mailbox'[h] :
               k \in Int /\ k + 1 \in DOMAIN mailbox[h] /\ k + 1 # 1
      BY <3>1, <3>2, PlacesAfterTail
    <3>4. DOMAIN mailbox'[h] = {}
      BY <2>2, <3>3 DEF OncePlaced
    <3>5. /\ \A d \in net : d.text.from # h
          /\ \A k \in DOMAIN inbox : inbox[k].from # h
      BY <2>2, <3>3 DEF OneOnly
    <3>6. AllWaited(h)' /\ OncePlaced(h)' /\ OneOnly(h)'
      BY <2>1, <3>4, <3>5 DEF AllWaited, Waited, OncePlaced, OneOnly
    <3>. DEFINE last == Len(shown[h]) + 1
    <3>7. Head(mailbox[h]).no = last /\ asked[h] = last
      BY <1>1, <2>2, <3>2, <3>3 DEF AllWaited, Waited, Numbered
    <3>8. /\ DOMAIN shown'[h] = DOMAIN shown[h] \union {last}
          /\ shown'[h][last] = Head(mailbox[h])
          /\ \A k \in DOMAIN shown[h] : shown'[h][k] = shown[h][k]
          /\ Len(shown'[h]) = last
      BY <3>1, <3>2, <3>3, PlacesAfterAppend, AppendEffect
    <3>. HIDE DEF last
    <3>9. Numbered(h)'
      BY <2>1, <2>2, <3>2, <3>7, <3>8 DEF Numbered
    <3>. QED
      BY <3>6, <3>9
  <2>4. CASE h # c
    <3>1. mailbox'[h] = mailbox[h] /\ shown'[h] = shown[h] /\ clientAt'[h] = clientAt[h]
      BY <2>1, <2>4 DEF UdpTypes
    <3>. QED
      BY <2>1, <2>2, <3>1 DEF AllWaited, OncePlaced, OneOnly, Numbered, Waited
  <2>. QED
    BY <2>3, <2>4
<1>9. ASSUME NEW c \in Hosts, Udp!Refused(c) \/ Udp!Quit(c)
      PROVE  AllWaited(h)' /\ OncePlaced(h)' /\ OneOnly(h)' /\ Numbered(h)'
  <2>1. /\ clientAt' = [clientAt EXCEPT ![c] = "end"] /\ duplicates = 0
        /\ UNCHANGED <<net, inbox, asked, mailbox, shown>>
    BY <1>1, <1>9 DEF Udp!Refused, Udp!Quit
  <2>2. AllWaited(h) /\ OncePlaced(h) /\ OneOnly(h) /\ Numbered(h)
    BY <1>2, <2>1
  <2>3. clientAt'[h] = (IF h = c THEN "end" ELSE clientAt[h])
    BY <2>1 DEF UdpTypes
  <2>4. AllWaited(h)'
    BY <1>1, <2>1, <2>2, <2>3 DEF AllWaited, Waited
  <2>. QED
    BY <2>1, <2>2, <2>3, <2>4 DEF OncePlaced, OneOnly, Numbered
<1>10. CASE Udp!LocalFails
  <2>1. /\ inbox # <<>> /\ inbox' = Tail(inbox) /\ duplicates = 0
        /\ UNCHANGED <<net, clientAt, asked, mailbox, shown>>
    BY <1>10 DEF Udp!LocalFails
  <2>2. inbox \in Seq(Question)
    BY DEF UdpTypes
  <2>3. \A k \in DOMAIN inbox' :
          k \in Int /\ k + 1 \in DOMAIN inbox /\ inbox'[k] = inbox[k + 1]
    BY <2>1, <2>2, PlacesAfterTail
  <2>4. AllWaited(h) /\ OncePlaced(h) /\ OneOnly(h) /\ Numbered(h)
    BY <1>2, <2>1
  <2>5. AllWaited(h)' /\ OneOnly(h)' /\ Numbered(h)'
    BY <2>1, <2>3, <2>4 DEF AllWaited, Waited, OneOnly, Numbered
  <2>6. OncePlaced(h)'
    BY <2>1, <2>3, <2>4 DEF OncePlaced
  <2>. QED
    BY <2>5, <2>6
<1>11. CASE Udp!UdpServer
  <2>1. Udp!AnswerOne \/ Udp!LocalFails
    BY <1>1, <1>11 DEF Udp!UdpServer, Udp!Serve, Udp!ServeLocal, Udp!ReceiveFirst, Udp!ReceiveNext,
                       Udp!Receive, Udp!ConnectPeer, Udp!Send, Udp!ServerRefused
  <2>. QED
    BY <1>6, <1>10, <2>1
<1>. QED
  BY <1>3, <1>4, <1>5, <1>7, <1>8, <1>9, <1>11 DEF Udp!Next, Udp!UdpClient, Udp!Ask, Udp!AskLocal

\* chapter 14: answers are for the client that the socket is connected to.
LEMMA PeerStep == UdpTypes /\ PeerInv /\ Udp!Next => PeerInv'
<1>. SUFFICES ASSUME UdpTypes, PeerInv, Udp!Next, chapter = 14
              PROVE  PeerInv'
  BY DEF PeerInv, Udp!Next, Udp!DeliverQuestion, Udp!DeliverAnswer, Udp!Lose, Udp!UdpServer,
         Udp!Serve, Udp!ServeLocal, Udp!LocalFails, Udp!AnswerOne, Udp!ReceiveFirst, Udp!Receive,
         Udp!ConnectPeer, Udp!Send, Udp!ReceiveNext, Udp!ServerRefused, Udp!UdpClient, Udp!Ask, Udp!AskLocal,
         Udp!AskOne, Udp!ShowAnswer, Udp!Refused, Udp!Quit
<1>. USE NobodyAssumption DEF Udp!netVars, Udp!udpServer, Udp!udpClient
<1>1. /\ serverAt # "serve" /\ (serverAt \in {"first", "connect"} => peer = NoHost)
      /\ \A d \in net : d.to \in {NoHost, peer}
      /\ \A c \in Hosts : (mailbox[c] # <<>> => c = peer) /\ (shown[c] # <<>> => c = peer)
  BY DEF PeerInv
<1>2. CASE Udp!DeliverQuestion
  <2>1. PICK d \in net : Udp!Consumed(d) /\ UNCHANGED <<serverAt, peer, mailbox, shown>>
    BY <1>2 DEF Udp!DeliverQuestion
  <2>2. net' \subseteq net
    BY <2>1, ConsumedEffect
  <2>. QED
    BY <1>1, <2>1, <2>2 DEF PeerInv
<1>3. CASE Udp!DeliverAnswer
  <2>1. PICK d \in net :
          /\ d.to # NoHost /\ Udp!Consumed(d) /\ UNCHANGED <<serverAt, peer, shown>>
          /\ UNCHANGED mailbox \/ mailbox' = [mailbox EXCEPT ![d.to] = Append(@, d.text)]
    BY <1>3 DEF Udp!DeliverAnswer
  <2>2. net' \subseteq net
    BY <2>1, ConsumedEffect
  <2>3. d.to = peer
    BY <1>1, <2>1
  <2>4. \A c \in Hosts : c # peer => mailbox'[c] = mailbox[c]
    BY <2>1, <2>3 DEF UdpTypes
  <2>. QED
    BY <1>1, <2>1, <2>2, <2>4 DEF PeerInv
<1>4. CASE Udp!Lose
  BY <1>1, <1>4 DEF Udp!Lose, PeerInv
<1>5. CASE Udp!UdpServer
  <2>1. CASE Udp!ReceiveFirst \/ Udp!ReceiveNext \/ Udp!ServerRefused
    BY <1>1, <2>1 DEF Udp!ReceiveFirst, Udp!ReceiveNext, Udp!Receive, Udp!ServerRefused, PeerInv
  <2>2. CASE Udp!ConnectPeer
    <3>1. /\ peer = NoHost /\ serverAt' \in {"end", "send"} /\ UNCHANGED <<net, mailbox, shown>>
      BY <1>1, <2>2 DEF Udp!ConnectPeer, Udp!Loop
    <3>2. /\ \A d \in net : d.to = NoHost
          /\ \A c \in Hosts : mailbox[c] = <<>> /\ shown[c] = <<>>
      BY <1>1, <3>1
    <3>. QED
      BY <3>1, <3>2 DEF PeerInv
  <2>3. CASE Udp!Send
    <3>1. Udp!Answer(peer, received).to = peer
      BY DEF Udp!Answer
    <3>. QED
      BY <1>1, <2>3, <3>1 DEF Udp!Send, PeerInv
  <2>. QED
    BY <1>1, <1>5, <2>1, <2>2, <2>3
       DEF Udp!UdpServer, Udp!Serve, Udp!ServeLocal, Udp!LocalFails, Udp!AnswerOne
<1>6. ASSUME NEW c \in Hosts, NEW bye \in BOOLEAN, Udp!AskOne(c, bye) PROVE PeerInv'
  BY <1>1, <1>6 DEF Udp!AskOne, Udp!ToServer, PeerInv
<1>7. ASSUME NEW c \in Hosts, Udp!ShowAnswer(c) PROVE PeerInv'
  <2>1. /\ mailbox[c] # <<>> /\ UNCHANGED <<net, serverAt, peer>>
        /\ \A h \in Hosts : h # c => mailbox'[h] = mailbox[h] /\ shown'[h] = shown[h]
    BY <1>7 DEF Udp!ShowAnswer, UdpTypes
  <2>. QED
    BY <1>1, <2>1 DEF PeerInv
<1>8. ASSUME NEW c \in Hosts, Udp!Refused(c) \/ Udp!Quit(c) PROVE PeerInv'
  <2>1. UNCHANGED <<serverAt, peer, net, mailbox, shown>>
    BY <1>8 DEF Udp!Refused, Udp!Quit
  <2>. QED
    BY <1>1, <2>1 DEF PeerInv
<1>. QED
  BY <1>2, <1>3, <1>4, <1>5, <1>6, <1>7, <1>8 DEF Udp!Next, Udp!UdpClient, Udp!Ask, Udp!AskLocal

LEMMA UdpTypesFit == UdpInv => Udp!UdpTypeOK
<1>1. Question = Udp!Questions
  BY DEF Question, Udp!Questions
<1>. QED
  BY <1>1 DEF UdpInv, UdpTypes, Udp!UdpTypeOK, Udp!Datagrams

LEMMA UdpAlways == Spec => []UdpInv
<1>1. Init => UdpInv
  <2>1. Init => Udp!Init
    BY DEF Init
  <2>2. Udp!Init => UdpTypes
    BY BoundsAssumption DEF Udp!Init, UdpTypes
  <2>3. Udp!Init => SenderInv /\ PeerInv
    BY DEF Udp!Init, SenderInv, PeerInv
  <2>4. Udp!Init => NumberInv
    BY DEF Udp!Init, NumberInv, AllWaited, OncePlaced, OneOnly, Numbered, Waited
  <2>. QED
    BY <2>1, <2>2, <2>3, <2>4 DEF UdpInv
<1>2. UdpInv /\ [Next]_vars => UdpInv'
  <2>1. UdpInv /\ UNCHANGED udpVars => UdpInv'
    <3>1. UNCHANGED udpVars =>
            UNCHANGED <<chapter, net, duplicates, inbox, serverAt, received, peer, clientAt, asked,
                        mailbox, refused, shown>>
      BY DEF udpVars
    <3>2. UdpTypes /\ UNCHANGED udpVars => UdpTypes'
      BY <3>1 DEF UdpTypes
    <3>3. SenderInv /\ PeerInv /\ UNCHANGED udpVars => SenderInv' /\ PeerInv'
      BY <3>1 DEF SenderInv, PeerInv
    <3>4. NumberInv /\ UNCHANGED udpVars => NumberInv'
      BY <3>1 DEF NumberInv, AllWaited, OncePlaced, OneOnly, Numbered, Waited
    <3>. QED
      BY <3>2, <3>3, <3>4 DEF UdpInv
  <2>. QED
    BY <2>1, UdpMoves, UdpTypesStep, SenderStep, NumberStep, PeerStep DEF UdpInv
<1>. QED
  BY <1>1, <1>2, PTL DEF Spec

\* An answer goes to the client it is for, and while nothing is duplicated it is
\* that to the question just asked, whatever is lost or overtaken.
THEOREM AnswersAlwaysFit == Spec => []AnswersFit
<1>1. UdpInv => AnswersFit
  <2>. SUFFICES ASSUME UdpInv, NEW c \in Hosts, NEW k \in 1 .. Len(shown[c])
                PROVE  /\ IF chapter = 14 THEN c = peer ELSE shown[c][k].from = c
                       /\ chapter # 14 /\ duplicates = 0 => shown[c][k].no = k
    BY DEF AnswersFit, Udp!AnswersFit
  <2>1. shown[c] \in Seq(Question) /\ k \in DOMAIN shown[c] /\ shown[c] # <<>>
    BY DEF UdpInv, UdpTypes
  <2>. QED
    BY <2>1 DEF UdpInv, SenderInv, NumberInv, Numbered, PeerInv
<1>. QED
  BY <1>1, UdpAlways, PTL

-----------------------------------------------------------------------------
(* The programs of Streams                                                 *)

LEMMA ThreadsMoves == [Next]_vars => Threads!Next \/ UNCHANGED threadsVars
BY DEF Next, Only, vars

LEMMA ThreadsAlways == Spec => []LineInv
<1>1. Init => LineInv
  <2>1. Init => Threads!Init
    BY DEF Init
  <2>. QED
    BY <2>1, ThreadsInit
<1>2. LineInv /\ [Next]_vars => LineInv'
  BY ThreadsMoves, ThreadsStep
<1>. QED
  BY <1>1, <1>2, PTL DEF Spec

\* A client that a single thread serves is answered with the beginnings of its lines,
\* each as long as the buffer allows and in order, whichever thread that is: for any
\* number of clients, any buffer, and lines of any length, cut up in any way.
THEOREM LinesAlwaysComeBack == Spec => []LinesComeBack
<1>1. LineInv => LinesComeBack
  BY ThreadsComeBack DEF LinesComeBack
<1>. QED
  BY <1>1, ThreadsAlways, PTL

LEMMA FrameMoves == [Next]_vars => Frame!Next \/ UNCHANGED frameVars
BY DEF Next, Only, vars

LEMMA FrameAlways == Spec => []FrameInv
<1>1. Init => FrameInv
  <2>1. Init => Frame!Init
    BY DEF Init
  <2>. QED
    BY <2>1, FrameInit
<1>2. FrameInv /\ [Next]_vars => FrameInv'
  <2>. SUFFICES ASSUME FrameInv, [Next]_vars PROVE FrameInv'
    OBVIOUS
  <2>1. [Frame!Next]_frameVars
    BY FrameMoves
  <2>. QED
    BY <2>1, FrameStep
<1>. QED
  BY <1>1, <1>2, PTL DEF Spec

\* However the network cuts the stream up, the servers of chapter16, chapter05 and
\* chapter17 are given what was sent: whole messages in order, the bytes of the run
\* BulkSize at a time, and the bytes as they come; no message that was sent is
\* refused, and only who has read everything a client that is gone sent ends.
THEOREM PiecesAlwaysWhole == Spec => []PiecesWhole
<1>1. FrameInv => PiecesWhole
  <2>. SUFFICES ASSUME FrameInv PROVE PiecesWhole
    OBVIOUS
  <2>1. course = 16 => \A k \in 1 .. Len(delivered) :
                         k <= Len(typedIn) /\ delivered[k] = Frame!Piece(k, "data", typedIn[k])
    BY DEF FrameInv, MessageInv
  <2>2. course = 5 => \A k \in 1 .. Len(delivered) :
                        /\ \A n \in 1 .. Len(delivered[k]) :
                             delivered[k][n].no = (k - 1) * BulkSize + n
                        /\ Len(delivered[k]) = BulkSize \/ (k = Len(delivered) /\ senderAt = "gone")
    BY DEF FrameInv, BulkInv, Full
  <2>3. course = 17 => Frame!Joined(delivered) \o stream \o remaining = Frame!Piece(1, "data", MessageSize)
    BY DEF FrameInv, RawInv
  <2>4. course \in {5, 16, 17} /\ readerAt # "error"
    BY DEF FrameInv, FrameTypes
  <2>5. readerAt = "closed" => senderAt = "gone" /\ stream = <<>>
    BY DEF FrameInv, EndInv
  <2>. QED
    BY <2>1, <2>2, <2>3, <2>4, <2>5 DEF PiecesWhole, Frame!PiecesWhole
<1>. QED
  BY <1>1, FrameAlways, PTL

LEMMA HiMoves == [Next]_vars => Hi!Next \/ UNCHANGED hiVars
BY DEF Next, Only, vars

LEMMA HiAlways == Spec => []HiInv
<1>1. Init => HiInv
  <2>1. Init => Hi!Init
    BY DEF Init
  <2>. QED
    BY <2>1, HiInit
<1>2. HiInv /\ [Next]_vars => HiInv'
  <2>. SUFFICES ASSUME HiInv, [Next]_vars PROVE HiInv'
    OBVIOUS
  <2>1. [Hi!Next]_hiVars
    BY HiMoves
  <2>. QED
    BY <2>1, HiStep
<1>. QED
  BY <1>1, <1>2, PTL DEF Spec

\* However many lines arrive at once, and whatever a reset takes of those that have
\* not arrived: the lines are read once, in order and without a gap; all of them when
\* nothing reset the connection; every answer reaches a client that reads, after its
\* shutdown too; and one that waits for each answer is given that to its line and
\* misses at most the last (chapters 7, 11, 13 and 17).
THEOREM AnswersAlwaysComeBack == Spec => []AnswersComeBack
<1>1. HiInv => AnswersComeBack
  BY HiComeBack DEF AnswersComeBack
<1>. QED
  BY <1>1, HiAlways, PTL

-----------------------------------------------------------------------------
(* LineIO                                                                  *)

LEMMA LinesMoves == [Next]_vars => Lines!Next \/ UNCHANGED lineVars
BY DEF Next, Only, vars

LEMMA LinesAlways == Spec => []LinesInv
<1>1. Init => LinesInv
  <2>1. Init => Lines!Init
    BY DEF Init
  <2>. QED
    BY <2>1, LinesInit
<1>2. LinesInv /\ [Next]_vars => LinesInv'
  BY LinesMoves, LinesStep
<1>. QED
  BY <1>1, <1>2, PTL DEF Spec

\* read_line and readLine of linux-c-np-geektime and tlpi split any text where its
\* lines end, and read_line_buffered loses only what it has forgotten, for every
\* buffer with room for a byte and the \0 and however the text arrives.
THEOREM LinesAlwaysSplit == Spec => []LinesSplit
<1>1. LinesInv => LinesSplit
  BY LinesSplitSo DEF LinesSplit
<1>. QED
  BY <1>1, LinesAlways, PTL

LEMMA PostsMoves == [Next]_vars => Posts!Next \/ UNCHANGED messageVars
BY DEF Next, Only, vars

LEMMA PostsAlways == Spec => []PostsInv
<1>1. Init => PostsInv
  <2>1. Init => Posts!Init
    BY DEF Init
  <2>. QED
    BY <2>1, PostsInit
<1>2. PostsInv /\ [Next]_vars => PostsInv'
  BY PostsMoves, PostsStep
<1>. QED
  BY <1>1, <1>2, PTL DEF Spec

\* msg_send and msg_watcher: what a sender types comes out whole, in the order in
\* which it was sent, for any number of senders, messages and lengths.
THEOREM MessagesAlwaysWhole == Spec => []MessagesWhole
<1>1. PostsInv => MessagesWhole
  BY PostsWhole DEF MessagesWhole
<1>. QED
  BY <1>1, PostsAlways, PTL

LEMMA NioMoves == [Next]_vars => Nio!Next \/ UNCHANGED nioVars
BY DEF Next, Only, vars

LEMMA NioAlways == Spec => []NioInv
<1>1. Init => NioInv
  <2>1. Init => Nio!Init
    BY DEF Init
  <2>. QED
    BY <2>1, NioInit
<1>2. NioInv /\ [Next]_vars => NioInv'
  <2>1. NioInv /\ Nio!Next => NioInv'
    <3>1. NioInv /\ Nio!NioLoop => NioInv'
      BY NioQuietStep, NioAccept, NioRead, NioWrite, NioClosed DEF Nio!NioLoop
    <3>2. ASSUME NEW p \in Peers, NioInv, Nio!Arrive(p) \/ Nio!Say(p) \/ Nio!HangUp(p)
          PROVE  NioInv'
      BY <3>2, NioArrive, NioSay, NioQuietStep
    <3>. QED
      BY <3>1, <3>2 DEF Nio!Next
  <2>2. NioInv /\ UNCHANGED nioVars => NioInv'
    <3>. SUFFICES ASSUME NioInv, UNCHANGED nioVars PROVE NioInv'
      OBVIOUS
    <3>1. UNCHANGED <<nioAt, i, client, open, line, read_index, said, toRead, echoed, arrivals, abandoned>>
      BY DEF nioVars, Nio!nioVars, Nio!loopVars, Nio!bufferVars, Nio!peerVars
    <3>2. InLoop' => i' \in Nio!Fds /\ client[i'] # NoPeer
      BY <3>1 DEF NioInv, NioTypes, InLoop
    <3>. QED
      BY <3>1, <3>2, NioQuiet
  <2>. QED
    BY <2>1, <2>2, NioMoves
<1>. QED
  BY <1>1, <1>2, PTL DEF Spec

\* A client that talks to the select server of chapter 22 gets its bytes back in the
\* order it sent them, each once, and none is missing before one that has come
\* unless the buffer was full.  OrderInv says it of all that is on its way; a buffer
\* that is reused may hold another's bytes, and SaidInv says none of a new client's.
THEOREM EchoAlwaysInOrder == Spec => []EchoInOrder
<1>1. NioInv => EchoInOrder
  BY NioInvEcho DEF EchoInOrder
<1>. QED
  BY <1>1, NioAlways, PTL

-----------------------------------------------------------------------------
(* The types of the programs: what their TypeOK says beyond the invariants *)
(* above and those of StreamProofs.                                        *)

LEMMA TtyTypedFirst == Tty!Init => Tty!TtyTypeOK
<1>. SUFFICES ASSUME Tty!Init PROVE Tty!TtyTypeOK
  OBVIOUS
<1>1. echoer \in Tty!Echoers /\ echoAt = "read" /\ reads = 0 /\ typedAt = -1 /\ told = ""
  BY DEF Tty!Init
<1>2. reads \in 0 .. MaxReads /\ typedAt \in -1 .. MaxReads
  <2>1. 0 \in 0 .. MaxReads /\ -1 \in -1 .. MaxReads
    BY BoundsAssumption
  <2>. QED
    BY <1>1, <2>1, Zenon
<1>3. echoer \in Tty!Echoers
  BY <1>1
<1>4. echoAt \in {"read", "sleep", "over"}
  BY <1>1
<1>5. told \in {"", "timeout", "error", "echo", "part"}
  BY <1>1
<1>. QED
  BY <1>2, <1>3, <1>4, <1>5 DEF Tty!TtyTypeOK

LEMMA TtyTyped == Tty!TtyTypeOK /\ [Tty!Next]_ttyVars => Tty!TtyTypeOK'
<1>. SUFFICES ASSUME Tty!TtyTypeOK, [Tty!Next]_ttyVars PROVE Tty!TtyTypeOK'
  OBVIOUS
<1>1. MaxReads \in Nat /\ reads \in 0 .. MaxReads /\ typedAt \in -1 .. MaxReads
  BY BoundsAssumption DEF Tty!TtyTypeOK
<1>2. reads' \in 0 .. MaxReads /\ typedAt' \in -1 .. MaxReads
  <2>1. reads' \in {reads, reads + 1} /\ (reads' # reads => reads < MaxReads) /\ typedAt' \in {reads, typedAt}
    BY DEF Tty!Next, Tty!Type, Tty!Echo, Tty!ReadFails, Tty!TryAgain, Tty!Sleep, ttyVars
  <2>. QED
    BY <1>1, <2>1
<1>3. /\ echoer' = echoer /\ echoAt' \in {"read", "sleep", "over"}
      /\ told' \in {"", "timeout", "error", "echo", "part"}
  BY DEF Tty!TtyTypeOK, Tty!Next, Tty!Type, Tty!Echo, Tty!ReadFails, Tty!TryAgain, Tty!Sleep,
         ttyVars
<1>. QED
  BY <1>2, <1>3 DEF Tty!TtyTypeOK

\* The client gives up when it has sent one PING more than ProbeTimes.
PingTypes == Ping!PingTypeOK /\ (pingClientAt = "select" => heartbeats <= ProbeTimes)

LEMMA PatienceIsTime == Ping!PatienceTime \in Nat
<1>1. ProbeTimes * KeepAliveInterval \in Nat
  BY NumbersAssumption, BoundsAssumption
<1>. QED
  BY <1>1, NumbersAssumption, BoundsAssumption DEF Ping!PatienceTime

LEMMA PingTyped == PingTypes /\ [Ping!Next]_pingVars => PingTypes'
<1>. SUFFICES ASSUME PingTypes, [Ping!Next]_pingVars PROVE PingTypes'
  OBVIOUS
<1>1. /\ KeepAliveTime \in Nat /\ KeepAliveInterval \in Nat /\ ProbeTimes \in Nat
      /\ SleepingTimes \subseteq Nat /\ MaxWaiting \in Nat /\ Ping!PatienceTime \in Nat
  BY NumbersAssumption, BoundsAssumption, PatienceIsTime
<1>2. CASE UNCHANGED pingVars
  BY <1>2 DEF PingTypes, Ping!PingTypeOK, pingVars
<1>. USE DEF PingTypes, Ping!PingTypeOK, Ping!clientVars, Ping!serverVars
<1>3. CASE Ping!TimedOut
  <2>1. pings' \in 0 .. MaxWaiting
    BY <1>1, <1>3 DEF Ping!TimedOut, Ping!OneMore
  <2>2. heartbeats' \in 0 .. ProbeTimes + 1 /\ (pingClientAt' = "select" => heartbeats' <= ProbeTimes)
    BY <1>1, <1>3 DEF Ping!TimedOut
  <2>. QED
    BY <1>1, <1>3, <2>1, <2>2 DEF Ping!TimedOut
<1>4. CASE Ping!ClientReads
  BY <1>1, <1>4 DEF Ping!ClientReads
<1>5. CASE Ping!ServerTerminated \/ Ping!Typed
  BY <1>5 DEF Ping!ServerTerminated, Ping!Typed
<1>6. CASE Ping!ServerReads
  BY <1>1, <1>6 DEF Ping!ServerReads
<1>7. CASE Ping!ServerAnswers
  <2>1. pongs' \in 0 .. MaxWaiting
    BY <1>1, <1>7 DEF Ping!ServerAnswers, Ping!OneMore
  <2>. QED
    BY <1>7, <2>1 DEF Ping!ServerAnswers
<1>8. CASE Ping!ClientClosed
  BY <1>8 DEF Ping!ClientClosed
<1>9. CASE Ping!ServerGone \/ Ping!ServerResets
  BY <1>1, <1>9 DEF Ping!ServerGone, Ping!ServerResets
<1>10. CASE Ping!Tick
  <2>1. silence' \in 0 .. Ping!PatienceTime + 1
    BY <1>1, <1>10 DEF Ping!Tick
  <2>2. timeout' \in (0 .. KeepAliveTime) \union (0 .. KeepAliveInterval) /\ nap' \in 0 .. sleeping_time
    BY <1>1, <1>10 DEF Ping!Tick, Ping!Less
  <2>. QED
    BY <1>10, <2>1, <2>2 DEF Ping!Tick
<1>11. CASE Ping!ResetRead
  BY <1>1, <1>11 DEF Ping!ResetRead
<1>. QED
  BY <1>2, <1>3, <1>4, <1>5, <1>6, <1>7, <1>8, <1>9, <1>10, <1>11
     DEF Ping!Next, Ping!PingClient, Ping!PingServer

LEMMA PingTypedFirst == Ping!Init => PingTypes
<1>. SUFFICES ASSUME Ping!Init PROVE PingTypes
  OBVIOUS
<1>1. /\ pingClientAt = "select" /\ timeout = KeepAliveTime /\ heartbeats = 0 /\ typed = FALSE
      /\ silence = 0 /\ pingServerAt = "read" /\ nap = 0 /\ sleeping_time \in SleepingTimes
      /\ pings = 0 /\ pongs = 0
  BY DEF Ping!Init
<1>2. timeout \in (0 .. KeepAliveTime) \union (0 .. KeepAliveInterval) /\ nap \in 0 .. sleeping_time
  BY <1>1, NumbersAssumption, BoundsAssumption
<1>3. heartbeats \in 0 .. ProbeTimes + 1 /\ heartbeats <= ProbeTimes
  BY <1>1, NumbersAssumption, BoundsAssumption
<1>4. silence \in 0 .. Ping!PatienceTime + 1 /\ pings \in 0 .. MaxWaiting /\ pongs \in 0 .. MaxWaiting
  BY <1>1, NumbersAssumption, BoundsAssumption, PatienceIsTime
<1>. QED
  BY <1>1, <1>2, <1>3, <1>4 DEF PingTypes, Ping!PingTypeOK

\* A run has nothing to undo until it has taken the permit, and nothing owed while
\* it sleeps with it, although SETVAL forgets what it has.
UndoTypes ==
  /\ runAt \in [Runs -> Places] /\ value \in Nat /\ undo \in [Runs -> -1 .. 1]
  /\ \A r \in Runs :
       /\ runAt[r] \in {"get", "create", "again", "setval", "P", "blocked"} => undo[r] = 0
       /\ runAt[r] = "sleep" => undo[r] \in 0 .. 1

SemTypes == Sem!SemTypeOK /\ UndoTypes

\* What Settle makes of places and adjustments of the right types.
LEMMA SettleTypes ==
  ASSUME SemTypes, NEW r \in Runs,
         NEW at \in [Runs -> Places], at[r] \in {"P", "destroy", "end"},
         \A q \in Runs \ {r} : at[q] = runAt[q],
         NEW adj \in [Runs -> -1 .. 1], NEW v \in Nat,
         \A q \in Runs \ {r} : adj[q] \in {0, undo[q]},
         at[r] = "P" => adj[r] = 0,
         runAt[r] = "blocked" => adj[r] = 0,
         Sem!Settle(at, adj, v)
  PROVE  UndoTypes'
<1>1. /\ runAt \in [Runs -> Places] /\ undo \in [Runs -> -1 .. 1]
  BY DEF SemTypes, UndoTypes
<1>2. \A q \in Runs :
        /\ at[q] \in {"get", "create", "again", "setval", "P", "blocked"} => adj[q] = 0
        /\ at[q] = "sleep" => adj[q] \in 0 .. 1
  BY <1>1 DEF SemTypes, UndoTypes
<1>3. CASE runAt' = at /\ undo' = adj /\ value' = v
  BY <1>2, <1>3 DEF UndoTypes
<1>4. ASSUME v > 0,
             NEW w \in Sem!Blocked, runAt' = [at EXCEPT ![w] = "sleep"],
             undo' = [adj EXCEPT ![w] = @ + 1], value' = v - 1
      PROVE  UndoTypes'
  <2>1. w \in Runs /\ runAt[w] = "blocked" /\ adj[w] = 0
    BY <1>4 DEF SemTypes, UndoTypes, Sem!Blocked
  <2>2. undo' \in [Runs -> -1 .. 1] /\ undo'[w] = 1 /\ \A q \in Runs \ {w} : undo'[q] = adj[q]
    BY <1>4, <2>1
  <2>3. runAt' \in [Runs -> Places] /\ runAt'[w] = "sleep" /\ \A q \in Runs \ {w} : runAt'[q] = at[q]
    BY <1>4, <2>1 DEF Places
  <2>4. value' \in Nat
    BY <1>4
  <2>. QED
    BY <1>2, <2>2, <2>3, <2>4 DEF UndoTypes
<1>. QED
  BY <1>3, <1>4 DEF Sem!Settle

LEMMA SemTyped == SemTypes /\ [Sem!Next]_semVars => SemTypes'
<1>. SUFFICES ASSUME SemTypes, [Sem!Next]_semVars PROVE SemTypes'
  OBVIOUS
<1>1. CASE UNCHANGED semVars
  BY <1>1 DEF SemTypes, UndoTypes, Sem!SemTypeOK, semVars
<1>2. ASSUME Sem!Next PROVE SemTypes'
  <2>1. PICK r \in Runs : Sem!Goes(r) \/ Sem!Killed(r)
    BY <1>2 DEF Sem!Next
  <2>2. /\ runAt \in [Runs -> Places] /\ undo \in [Runs -> -1 .. 1] /\ value \in Nat
        /\ sem_id \in [Runs -> Runs \union {NoSet}] /\ current \in Runs \union {NoSet}
        /\ isSet \in BOOLEAN
    BY DEF SemTypes, UndoTypes, Sem!SemTypeOK, Places
  <2>3. CASE Sem!Get(r) \/ Sem!Create(r)
    <3>1. PICK place \in Places \ {"sleep"} :
            runAt' = [runAt EXCEPT ![r] = place] /\ undo[r] = 0 /\ undo' = undo
      BY <2>3 DEF SemTypes, UndoTypes, Places, Sem!Get, Sem!Create, Sem!Make, Sem!Find, Sem!Goto
    <3>2. /\ sem_id' \in [Runs -> Runs \union {NoSet}] /\ current' \in Runs \union {NoSet}
          /\ isSet' \in BOOLEAN /\ value' \in {0, value} /\ class' = class
      BY <2>2, <2>3 DEF Sem!Get, Sem!Create, Sem!Make, Sem!Find, Sem!Goto
    <3>3. /\ runAt' \in [Runs -> Places] /\ runAt'[r] # "sleep"
          /\ \A q \in Runs \ {r} : runAt'[q] = runAt[q]
      BY <2>2, <3>1 DEF Places
    <3>. QED
      BY <2>2, <3>1, <3>2, <3>3 DEF SemTypes, UndoTypes, Sem!SemTypeOK, Places
  <2>4. CASE Sem!SetVal(r)
    <3>1. class' = class /\ sem_id' = sem_id /\ current' = current /\ isSet' \in BOOLEAN /\ runAt[r] = "setval"
      BY <2>2, <2>4 DEF Sem!SetVal
    <3>2. CASE Sem!Settle([runAt EXCEPT ![r] = "P"], [q \in Runs |-> 0], 1)
      <4>1. PICK at, adj : at = [runAt EXCEPT ![r] = "P"] /\ adj = [q \in Runs |-> 0]
        OBVIOUS
      <4>2. adj \in [Runs -> -1 .. 1] /\ \A q \in Runs : adj[q] = 0
        BY <4>1
      <4>3. Sem!Settle(at, adj, 1)
        BY <3>2, <4>1
      <4>4. at \in [Runs -> Places] /\ at[r] = "P" /\ \A q \in Runs \ {r} : at[q] = runAt[q]
        BY <2>2, <4>1 DEF Places
      <4>5. UndoTypes'
        BY <4>2, <4>3, <4>4, SettleTypes
      <4>. QED
        BY <2>2, <3>1, <4>5 DEF SemTypes, UndoTypes, Sem!SemTypeOK, Places
    <3>3. CASE Sem!Goto(r, "end") /\ UNCHANGED <<value, undo, isSet>>
      BY <2>2, <3>1, <3>3 DEF SemTypes, UndoTypes, Sem!SemTypeOK, Sem!Goto, Places
    <3>. QED
      BY <2>4, <3>2, <3>3 DEF Sem!SetVal
  <2>5. CASE Sem!P(r)
    <3>1. undo[r] = 0
      BY <2>5 DEF SemTypes, UndoTypes, Sem!P
    <3>2. CASE value > 0 /\ value' = value - 1 /\ undo' = [undo EXCEPT ![r] = @ + 1] /\ Sem!Goto(r, "sleep")
      <4>1. undo' \in [Runs -> -1 .. 1] /\ undo'[r] = 1 /\ \A q \in Runs \ {r} : undo'[q] = undo[q]
        BY <2>2, <3>1, <3>2
      <4>2. /\ runAt' \in [Runs -> Places] /\ runAt'[r] = "sleep"
            /\ \A q \in Runs \ {r} : runAt'[q] = runAt[q]
        BY <2>2, <3>2 DEF Places, Sem!Goto
      <4>3. value' \in Nat
        BY <2>2, <3>2
      <4>. QED
        BY <2>2, <2>5, <4>1, <4>2, <4>3 DEF SemTypes, UndoTypes, Sem!SemTypeOK, Sem!P, Places
    <3>3. CASE UNCHANGED <<value, undo>> /\ (Sem!Goto(r, "blocked") \/ Sem!Goto(r, "end"))
      BY <2>2, <2>5, <3>1, <3>3 DEF SemTypes, UndoTypes, Sem!SemTypeOK, Sem!P, Sem!Goto, Places
    <3>. QED
      BY <2>5, <3>2, <3>3 DEF Sem!P
  <2>6. CASE Sem!V(r)
    <3>1. class' = class /\ sem_id' = sem_id /\ current' = current /\ isSet' = isSet /\ undo[r] \in 0 .. 1
      BY <2>6 DEF SemTypes, UndoTypes, Sem!V
    <3>2. CASE Sem!Settle([runAt EXCEPT ![r] = "destroy"], [undo EXCEPT ![r] = @ - 1], value + 1)
      <4>1. PICK at, adj : at = [runAt EXCEPT ![r] = "destroy"] /\ adj = [undo EXCEPT ![r] = @ - 1]
        OBVIOUS
      <4>2. adj \in [Runs -> -1 .. 1] /\ \A q \in Runs \ {r} : adj[q] = undo[q]
        BY <2>2, <3>1, <4>1
      <4>3. Sem!Settle(at, adj, value + 1) /\ value + 1 \in Nat /\ runAt[r] = "sleep"
        BY <2>2, <2>6, <3>2, <4>1 DEF Sem!V
      <4>4. at \in [Runs -> Places] /\ at[r] = "destroy" /\ \A q \in Runs \ {r} : at[q] = runAt[q]
        BY <2>2, <4>1 DEF Places
      <4>5. UndoTypes'
        BY <4>2, <4>3, <4>4, SettleTypes
      <4>. QED
        BY <2>2, <3>1, <4>5 DEF SemTypes, UndoTypes, Sem!SemTypeOK, Places
    <3>3. CASE Sem!Goto(r, "end") /\ UNCHANGED <<value, undo>>
      BY <2>2, <3>1, <3>3 DEF SemTypes, UndoTypes, Sem!SemTypeOK, Sem!Goto, Places
    <3>. QED
      BY <2>6, <3>2, <3>3 DEF Sem!V
  <2>7. CASE Sem!Destroy(r)
    <3>1. CASE undo' = [q \in Runs |-> 0] /\ value' = 0 /\ current' = NoSet /\ isSet' = FALSE
               /\ runAt' = [q \in Runs |-> IF q = r \/ q \in Sem!Blocked THEN "end" ELSE runAt[q]]
      <4>1. \A q \in Runs : undo'[q] = 0 /\ undo'[q] \in 0 .. 1
        BY <3>1
      <4>2. undo' \in [Runs -> -1 .. 1] /\ runAt' \in [Runs -> Places]
        BY <2>2, <3>1 DEF Places
      <4>. QED
        BY <2>2, <2>7, <3>1, <4>1, <4>2 DEF SemTypes, UndoTypes, Sem!SemTypeOK, Sem!Destroy, Places
    <3>2. CASE Sem!Goto(r, "end") /\ UNCHANGED <<current, value, undo, isSet>>
      BY <2>2, <2>7, <3>2 DEF SemTypes, UndoTypes, Sem!SemTypeOK, Sem!Destroy, Sem!Goto, Places
    <3>. QED
      BY <2>7, <3>1, <3>2 DEF Sem!Destroy
  <2>8. CASE Sem!Killed(r)
    <3>1. class' = class /\ sem_id' = sem_id /\ current' = current /\ isSet' = isSet
      BY <2>8 DEF Sem!Killed
    <3>2. PICK at, adj, v : /\ at = [runAt EXCEPT ![r] = "end"] /\ adj = [undo EXCEPT ![r] = 0]
                            /\ v = IF value + undo[r] < 0 THEN 0 ELSE value + undo[r]
      OBVIOUS
    <3>3. adj \in [Runs -> -1 .. 1] /\ adj[r] = 0 /\ (\A q \in Runs \ {r} : adj[q] = undo[q]) /\ v \in Nat
      <4>1. undo[r] \in -1 .. 1
        BY <2>2
      <4>2. v \in Nat
        BY <2>2, <3>2, <4>1
      <4>. QED
        BY <2>2, <3>2, <4>2
    <3>4. Sem!Settle(at, adj, v)
      BY <2>8, <3>2 DEF Sem!Killed
    <3>5. at \in [Runs -> Places] /\ at[r] = "end" /\ \A q \in Runs \ {r} : at[q] = runAt[q]
      BY <2>2, <3>2 DEF Places
    <3>6. UndoTypes'
      BY <3>3, <3>4, <3>5, SettleTypes
    <3>. QED
      BY <2>2, <3>1, <3>6 DEF SemTypes, UndoTypes, Sem!SemTypeOK, Places
  <2>. QED
    BY <2>1, <2>3, <2>4, <2>5, <2>6, <2>7, <2>8 DEF Sem!Goes
<1>. QED
  BY <1>1, <1>2

LEMMA SemTypedFirst == Sem!Init => SemTypes
<1>. SUFFICES ASSUME Sem!Init PROVE SemTypes
  OBVIOUS
<1>1. /\ class \in {"TwoSemaphore", "SimpleTwoSemaphore"} /\ runAt = [r \in Runs |-> "get"]
      /\ sem_id = [r \in Runs |-> NoSet] /\ current = NoSet /\ value = 0 /\ isSet = FALSE
      /\ undo = [r \in Runs |-> 0]
  BY DEF Sem!Init
<1>2. undo \in [Runs -> -1 .. 1] /\ (\A r \in Runs : undo[r] = 0 /\ runAt[r] = "get") /\ value \in Nat
  BY <1>1
<1>3. runAt \in [Runs -> Places] /\ sem_id \in [Runs -> Runs \union {NoSet}]
  BY <1>1 DEF Places
<1>. QED
  BY <1>1, <1>2, <1>3 DEF SemTypes, UndoTypes, Sem!SemTypeOK, Places

\* Of what a client has sent, some has been sent back, some is in the server's
\* buffer, and some has not been read.
SharesInv ==
  /\ epollAt \in {"read", "write"} => processing_fd \in Callers
  /\ \A c \in Callers :
       returned[c] + waiting[c] + (IF epollAt = "write" /\ processing_fd = c THEN read_size ELSE 0)
         <= called[c]

EpollTypes == Epoll!EpollTypeOK /\ SharesInv

LEMMA EpollCounts ==
  ASSUME NEW S, IsFiniteSet(S)
  PROVE  Epoll!Cardinality(S) = Cardinality(S)
BY DEF Epoll!Cardinality, Cardinality

\* A function has no more values than arguments.
LEMMA ValuesCount ==
  ASSUME NEW S, IsFiniteSet(S), NEW f, f = [x \in S |-> f[x]]
  PROVE  /\ IsFiniteSet({f[x] : x \in S})
         /\ Cardinality({f[x] : x \in S}) <= Cardinality(S)
<1>1. f \in Surjection(S, {f[x] : x \in S})
  BY DEF Surjection
<1>. QED
  BY <1>1, FS_Surjection

\* An event for each descriptor that is reported, and one fewer when one is handled.
LEMMA EventsFit ==
  ASSUME NEW S \in SUBSET Epoll!Fds, Epoll!Cardinality(S) <= MaxEvents
  PROVE  Epoll!Cardinality({Epoll!EventOf(f) : f \in S}) <= MaxEvents
<1>. DEFINE Event == [f \in S |-> Epoll!EventOf(f)]
            E == {Event[f] : f \in S}
<1>1. IsFiniteSet(Epoll!Fds)
  BY BoundsAssumption, FS_AddElement DEF Epoll!Fds
<1>2. IsFiniteSet(S) /\ Cardinality(S) \in Nat
  BY <1>1, FS_Subset, FS_CardinalityType
<1>3. IsFiniteSet(E) /\ Cardinality(E) <= Cardinality(S)
  <2>1. Event = [f \in S |-> Event[f]]
    OBVIOUS
  <2>. HIDE DEF Event
  <2>. QED
    BY <1>2, <2>1, ValuesCount
<1>4. Cardinality(E) \in Nat
  BY <1>3, FS_CardinalityType
<1>5. Epoll!Cardinality(S) = Cardinality(S) /\ Epoll!Cardinality(E) = Cardinality(E)
  BY <1>2, <1>3, EpollCounts
<1>6. Epoll!Cardinality(E) <= MaxEvents
  BY <1>2, <1>3, <1>4, <1>5, BoundsAssumption
<1>7. E = {Epoll!EventOf(f) : f \in S}
  OBVIOUS
<1>. QED
  BY <1>6, <1>7

LEMMA EventsFewer ==
  ASSUME events \subseteq Epoll!Events, Epoll!Cardinality(events) <= MaxEvents,
         NEW E \in SUBSET events
  PROVE  Epoll!Cardinality(E) <= MaxEvents
<1>1. IsFiniteSet(Epoll!Fds) /\ IsFiniteSet(BOOLEAN)
  <2>1. BOOLEAN = ({} \union {TRUE}) \union {FALSE}
    OBVIOUS
  <2>2. IsFiniteSet(({} \union {TRUE}) \union {FALSE})
    BY ONLY FS_EmptySet, FS_AddElement, Zenon
  <2>. QED
    BY <2>1, <2>2, BoundsAssumption, FS_AddElement DEF Epoll!Fds
<1>2. IsFiniteSet(Epoll!Fds \X BOOLEAN)
  BY <1>1, FS_Product
<1>. DEFINE Pairs == Epoll!Fds \X BOOLEAN
            Pack  == [p \in Pairs |-> [fd |-> p[1], failed |-> p[2]]]
<1>3. events \subseteq {Pack[p] : p \in Pairs}
  <2>1. SUFFICES ASSUME NEW e \in events PROVE e \in {Pack[p] : p \in Pairs}
    OBVIOUS
  <2>2. e.fd \in Epoll!Fds /\ e.failed \in BOOLEAN /\ e = [fd |-> e.fd, failed |-> e.failed]
    BY DEF Epoll!Events
  <2>3. <<e.fd, e.failed>> \in Pairs /\ Pack[<<e.fd, e.failed>>] = e
    BY <2>2
  <2>. QED
    BY <2>3
<1>4. IsFiniteSet({Pack[p] : p \in Pairs})
  <2>1. Pack = [p \in Pairs |-> Pack[p]]
    OBVIOUS
  <2>. HIDE DEF Pack
  <2>. QED
    BY <1>2, <2>1, ValuesCount
<1>5. IsFiniteSet(events)
  BY <1>3, <1>4, FS_Subset
<1>6. IsFiniteSet(E) /\ Cardinality(E) <= Cardinality(events)
  BY <1>5, FS_Subset
<1>7. Cardinality(E) \in Nat /\ Cardinality(events) \in Nat
  BY <1>5, <1>6, FS_CardinalityType
<1>. QED
  BY <1>5, <1>6, <1>7, EpollCounts, BoundsAssumption

LEMMA EpollTyped == EpollTypes /\ [Epoll!Next]_epollVars => EpollTypes'
<1>. SUFFICES ASSUME EpollTypes, [Epoll!Next]_epollVars PROVE EpollTypes'
  OBVIOUS
<1>1. CASE UNCHANGED epollVars
  BY <1>1 DEF EpollTypes, SharesInv, Epoll!EpollTypeOK, epollVars
<1>2. /\ epollAt \in {"wait", "events", "read", "write", "exit"}
      /\ ready \subseteq Epoll!Fds /\ events \subseteq Epoll!Events
      /\ Epoll!Cardinality(events) <= MaxEvents
      /\ processing_fd \in Epoll!Fds /\ read_size \in 0 .. ReadSize
      /\ epollBacklog \subseteq Callers
      /\ link \in [Callers -> {"none", "waiting", "open", "closed"}]
      /\ hangs \in [Callers -> {"no", "fin", "rst", "both"}]
      /\ called \in [Callers -> 0 .. MaxCalled]
      /\ waiting \in [Callers -> 0 .. MaxCalled]
      /\ returned \in [Callers -> 0 .. MaxCalled]
      /\ epollAt \in {"read", "write"} => processing_fd \in Callers
  BY DEF EpollTypes, SharesInv, Epoll!EpollTypeOK
<1>3. \A c \in Callers :
        returned[c] + waiting[c]
          + (IF epollAt = "write" /\ processing_fd = c THEN read_size ELSE 0) <= called[c]
  BY DEF EpollTypes, SharesInv
<1>4. MaxEvents \in Nat /\ ReadSize \in Nat /\ MaxCalled \in Nat /\ ServerFd \notin Callers
  BY BoundsAssumption, NobodyAssumption
<1>. USE DEF Epoll!callerVars
<1>. DEFINE Counts == UNCHANGED <<read_size, hangs, called, waiting, returned>>
\* What an action that leaves the bytes alone has to show.
<1>5. ASSUME Counts,
             epollAt' \in {"wait", "events", "read", "exit"}, epollAt # "write",
             ready' \subseteq Epoll!Fds, events' \subseteq Epoll!Events,
             Epoll!Cardinality(events') <= MaxEvents, processing_fd' \in Epoll!Fds,
             epollBacklog' \subseteq Callers,
             link' \in [Callers -> {"none", "waiting", "open", "closed"}],
             epollAt' = "read" => processing_fd' \in Callers
      PROVE  EpollTypes'
  BY <1>2, <1>3, <1>5 DEF EpollTypes, SharesInv, Epoll!EpollTypeOK
<1>6. CASE Epoll!EpollWait
  <2>1. PICK reported \in SUBSET {f \in ready : Epoll!Happened(f)} :
          /\ Epoll!Cardinality(reported) <= MaxEvents
          /\ events' = {Epoll!EventOf(f) : f \in reported}
          /\ ready' = {f \in ready : Epoll!Happened(f)} \ reported
    BY <1>6 DEF Epoll!EpollWait
  <2>2. reported \in SUBSET Epoll!Fds
    BY <1>2, <2>1
  <2>3. Epoll!Cardinality(events') <= MaxEvents
    BY <2>1, <2>2, EventsFit
  <2>4. \A f \in Epoll!Fds : Epoll!EventOf(f) \in Epoll!Events
    BY DEF Epoll!EventOf, Epoll!Events
  <2>5. events' \subseteq Epoll!Events /\ ready' \subseteq Epoll!Fds
    BY <1>2, <2>1, <2>2, <2>4
  <2>6. /\ epollAt = "wait" /\ epollAt' = "events"
        /\ UNCHANGED <<processing_fd, epollBacklog, link>> /\ Counts
    BY <1>6 DEF Epoll!EpollWait
  <2>. QED
    BY <1>2, <1>5, <2>3, <2>5, <2>6
<1>7. CASE Epoll!AllHandled
  <2>1. /\ epollAt = "events" /\ epollAt' = "wait"
        /\ UNCHANGED <<ready, events, processing_fd, epollBacklog, link>> /\ Counts
    BY <1>7 DEF Epoll!AllHandled
  <2>. QED
    BY <1>2, <1>5, <2>1
<1>8. CASE Epoll!Failed
  <2>1. PICK e \in events : events' = events \ {e} /\ Epoll!Close(e.fd)
    BY <1>8 DEF Epoll!Failed
  <2>2. Epoll!Cardinality(events') <= MaxEvents /\ events' \subseteq Epoll!Events
    BY <1>2, <2>1, EventsFewer
  <2>3. ready' \subseteq Epoll!Fds /\ link' \in [Callers -> {"none", "waiting", "open", "closed"}]
    BY <1>2, <2>1 DEF Epoll!Close
  <2>4. epollAt = "events" /\ UNCHANGED <<epollAt, processing_fd, epollBacklog>> /\ Counts
    BY <1>8 DEF Epoll!Failed
  <2>. QED
    BY <1>2, <1>5, <2>2, <2>3, <2>4
<1>9. CASE Epoll!Accept
  <2>1. PICK c \in epollBacklog :
          /\ epollBacklog' = epollBacklog \ {c} /\ link' = [link EXCEPT ![c] = "open"]
          /\ ready' = IF Epoll!Arrived(c) THEN ready \union {c} ELSE ready
    BY <1>9 DEF Epoll!Accept
  <2>2. c \in Callers /\ c \in Epoll!Fds
    BY <1>2 DEF Epoll!Fds
  <2>3. /\ ready' \subseteq Epoll!Fds /\ epollBacklog' \subseteq Callers
        /\ link' \in [Callers -> {"none", "waiting", "open", "closed"}]
    BY <1>2, <2>1, <2>2
  <2>4. /\ epollAt = "events" /\ events' \subseteq events
        /\ UNCHANGED <<epollAt, processing_fd>> /\ Counts
    BY <1>9 DEF Epoll!Accept
  <2>5. Epoll!Cardinality(events') <= MaxEvents /\ events' \subseteq Epoll!Events
    BY <1>2, <2>4, EventsFewer
  <2>. QED
    BY <1>2, <1>5, <2>3, <2>4, <2>5
<1>10. CASE Epoll!Process
  <2>1. PICK e \in events : e.fd # ServerFd /\ events' = events \ {e} /\ processing_fd' = e.fd
    BY <1>10 DEF Epoll!Process
  <2>2. processing_fd' \in Callers /\ processing_fd' \in Epoll!Fds
    BY <1>2, <2>1 DEF Epoll!Events, Epoll!Fds
  <2>3. Epoll!Cardinality(events') <= MaxEvents /\ events' \subseteq Epoll!Events
    BY <1>2, <2>1, EventsFewer
  <2>4. /\ epollAt = "events" /\ epollAt' = "read"
        /\ UNCHANGED <<ready, epollBacklog, link>> /\ Counts
    BY <1>10 DEF Epoll!Process
  <2>. QED
    BY <1>2, <1>5, <2>2, <2>3, <2>4
<1>11. CASE Epoll!ReadNothing
  <2>1. ready' \subseteq Epoll!Fds /\ link' \in [Callers -> {"none", "waiting", "open", "closed"}]
    BY <1>2, <1>11 DEF Epoll!ReadNothing, Epoll!Close
  <2>2. /\ epollAt = "read" /\ epollAt' \in {"events", "exit"}
        /\ UNCHANGED <<events, processing_fd, epollBacklog>> /\ Counts
    BY <1>11 DEF Epoll!ReadNothing
  <2>. QED
    BY <1>2, <1>5, <2>1, <2>2
<1>12. CASE \E c \in Callers : Epoll!Arrive(c) \/ Epoll!HangUp(c)
  <2>1. PICK c \in Callers : Epoll!Arrive(c) \/ Epoll!HangUp(c)
    BY <1>12
  <2>2. c \in Epoll!Fds /\ ServerFd \in Epoll!Fds
    BY DEF Epoll!Fds
  <2>3. /\ ready' \subseteq Epoll!Fds /\ epollBacklog' \subseteq Callers
        /\ link' \in [Callers -> {"none", "waiting", "open", "closed"}]
        /\ hangs' \in [Callers -> {"no", "fin", "rst", "both"}]
    <3>1. CASE Epoll!Arrive(c)
      BY <1>2, <2>2, <3>1 DEF Epoll!Arrive
    <3>2. CASE Epoll!HangUp(c)
      BY <1>2, <2>2, <3>2 DEF Epoll!HangUp, Epoll!Edge
    <3>. QED
      BY <2>1, <3>1, <3>2
  <2>4. UNCHANGED <<epollAt, events, processing_fd, read_size, called, waiting, returned>>
    BY <2>1 DEF Epoll!Arrive, Epoll!HangUp
  <2>5. SharesInv'
    BY <1>2, <1>3, <2>4 DEF SharesInv
  <2>. QED
    BY <1>2, <2>3, <2>4, <2>5 DEF EpollTypes, Epoll!EpollTypeOK
<1>13. ASSUME NEW c \in Callers, Epoll!Call(c) PROVE EpollTypes'
  <2>1. /\ called[c] < MaxCalled /\ called' = [called EXCEPT ![c] = @ + 1]
        /\ waiting' = [waiting EXCEPT ![c] = @ + 1]
        /\ UNCHANGED <<epollAt, events, processing_fd, read_size, epollBacklog, link, hangs, returned>>
    BY <1>13 DEF Epoll!Call
  <2>2. ready' \subseteq Epoll!Fds
    BY <1>2, <1>13 DEF Epoll!Call, Epoll!Edge, Epoll!Fds
  <2>3. called[c] \in 0 .. MaxCalled /\ waiting[c] \in Nat /\ returned[c] \in Nat /\ read_size \in Nat
    BY <1>2, <1>4
  <2>4. waiting[c] <= called[c]
    BY <1>3, <2>3
  <2>5. called[c] + 1 \in 0 .. MaxCalled /\ waiting[c] + 1 \in 0 .. MaxCalled
    BY <1>4, <2>1, <2>3, <2>4
  <2>6. called' \in [Callers -> 0 .. MaxCalled] /\ waiting' \in [Callers -> 0 .. MaxCalled]
    BY <1>2, <2>1, <2>5
  <2>7. /\ called'[c] = called[c] + 1 /\ waiting'[c] = waiting[c] + 1
        /\ \A d \in Callers \ {c} : called'[d] = called[d] /\ waiting'[d] = waiting[d]
    BY <1>2, <2>1
  <2>8. SharesInv'
    <3>1. ASSUME NEW d \in Callers
          PROVE  returned'[d] + waiting'[d]
                   + (IF epollAt' = "write" /\ processing_fd' = d THEN read_size' ELSE 0) <= called'[d]
      <4>1. CASE d = c
        BY <1>3, <2>1, <2>3, <2>7, <4>1
      <4>2. CASE d # c
        BY <1>3, <2>1, <2>7, <4>2
      <4>. QED
        BY <4>1, <4>2
    <3>. QED
      BY <1>2, <2>1, <3>1 DEF SharesInv
  <2>. QED
    BY <1>2, <2>1, <2>2, <2>6, <2>8 DEF EpollTypes, Epoll!EpollTypeOK
<1>14. CASE Epoll!Read
  <2>1. /\ epollAt = "read" /\ waiting[processing_fd] > 0
        /\ read_size' = IF waiting[processing_fd] < ReadSize THEN waiting[processing_fd] ELSE ReadSize
        /\ waiting' = [waiting EXCEPT ![processing_fd] = @ - read_size'] /\ epollAt' = "write"
        /\ UNCHANGED <<ready, events, processing_fd, epollBacklog, link, hangs, called, returned>>
    BY <1>14 DEF Epoll!Read
  <2>2. processing_fd \in Callers /\ waiting[processing_fd] \in 0 .. MaxCalled
    BY <1>2, <2>1
  <2>3. read_size' \in 0 .. ReadSize /\ waiting[processing_fd] - read_size' \in 0 .. MaxCalled
    BY <1>4, <2>1, <2>2
  <2>4. /\ waiting' \in [Callers -> 0 .. MaxCalled]
        /\ waiting'[processing_fd] = waiting[processing_fd] - read_size'
        /\ \A d \in Callers \ {processing_fd} : waiting'[d] = waiting[d]
    BY <1>2, <2>1, <2>2, <2>3
  <2>5. ASSUME NEW d \in Callers
        PROVE  returned'[d] + waiting'[d]
                 + (IF epollAt' = "write" /\ processing_fd' = d THEN read_size' ELSE 0) <= called'[d]
    <3>1. returned[d] \in Nat /\ waiting[d] \in Nat /\ called[d] \in Nat
      BY <1>2, <1>4
    <3>2. CASE d = processing_fd
      BY <1>3, <2>1, <2>3, <2>4, <3>1, <3>2
    <3>3. CASE d # processing_fd
      BY <1>3, <2>1, <2>4, <3>1, <3>3
    <3>. QED
      BY <3>2, <3>3
  <2>6. SharesInv'
    BY <2>1, <2>2, <2>5 DEF SharesInv
  <2>. QED
    BY <1>2, <2>1, <2>3, <2>4, <2>6 DEF EpollTypes, Epoll!EpollTypeOK
<1>15. CASE Epoll!Write
  <2>1. PICK n \in 1 .. read_size : returned' = [returned EXCEPT ![processing_fd] = @ + n]
    BY <1>15 DEF Epoll!Write
  <2>2. /\ epollAt = "write" /\ epollAt' = "read"
        /\ UNCHANGED <<ready, events, processing_fd, read_size, epollBacklog, link, hangs, called,
                       waiting>>
    BY <1>15 DEF Epoll!Write, Epoll!Again
  <2>3. processing_fd \in Callers
    BY <1>2, <2>2
  <2>4. /\ returned[processing_fd] \in Nat /\ waiting[processing_fd] \in Nat
        /\ called[processing_fd] \in 0 .. MaxCalled /\ read_size \in Nat
    BY <1>2, <1>4, <2>3
  <2>5. returned[processing_fd] + waiting[processing_fd] + read_size <= called[processing_fd]
    BY <1>3, <2>2, <2>3
  <2>6. n \in Nat /\ n <= read_size
    BY <2>1, <2>4
  <2>7. returned[processing_fd] + n \in 0 .. MaxCalled
    BY <1>4, <2>4, <2>5, <2>6
  <2>8. /\ returned' \in [Callers -> 0 .. MaxCalled]
        /\ returned'[processing_fd] = returned[processing_fd] + n
        /\ \A d \in Callers \ {processing_fd} : returned'[d] = returned[d]
    BY <1>2, <2>1, <2>3, <2>7
  <2>9. ASSUME NEW d \in Callers
        PROVE  returned'[d] + waiting'[d]
                 + (IF epollAt' = "write" /\ processing_fd' = d THEN read_size' ELSE 0) <= called'[d]
    <3>1. returned[d] \in Nat /\ waiting[d] \in Nat /\ called[d] \in Nat
      BY <1>2, <1>4
    <3>2. CASE d = processing_fd
      BY <2>2, <2>4, <2>5, <2>6, <2>8, <3>1, <3>2
    <3>3. CASE d # processing_fd
      BY <1>3, <2>2, <2>8, <3>1, <3>3
    <3>. QED
      BY <3>2, <3>3
  <2>10. SharesInv'
    BY <2>2, <2>3, <2>9 DEF SharesInv
  <2>. QED
    BY <1>2, <2>2, <2>8, <2>10 DEF EpollTypes, Epoll!EpollTypeOK
<1>16. CASE Epoll!WriteFails
  <2>1. /\ epollAt' = "exit"
        /\ UNCHANGED <<ready, events, processing_fd, read_size, epollBacklog, link, hangs, called,
                       waiting, returned>>
    BY <1>16 DEF Epoll!WriteFails
  <2>2. ASSUME NEW d \in Callers PROVE returned[d] + waiting[d] <= called[d]
    <3>1. returned[d] \in Nat /\ waiting[d] \in Nat /\ called[d] \in Nat /\ read_size \in Nat
      BY <1>2, <1>4
    <3>. QED
      BY <1>3, <3>1
  <2>3. ASSUME NEW d \in Callers
        PROVE  returned'[d] + waiting'[d]
                 + (IF epollAt' = "write" /\ processing_fd' = d THEN read_size' ELSE 0) <= called'[d]
    <3>1. returned[d] \in Nat /\ waiting[d] \in Nat /\ called[d] \in Nat
      BY <1>2, <1>4
    <3>. QED
      BY <2>1, <2>2, <3>1
  <2>4. SharesInv'
    BY <2>1, <2>3 DEF SharesInv
  <2>. QED
    BY <1>2, <2>1, <2>4 DEF EpollTypes, Epoll!EpollTypeOK
<1>17. ASSUME Epoll!Next PROVE EpollTypes'
  BY <1>6, <1>7, <1>8, <1>9, <1>10, <1>11, <1>12, <1>13, <1>14, <1>15, <1>16, <1>17
     DEF Epoll!Next, Epoll!EpollLoop
<1>. QED
  BY <1>1, <1>17

LEMMA EpollTypedFirst == Epoll!Init => EpollTypes
<1>. SUFFICES ASSUME Epoll!Init PROVE EpollTypes
  OBVIOUS
<1>1. /\ epollBacklog = {} /\ link = [c \in Callers |-> "none"] /\ epollAt = "wait"
      /\ ready = {} /\ events = {} /\ processing_fd = ServerFd /\ read_size = 0
      /\ hangs = [c \in Callers |-> "no"] /\ called = [c \in Callers |-> 0]
      /\ waiting = [c \in Callers |-> 0] /\ returned = [c \in Callers |-> 0]
  BY DEF Epoll!Init, Epoll!Listening
<1>2. Epoll!Cardinality(events) <= MaxEvents
  BY <1>1, FS_EmptySet, EpollCounts, BoundsAssumption
<1>3. 0 \in 0 .. ReadSize /\ 0 \in 0 .. MaxCalled
  BY BoundsAssumption
<1>4. processing_fd \in Epoll!Fds
  BY <1>1 DEF Epoll!Fds
<1>5. SharesInv
  BY <1>1 DEF SharesInv
<1>. QED
  BY <1>1, <1>2, <1>3, <1>4, <1>5 DEF EpollTypes, Epoll!EpollTypeOK

LEMMA PollCounts ==
  ASSUME NEW S, IsFiniteSet(S)
  PROVE  Polling!Cardinality(S) = Cardinality(S)
BY DEF Polling!Cardinality, Cardinality

\* What the loop counts with, and the bytes that are still to be read of those sent.
CountsInv ==
  /\ pollAt \in {"poll", "accept", "slots", "write", "exit"}
  /\ revents \subseteq 0 .. InitSize - 1
  /\ ready_count \in 0 .. InitSize /\ (pollAt = "accept" => ready_count # 0)
  /\ slot \in 0 .. InitSize /\ read_count \in 0 .. PollReadSize
  /\ wrote \in [Guests -> 0 .. MaxPolled] /\ pending \in [Guests -> 0 .. MaxPolled]
  /\ \A g \in Guests : pending[g] <= wrote[g]
  /\ parted \in [Guests -> {"no", "fin", "rst"}]

LEMMA PollTypes == PollInv /\ CountsInv => Polling!PollTypeOK
BY DEF PollInv, TableInv, CountsInv, Polling!PollTypeOK

LEMMA CountsStep == PollInv /\ CountsInv /\ [Polling!Next]_pollVars => CountsInv'
<1>. SUFFICES ASSUME PollInv, CountsInv, [Polling!Next]_pollVars PROVE CountsInv'
  OBVIOUS
<1>1. InitSize \in Nat \ {0} /\ PollReadSize \in Nat /\ MaxPolled \in Nat
  BY NumbersAssumption, BoundsAssumption
<1>2. CASE UNCHANGED pollVars
  BY <1>2 DEF CountsInv, pollVars
<1>. USE DEF Polling!guestVars, Polling!tableVars
\* The guest whose slot it is.
<1>3. ASSUME pollAt \in {"slots", "write"}, slot \in Polling!Slots, event_set[slot] # -1
      PROVE  Polling!Guest \in Guests
  BY <1>3 DEF PollInv, TableInv, Open, Polling!Guest
<1>4. CASE Polling!Poll
  <2>1. /\ pollAt' \in {"accept", "slots"} /\ slot' \in {0, 1}
        /\ revents' = {s \in Polling!Slots \ Polling!Free : Polling!HasNews(event_set[s])}
                        \union (IF queued # {} THEN {0} ELSE {})
        /\ revents' # {} /\ ready_count' = Polling!Cardinality(revents')
        /\ UNCHANGED <<read_count, wrote, pending, parted>>
    BY <1>4 DEF Polling!Poll
  <2>2. revents' \subseteq 0 .. InitSize - 1
    BY <1>1, <2>1 DEF Polling!Slots
  <2>3. IsFiniteSet(0 .. InitSize - 1) /\ Cardinality(0 .. InitSize - 1) = InitSize
    BY <1>1, FS_Interval
  <2>4. IsFiniteSet(revents') /\ Cardinality(revents') <= InitSize
    BY <2>2, <2>3, FS_Subset
  <2>5. Cardinality(revents') \in Nat /\ Cardinality(revents') # 0
    BY <2>1, <2>4, FS_CardinalityType, FS_EmptySet
  <2>6. ready_count' \in 0 .. InitSize /\ ready_count' # 0
    BY <1>1, <2>1, <2>4, <2>5, PollCounts
  <2>7. slot' \in 0 .. InitSize
    BY <1>1, <2>1
  <2>. QED
    BY <2>1, <2>2, <2>6, <2>7 DEF CountsInv
<1>5. CASE Polling!Accept
  <2>1. /\ pollAt = "accept" /\ ready_count' = ready_count - 1 /\ slot' = 1
        /\ pollAt' \in {"poll", "slots", "exit"}
        /\ UNCHANGED <<revents, read_count, wrote, parted, pending>>
    BY <1>5 DEF Polling!Accept
  <2>2. ready_count' \in 0 .. InitSize /\ slot' \in 0 .. InitSize
    BY <1>1, <2>1 DEF CountsInv
  <2>. QED
    BY <2>1, <2>2 DEF CountsInv
<1>6. CASE Polling!Skip \/ Polling!Close
  <2>1. /\ pollAt = "slots" /\ slot \in Polling!Slots /\ slot' = slot + 1
        /\ UNCHANGED <<pollAt, revents, ready_count, read_count, wrote, parted, pending>>
    BY <1>6 DEF Polling!Skip, Polling!Close
  <2>2. slot' \in 0 .. InitSize
    BY <1>1, <2>1 DEF Polling!Slots
  <2>. QED
    BY <2>1, <2>2 DEF CountsInv
<1>7. CASE Polling!RoundDone
  <2>1. /\ pollAt' = "poll" /\ slot' = 0 /\ revents' = {} /\ ready_count' = 0
        /\ UNCHANGED <<read_count, wrote, parted, pending>>
    BY <1>7 DEF Polling!RoundDone
  <2>2. 0 \in 0 .. InitSize
    BY <1>1
  <2>. QED
    BY <2>1, <2>2 DEF CountsInv
<1>8. CASE Polling!Read
  <2>1. /\ pollAt = "slots" /\ slot \in Polling!Slots /\ event_set[slot] # -1
        /\ read_count' = IF pending[Polling!Guest] < PollReadSize THEN pending[Polling!Guest]
                         ELSE PollReadSize
        /\ pending' = [pending EXCEPT ![Polling!Guest] = @ - read_count'] /\ pollAt' = "write"
        /\ UNCHANGED <<revents, ready_count, slot, wrote, parted>>
    BY <1>8 DEF Polling!Read, Polling!ToRead
  <2>2. PICK g \in Guests : g = Polling!Guest
    BY <1>3, <2>1
  <2>3. pending[g] \in 0 .. MaxPolled /\ wrote[g] \in Nat /\ pending[g] <= wrote[g]
    BY <1>1 DEF CountsInv
  <2>4. read_count' \in 0 .. PollReadSize /\ read_count' <= pending[g]
    BY <1>1, <2>1, <2>2, <2>3
  <2>5. pending[g] - read_count' \in 0 .. MaxPolled /\ pending[g] - read_count' <= wrote[g]
    BY <1>1, <2>3, <2>4
  <2>6. pending' \in [Guests -> 0 .. MaxPolled]
    BY <2>1, <2>2, <2>5 DEF CountsInv
  <2>7. \A h \in Guests : pending'[h] <= wrote'[h]
    BY <2>1, <2>2, <2>5 DEF CountsInv
  <2>. QED
    BY <2>1, <2>4, <2>6, <2>7 DEF CountsInv
<1>9. CASE Polling!Write
  <2>1. /\ pollAt = "write" /\ pollAt' \in {"exit", "slots"} /\ slot' \in {slot, slot + 1}
        /\ UNCHANGED <<revents, ready_count, read_count, wrote, parted, pending>>
    BY <1>9 DEF Polling!Write
  <2>2. slot \in Polling!Slots
    BY <2>1 DEF PollInv, NewsInv
  <2>3. slot' \in 0 .. InitSize
    BY <1>1, <2>1, <2>2 DEF Polling!Slots
  <2>. QED
    BY <2>1, <2>3 DEF CountsInv
<1>10. ASSUME NEW g \in Guests, Polling!Come(g) PROVE CountsInv'
  BY <1>10 DEF Polling!Come, CountsInv
<1>11. ASSUME NEW g \in Guests, Polling!SendLine(g) PROVE CountsInv'
  <2>1. /\ wrote[g] < MaxPolled /\ wrote' = [wrote EXCEPT ![g] = @ + 1]
        /\ pending' = [pending EXCEPT ![g] = @ + 1]
        /\ UNCHANGED <<pollAt, revents, ready_count, slot, read_count, parted>>
    BY <1>11 DEF Polling!SendLine
  <2>2. wrote[g] \in Nat /\ pending[g] \in Nat /\ pending[g] <= wrote[g]
    BY <1>1 DEF CountsInv
  <2>3. wrote[g] + 1 \in 0 .. MaxPolled /\ pending[g] + 1 \in 0 .. MaxPolled
    BY <1>1, <2>1, <2>2
  <2>4. wrote' \in [Guests -> 0 .. MaxPolled] /\ pending' \in [Guests -> 0 .. MaxPolled]
    BY <2>1, <2>3 DEF CountsInv
  <2>5. \A h \in Guests : wrote'[h] = (IF h = g THEN wrote[h] + 1 ELSE wrote[h])
                          /\ pending'[h] = (IF h = g THEN pending[h] + 1 ELSE pending[h])
    BY <2>1 DEF CountsInv
  <2>6. \A h \in Guests : pending'[h] <= wrote'[h]
    BY <2>2, <2>5 DEF CountsInv
  <2>. QED
    BY <2>1, <2>4, <2>6 DEF CountsInv
<1>12. ASSUME NEW g \in Guests, Polling!Part(g) PROVE CountsInv'
  <2>1. parted' \in [Guests -> {"no", "fin", "rst"}]
    BY <1>12 DEF Polling!Part, CountsInv
  <2>2. UNCHANGED <<pollAt, revents, ready_count, slot, read_count, wrote, pending>>
    BY <1>12 DEF Polling!Part
  <2>. QED
    BY <2>1, <2>2 DEF CountsInv
<1>. QED
  BY <1>2, <1>4, <1>5, <1>6, <1>7, <1>8, <1>9, <1>10, <1>11, <1>12 DEF Polling!Next, Polling!PollLoop

LEMMA CountsInit == Polling!Init => CountsInv
<1>. SUFFICES ASSUME Polling!Init PROVE CountsInv
  OBVIOUS
<1>1. /\ pollAt = "poll" /\ revents = {} /\ ready_count = 0 /\ slot = 0 /\ read_count = 0
      /\ wrote = [g \in Guests |-> 0] /\ pending = [g \in Guests |-> 0]
      /\ parted = [g \in Guests |-> "no"]
  BY DEF Polling!Init
<1>2. 0 \in 0 .. InitSize /\ 0 \in 0 .. PollReadSize /\ 0 \in 0 .. MaxPolled
  BY NumbersAssumption, BoundsAssumption
<1>. QED
  BY <1>1, <1>2 DEF CountsInv

LEMMA TtyTypesAlways == Spec => []Tty!TtyTypeOK
<1>1. Init => Tty!TtyTypeOK
  <2>1. Init => Tty!Init
    BY DEF Init
  <2>. QED
    BY <2>1, TtyTypedFirst
<1>2. Tty!TtyTypeOK /\ [Next]_vars => Tty!TtyTypeOK'
  BY TtyMoves, TtyTyped
<1>. QED
  BY <1>1, <1>2, PTL DEF Spec

LEMMA PingTypesAlways == Spec => []Ping!PingTypeOK
<1>1. Init => PingTypes
  <2>1. Init => Ping!Init
    BY DEF Init
  <2>. QED
    BY <2>1, PingTypedFirst
<1>2. PingTypes /\ [Next]_vars => PingTypes'
  BY PingMoves, PingTyped
<1>3. PingTypes => Ping!PingTypeOK
  BY DEF PingTypes
<1>. QED
  BY <1>1, <1>2, <1>3, PTL DEF Spec

LEMMA SemTypesAlways == Spec => []Sem!SemTypeOK
<1>1. Init => SemTypes
  <2>1. Init => Sem!Init
    BY DEF Init
  <2>. QED
    BY <2>1, SemTypedFirst
<1>2. SemTypes /\ [Next]_vars => SemTypes'
  BY SemMoves, SemTyped
<1>3. SemTypes => Sem!SemTypeOK
  BY DEF SemTypes
<1>. QED
  BY <1>1, <1>2, <1>3, PTL DEF Spec

LEMMA EpollTypesAlways == Spec => []Epoll!EpollTypeOK
<1>1. Init => EpollTypes
  <2>1. Init => Epoll!Init
    BY DEF Init
  <2>. QED
    BY <2>1, EpollTypedFirst
<1>2. EpollTypes /\ [Next]_vars => EpollTypes'
  BY EpollMoves, EpollTyped
<1>3. EpollTypes => Epoll!EpollTypeOK
  BY DEF EpollTypes
<1>. QED
  BY <1>1, <1>2, <1>3, PTL DEF Spec

LEMMA PollTypesAlways == Spec => []Polling!PollTypeOK
<1>1. Init => CountsInv
  <2>1. Init => Polling!Init
    BY DEF Init
  <2>. QED
    BY <2>1, CountsInit
<1>2. PollInv /\ CountsInv /\ [Next]_vars => CountsInv'
  BY PollMoves, CountsStep
<1>3. PollInv /\ CountsInv => Polling!PollTypeOK
  BY PollTypes
<1>. QED
  BY <1>1, <1>2, <1>3, PollAlways, PTL DEF Spec

LEMMA NioTypesAlways == Spec => []Nio!NioTypeOK
<1>1. Init => NioPlaces
  <2>1. Init => Nio!Init
    BY DEF Init
  <2>. QED
    BY <2>1, NioPlacesInit
<1>2. NioInv /\ NioPlaces /\ [Next]_vars => NioPlaces'
  BY NioMoves, NioPlacesStep
<1>3. NioInv /\ NioPlaces => Nio!NioTypeOK
  BY NioTypesFit
<1>. QED
  BY <1>1, <1>2, <1>3, NioAlways, PTL DEF Spec

LEMMA ThreadsTypesAlways == Spec => []Threads!ThreadsTypeOK
<1>1. LineInv => Threads!ThreadsTypeOK
  BY ThreadsTyped
<1>. QED
  BY <1>1, ThreadsAlways, PTL

LEMMA FrameTypesAlways == Spec => []Frame!FrameTypeOK
<1>1. Init => FrameFit
  <2>1. Init => Frame!Init
    BY DEF Init
  <2>. QED
    BY <2>1, FrameFitInit
<1>2. FrameInv /\ FrameFit /\ [Next]_vars => FrameFit'
  BY FrameMoves, FrameFitStep DEF FrameInv
<1>3. FrameInv /\ FrameFit => Frame!FrameTypeOK
  BY FrameTyped
<1>. QED
  BY <1>1, <1>2, <1>3, FrameAlways, PTL DEF Spec

LEMMA HiTypesAlways == Spec => []Hi!HiTypeOK
<1>1. Init => HiFit
  <2>1. Init => Hi!Init
    BY DEF Init
  <2>. QED
    BY <2>1, HiFitInit
<1>2. HiInv /\ HiFit /\ [Next]_vars => HiFit'
  BY HiMoves, HiFitStep DEF HiInv
<1>3. HiInv /\ HiFit => Hi!HiTypeOK
  BY HiTyped
<1>. QED
  BY <1>1, <1>2, <1>3, HiAlways, PTL DEF Spec

\* Every program keeps its variables in their types, for all sizes, times and numbers
\* of clients, lines and messages.
THEOREM ProgramsTypeCorrect == Spec => []TypeOK
<1>1. Init => program \in Names
  BY DEF Init
<1>2. program \in Names /\ [Next]_vars => (program \in Names)'
  BY DEF Next, Only, vars
<1>3. Spec => [](program \in Names)
  BY <1>1, <1>2, PTL DEF Spec
<1>4. PidInv => Pid!PidTypeOK
  BY DEF PidInv
<1>5. MemInv => Memory!MemTypeOK
  BY DEF MemInv
<1>6. ForkInv => Fork!ForkTypeOK
  BY DEF ForkInv
<1>7. ReactInv => React!ReactorTypeOK
  BY DEF ReactInv
<1>8. UdpInv => Udp!UdpTypeOK
  BY UdpTypesFit
<1>9. LinesInv => Lines!LineTypeOK
  BY DEF LinesInv
<1>10. PostsInv => Posts!MessageTypeOK
  BY DEF PostsInv
<1>. QED
  BY <1>3, <1>4, <1>5, <1>6, <1>7, <1>8, <1>9, <1>10, PidAlways, MemoryAlways, ForkAlways,
     ReactAlways, UdpAlways, LinesAlways, PostsAlways, TtyTypesAlways, PingTypesAlways,
     SemTypesAlways, EpollTypesAlways, PollTypesAlways, NioTypesAlways, ThreadsTypesAlways,
     FrameTypesAlways, HiTypesAlways, PTL DEF TypeOK

=============================================================================
