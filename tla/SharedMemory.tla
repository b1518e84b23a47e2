---------------------------- MODULE SharedMemory ----------------------------
(***************************************************************************)
(* linux-c-programming/ipc/sysv_shm_sample.c, run several times: each run  *)
(* finds or makes the shared memory of one key, attaches it, writes its    *)
(* pid there, sleeps, detaches and removes it, whoever else is using it.   *)
(***************************************************************************)
EXTENDS Integers

CONSTANT Runs

VARIABLES
  memAt,     \* "shmget", "shmat", "copy", "sleep", "shmctl", "over" or "killed"
  shm_id,
  segments,  \* the segments that exist
  removed,   \* those of them that IPC_RMID has marked: they have no key any more
  lastShm,   \* ids are not given twice
  pidIn,     \* the st_pid of each segment: a run, or 0 in new memory
  got        \* history: the runs that were given each segment

segmentVars == <<segments, removed, lastShm, pidIn, got>>
memVars     == <<memAt, shm_id, segmentVars>>

Ids == 1 .. lastShm

MemTypeOK ==
  /\ memAt \in [Runs -> {"shmget", "shmat", "copy", "sleep", "shmctl", "over", "killed"}]
  /\ lastShm \in Nat /\ shm_id \in [Runs -> 0 .. lastShm]
  /\ segments \subseteq Ids /\ removed \subseteq segments
  /\ pidIn \in [Ids -> Runs \union {0}] /\ got \in [Ids -> SUBSET Runs]

Init ==
  /\ memAt = [r \in Runs |-> "shmget"] /\ shm_id = [r \in Runs |-> 0]
  /\ segments = {} /\ removed = {} /\ lastShm = 0
  /\ pidIn = [i \in Ids |-> 0] /\ got = [i \in Ids |-> {}]

Goes(r, from, to) == memAt[r] = from /\ memAt' = [memAt EXCEPT ![r] = to]

Attached(i) == {r \in Runs : shm_id[r] = i /\ memAt[r] \in {"copy", "sleep"}}

-----------------------------------------------------------------------------
\* shmget: the key is of the one segment that is not marked.
Shmget(r) ==
  /\ Goes(r, "shmget", "shmat")
  /\ \/ \E i \in segments \ removed :
          /\ shm_id' = [shm_id EXCEPT ![r] = i] /\ got' = [got EXCEPT ![i] = @ \union {r}]
          /\ UNCHANGED <<segments, lastShm, pidIn>>
     \/ /\ segments \subseteq removed /\ lastShm' = lastShm + 1
        /\ segments' = segments \union {lastShm'} /\ shm_id' = [shm_id EXCEPT ![r] = lastShm']
        /\ pidIn' = [i \in 1 .. lastShm' |-> IF i = lastShm' THEN 0 ELSE pidIn[i]]
        /\ got' = [i \in 1 .. lastShm' |-> IF i = lastShm' THEN {r} ELSE got[i]]
  /\ UNCHANGED removed

\* shmat fails when the segment has gone since shmget; one that is only marked
\* can still be attached.
Shmat(r) ==
  /\ Goes(r, "shmat", IF shm_id[r] \in segments THEN "copy" ELSE "over")
  /\ UNCHANGED <<shm_id, segmentVars>>

Copy(r) ==
  /\ Goes(r, "copy", "sleep") /\ pidIn' = [pidIn EXCEPT ![shm_id[r]] = r]
  /\ UNCHANGED <<shm_id, segments, removed, lastShm, got>>

\* A marked segment goes with the last run that detaches it.
Detached(r) ==
  LET gone == {i \in removed : Attached(i) = {r}} IN
  /\ segments' = segments \ gone /\ removed' = removed \ gone

\* Mutant of Shmdt: the run leaves without removing the segment.
ShmdtOnly(r) ==
  /\ Goes(r, "sleep", "over") /\ Detached(r)
  /\ UNCHANGED <<shm_id, lastShm, pidIn, got>>

Shmdt(r) ==
  /\ Goes(r, "sleep", "shmctl") /\ Detached(r)
  /\ UNCHANGED <<shm_id, lastShm, pidIn, got>>

\* IPC_RMID, which fails when another run's has come first and nobody is left.
Shmctl(r) ==
  LET i == shm_id[r] IN
  /\ Goes(r, "shmctl", "over")
  /\ IF i \in segments /\ Attached(i) # {}
     THEN removed' = removed \union {i} /\ UNCHANGED segments
     ELSE segments' = segments \ {i} /\ removed' = removed \ {i}
  /\ UNCHANGED <<shm_id, lastShm, pidIn, got>>

Kill(r) ==
  /\ memAt[r] \notin {"over", "killed"} /\ Goes(r, memAt[r], "killed") /\ Detached(r)
  /\ UNCHANGED <<shm_id, lastShm, pidIn, got>>

-----------------------------------------------------------------------------
Run(r) == Shmget(r) \/ Shmat(r) \/ Copy(r) \/ Shmdt(r) \/ Shmctl(r)

Next == \E r \in Runs : Run(r) \/ Kill(r)

Spec == Init /\ [][Next]_memVars

-----------------------------------------------------------------------------
\* However the runs overlap and wherever they are killed: memory stays while a
\* run uses it, though another has removed it; and it stays for good only if
\* every run that was given it was killed, so that one later run that comes
\* through cleans up.  What it holds was written by a run that was given it.
SegmentsGo ==
  /\ \A r \in Runs : memAt[r] \in {"copy", "sleep"} => shm_id[r] \in segments
  /\ \A i \in segments :
       /\ Attached(i) # {} \/ \A r \in got[i] : memAt[r] # "over"
       /\ pidIn[i] \in got[i] \union {0}
=============================================================================
