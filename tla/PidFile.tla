------------------------------ MODULE PidFile ------------------------------
(***************************************************************************)
(* createPidFile of linux-c-programming/lib/tlpi/create_pid_file.c, with   *)
(* the lock of region_locking.c: instances of a program that want to be    *)
(* the only one.  As its comment asks, an instance deletes the file just   *)
(* before it ends; one that is killed leaves it.  Nobody in the repository *)
(* calls it yet.                                                           *)
(***************************************************************************)
EXTENDS Integers

CONSTANTS Instances, NoInstance

VARIABLES
  instanceAt,  \* "open", "lock", "truncate", "write", "run", "exit", "over" or "refused"
  opened,      \* the file each has open, 0 when none
  named,       \* the file that has the name, 0 when there is none
  lastFile,    \* files are not used again
  holder,      \* who has the lock of each file
  written      \* whose pid is in each file, NoInstance when it is empty

pidVars == <<instanceAt, opened, named, lastFile, holder, written>>

Files == 1 .. lastFile

PidTypeOK ==
  /\ instanceAt \in [Instances ->
       {"open", "lock", "truncate", "write", "run", "exit", "over", "refused"}]
  /\ lastFile \in Nat /\ named \in 0 .. lastFile /\ opened \in [Instances -> 0 .. lastFile]
  /\ {holder, written} \subseteq [Files -> Instances \union {NoInstance}]

Init ==
  /\ instanceAt = [p \in Instances |-> "open"] /\ opened = [p \in Instances |-> 0]
  /\ named = 0 /\ lastFile = 0
  /\ holder = [f \in Files |-> NoInstance] /\ written = [f \in Files |-> NoInstance]

Goes(p, from, to) == instanceAt[p] = from /\ instanceAt' = [instanceAt EXCEPT ![p] = to]

\* The end of a process closes its file, and with it goes the lock.
Unlocked(p) == holder' = [f \in Files |-> IF holder[f] = p THEN NoInstance ELSE holder[f]]

-----------------------------------------------------------------------------
\* open with O_CREAT; FD_CLOEXEC is of no account without exec.
Open(p) ==
  /\ Goes(p, "open", "lock")
  /\ IF named # 0 THEN UNCHANGED <<named, lastFile, holder, written>>
     ELSE /\ lastFile' = lastFile + 1 /\ named' = lastFile'
          /\ holder'  = [f \in 1 .. lastFile' |-> IF f = lastFile' THEN NoInstance ELSE holder[f]]
          /\ written' = [f \in 1 .. lastFile' |-> IF f = lastFile' THEN NoInstance ELSE written[f]]
  /\ opened' = [opened EXCEPT ![p] = named']

\* Mutant of Lock: the file is emptied before the lock is tried.
LockLate(p) ==
  /\ \/ /\ Goes(p, "lock", "truncate") /\ holder[opened[p]] = NoInstance
        /\ holder' = [holder EXCEPT ![opened[p]] = p]
     \/ Goes(p, "lock", "refused") /\ holder[opened[p]] # NoInstance /\ UNCHANGED holder
  /\ written' = [written EXCEPT ![opened[p]] = NoInstance]
  /\ UNCHANGED <<opened, named, lastFile>>

\* lockRegion does not wait.
Lock(p) ==
  /\ \/ /\ Goes(p, "lock", "truncate") /\ holder[opened[p]] = NoInstance
        /\ holder' = [holder EXCEPT ![opened[p]] = p]
     \/ Goes(p, "lock", "refused") /\ holder[opened[p]] # NoInstance /\ UNCHANGED holder
  /\ UNCHANGED <<opened, named, lastFile, written>>

Truncate(p) ==
  /\ Goes(p, "truncate", "write")
  /\ written' = [written EXCEPT ![opened[p]] = NoInstance]
  /\ UNCHANGED <<opened, named, lastFile, holder>>

Write(p) ==
  /\ Goes(p, "write", "run") /\ written' = [written EXCEPT ![opened[p]] = p]
  /\ UNCHANGED <<opened, named, lastFile, holder>>

\* unlink takes the name, whichever file has it.
Delete(p) ==
  /\ Goes(p, "run", "exit") /\ named' = 0
  /\ UNCHANGED <<opened, lastFile, holder, written>>

Exit(p) ==
  /\ Goes(p, "exit", "over") /\ Unlocked(p)
  /\ UNCHANGED <<opened, named, lastFile, written>>

Kill(p) ==
  /\ instanceAt[p] \notin {"over", "refused"} /\ Goes(p, instanceAt[p], "over") /\ Unlocked(p)
  /\ UNCHANGED <<opened, named, lastFile, written>>

-----------------------------------------------------------------------------
Next ==
  \E p \in Instances :
    \/ Open(p) \/ Lock(p) \/ Truncate(p) \/ Write(p)
    \/ Delete(p) \/ Exit(p) \/ Kill(p)

Spec == Init /\ [][Next]_pidVars

-----------------------------------------------------------------------------
\* The file tells the truth: the pid of an instance that runs is in the file it
\* opened, whoever else tries to start, and whatever was killed or deleted before;
\* and two that are past the lock never share a file.
PidTrue ==
  LET Past == {p \in Instances : instanceAt[p] \in {"truncate", "write", "run", "exit"}} IN
  /\ \A p \in Instances : instanceAt[p] = "run" => written[opened[p]] = p
  /\ \A p, q \in Past : p # q => opened[p] # opened[q]

\* What the comment at the top of create_pid_file.c says the function ensures: one
\* instance at a time.  It does not: an instance that has opened the file when
\* another deletes it gets the lock of a file without a name, and the next one
\* makes a new file.
OneInstance == \A p, q \in Instances : instanceAt[p] = "run" /\ instanceAt[q] = "run" => p = q
=============================================================================
