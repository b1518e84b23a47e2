--------------------------- MODULE SysVSemaphore ---------------------------
(***************************************************************************)
(* The semaphore classes of linux-c-programming/ipc and the programs that  *)
(* use them: TwoSemaphore (sysv_sem_sample.h) and SimpleTwoSemaphore       *)
(* (sysv_s_sem_sample.h).  Every run of a program finds or makes the       *)
(* semaphore of one key, takes it, sleeps, gives it back and removes it;   *)
(* it may be killed anywhere, and SEM_UNDO then takes back what it did.    *)
(*                                                                         *)
(* Only one set has the key at a time; it is named after the run that made *)
(* it.  Once removed it is gone for all who still have its identifier.     *)
(***************************************************************************)
EXTENDS Integers, FiniteSets

CONSTANTS
  Runs,   \* runs of the program
  NoSet

VARIABLES
  class,   \* "TwoSemaphore" or "SimpleTwoSemaphore"
  runAt,   \* "get", "create", "again" (semget once more), "setval", "P",
           \* "blocked" (in semop), "sleep", "destroy" or "end"
  sem_id,  \* m_sem_id of each run
  current, \* the set that has the key
  value,   \* its value
  undo,    \* semadj of each run for it
  isSet    \* history: it has had its initial value set

semVars == <<class, runAt, sem_id, current, value, undo, isSet>>

SemTypeOK ==
  /\ class \in {"TwoSemaphore", "SimpleTwoSemaphore"}
  /\ runAt \in [Runs -> {"get", "create", "again", "setval", "P", "blocked",
                         "sleep", "destroy", "end"}]
  /\ sem_id \in [Runs -> Runs \union {NoSet}] /\ current \in Runs \union {NoSet}
  /\ value \in Nat /\ undo \in [Runs -> -1 .. 1] /\ isSet \in BOOLEAN

Init ==
  /\ class \in {"TwoSemaphore", "SimpleTwoSemaphore"}
  /\ runAt = [r \in Runs |-> "get"] /\ sem_id = [r \in Runs |-> NoSet]
  /\ current = NoSet /\ value = 0 /\ undo = [r \in Runs |-> 0] /\ isSet = FALSE

Goto(r, place) == runAt' = [runAt EXCEPT ![r] = place]
Has(r)         == sem_id[r] = current
Blocked        == {r \in Runs : runAt[r] = "blocked"}
Holders        == {r \in Runs : runAt[r] = "sleep" /\ Has(r)}

-----------------------------------------------------------------------------
(* init()                                                                  *)

\* The first semget, and the second one of a run whose creation came too late.
Get(r) ==
  /\ runAt[r] \in {"get", "again"}
  /\ \/ current # NoSet /\ sem_id' = [sem_id EXCEPT ![r] = current] /\ Goto(r, "P")
     \/ current = NoSet /\ UNCHANGED sem_id
        /\ Goto(r, IF runAt[r] = "get" THEN "create" ELSE "end")
  /\ UNCHANGED <<class, current, value, undo, isSet>>

Make(r) ==
  /\ current = NoSet /\ current' = r /\ value' = 0 /\ isSet' = FALSE
  /\ sem_id' = [sem_id EXCEPT ![r] = r] /\ Goto(r, "setval")

\* semget with IPC_CREAT alone finds the set another run has made.
Find(r) ==
  /\ current # NoSet /\ sem_id' = [sem_id EXCEPT ![r] = current] /\ Goto(r, "setval")
  /\ UNCHANGED <<current, value, isSet>>

\* Mutant of Create: TwoSemaphore creates without IPC_EXCL, too.
CreateShared(r) ==
  /\ runAt[r] = "create"
  /\ Make(r) \/ Find(r)
  /\ UNCHANGED <<class, undo>>

Create(r) ==
  /\ runAt[r] = "create"
  /\ \/ Make(r)
     \/ class = "SimpleTwoSemaphore" /\ Find(r)
     \/ /\ class = "TwoSemaphore" /\ current # NoSet   \* EEXIST
        /\ Goto(r, "again") /\ UNCHANGED <<sem_id, current, value, isSet>>
  /\ UNCHANGED <<class, undo>>

\* The runs are at the places at and the value has become v: a run that is
\* blocked in semop, if there is one, has its operation done at once.
Settle(at, adj, v) ==
  \/ /\ v = 0 \/ Blocked = {}
     /\ runAt' = at /\ undo' = adj /\ value' = v
  \/ /\ v > 0
     /\ \E w \in Blocked :
          /\ runAt' = [at EXCEPT ![w] = "sleep"] /\ undo' = [adj EXCEPT ![w] = @ + 1]
          /\ value' = v - 1

\* SETVAL forgets what any run would undo.
SetVal(r) ==
  /\ runAt[r] = "setval"
  /\ \/ /\ Has(r) /\ isSet' = TRUE
        /\ Settle([runAt EXCEPT ![r] = "P"], [q \in Runs |-> 0], 1)
     \/ ~Has(r) /\ Goto(r, "end") /\ UNCHANGED <<value, undo, isSet>>
  /\ UNCHANGED <<class, sem_id, current>>

-----------------------------------------------------------------------------
(* P(), V() and destroy(), wait() and post() of SimpleTwoSemaphore         *)

\* Mutant of P: without SEM_UNDO.
PForGood(r) ==
  /\ runAt[r] = "P"
  /\ \/ Has(r) /\ value > 0 /\ value' = value - 1 /\ Goto(r, "sleep")
     \/ Has(r) /\ value = 0 /\ Goto(r, "blocked") /\ UNCHANGED value
     \/ ~Has(r) /\ Goto(r, "end") /\ UNCHANGED value
  /\ UNCHANGED <<class, sem_id, current, undo, isSet>>

P(r) ==
  /\ runAt[r] = "P"
  /\ \/ /\ Has(r) /\ value > 0 /\ value' = value - 1
        /\ undo' = [undo EXCEPT ![r] = @ + 1] /\ Goto(r, "sleep")
     \/ Has(r) /\ value = 0 /\ Goto(r, "blocked") /\ UNCHANGED <<value, undo>>
     \/ ~Has(r) /\ Goto(r, "end") /\ UNCHANGED <<value, undo>>
  /\ UNCHANGED <<class, sem_id, current, isSet>>

V(r) ==
  /\ runAt[r] = "sleep"
  /\ \/ Has(r) /\ Settle([runAt EXCEPT ![r] = "destroy"], [undo EXCEPT ![r] = @ - 1], value + 1)
     \/ ~Has(r) /\ Goto(r, "end") /\ UNCHANGED <<value, undo>>
  /\ UNCHANGED <<class, sem_id, current, isSet>>

\* Whoever is blocked in semop gets EIDRM and ends.
Destroy(r) ==
  /\ runAt[r] = "destroy"
  /\ IF Has(r)
     THEN /\ current' = NoSet /\ value' = 0 /\ undo' = [q \in Runs |-> 0] /\ isSet' = FALSE
          /\ runAt' = [q \in Runs |-> IF q = r \/ q \in Blocked THEN "end" ELSE runAt[q]]
     ELSE Goto(r, "end") /\ UNCHANGED <<current, value, undo, isSet>>
  /\ UNCHANGED <<class, sem_id>>

\* A value never goes below 0 by an undo.
Killed(r) ==
  /\ runAt[r] # "end"
  /\ Settle([runAt EXCEPT ![r] = "end"], [undo EXCEPT ![r] = 0],
            IF value + undo[r] < 0 THEN 0 ELSE value + undo[r])
  /\ UNCHANGED <<class, sem_id, current, isSet>>

-----------------------------------------------------------------------------
Goes(r) == Get(r) \/ Create(r) \/ SetVal(r) \/ P(r) \/ V(r) \/ Destroy(r)

Next == \E r \in Runs : Goes(r) \/ Killed(r)

Spec == Init /\ [][Next]_semVars

-----------------------------------------------------------------------------
\* A TwoSemaphore is binary whatever is killed and whoever comes first: its one
\* permit is free, held by one run, or not there yet.
OnePermit == class = "TwoSemaphore" => value + Cardinality(Holders) <= 1

\* The run that made the set was killed before it set the value.
Orphan == current # NoSet /\ ~isSet /\ runAt[current] = "end"

\* Nobody waits for ever, unless for a set whose maker did not live to set it:
\* from any moment on there comes one when no run waits, and a run waits once.
EveryWaitEnds == []<>(Orphan \/ Blocked = {})
=============================================================================
