----------------------------- MODULE TopicsLock -----------------------------
(***************************************************************************)
(* The reader/writer lock every handler of the server takes on the         *)
(* certificate topics of an organization:                                  *)
(* MemoryOrganization.topics_lock in                                       *)
(* server/parsec/components/memory/datamodel.py.  Its state and its steps; *)
(* LockTasks runs them for arbitrary tasks, Server for the real handlers.  *)
(*                                                                         *)
(* A task is one asyncio task running one handler.  It only suspends where *)
(* the lock waits on the shared Event and inside the body of an            *)
(* `async with`, so each operator is the code between two such points.     *)
(***************************************************************************)
EXTENDS Naturals

CONSTANTS
    Tasks,      \* asyncio tasks
    Topics      \* common, sequester, shamir_recovery, one per realm

LockRequests == [read : SUBSET Topics, write : SUBSET Topics]

VARIABLES
    writeLocked,    \* _topic_write_locked
    readLocked,     \* _topic_read_locked: number of read holders of a topic
    event,          \* _notify_me_on_topic_lock_release is not None
    waiting         \* tasks blocked in .wait() on the current Event

lockVars == <<writeLocked, readLocked, event, waiting>>

LockTypeOK ==
    /\ writeLocked \in SUBSET Topics
    /\ readLocked \in [Topics -> Nat]
    /\ event \in BOOLEAN
    /\ waiting \in SUBSET Tasks

LockInit ==
    /\ writeLocked = {}
    /\ readLocked = [p \in Topics |-> 0]
    /\ event = FALSE
    /\ waiting = {}

\* Mutant of Conflict: check 2) is missing, a writer ignores the readers.
ConflictIgnoringReaders(q) == \E p \in q.read \cup q.write : p \in writeLocked

\* Checks 1) and 2): a wanted topic is write locked, or one wanted in write
\* mode is read locked.
Conflict(q) ==
    \/ \E p \in q.read \cup q.write : p \in writeLocked
    \/ \E p \in q.write : readLocked[p] # 0

\* Join those who wait on the shared Event, created by the first of them.
JoinWaiters(t) ==
    /\ event' = TRUE
    /\ waiting' = waiting \cup {t}

WaitForRelease(t) == JoinWaiters(t) /\ UNCHANGED <<writeLocked, readLocked>>

\* Mutant of MarkTaken: the readers of a topic are flagged, not counted.
MarkTakenOnce(q) ==
    /\ writeLocked' = writeLocked \cup q.write
    /\ readLocked' = [p \in Topics |-> IF p \in q.read THEN 1 ELSE readLocked[p]]

\* 3) All checks are good, take the locks.
MarkTaken(q) ==
    /\ writeLocked' = writeLocked \cup q.write
    /\ readLocked' = [p \in Topics |->
                        IF p \in q.read THEN readLocked[p] + 1 ELSE readLocked[p]]

TakeLocks(q) == MarkTaken(q) /\ UNCHANGED <<event, waiting>>

\* Mutant of ReleaseLocks: the Event is not set.
ReleaseLocksSilently(q) ==
    /\ writeLocked' = writeLocked \ q.write
    /\ readLocked' = [p \in Topics |->
                        IF p \in q.read THEN readLocked[p] - 1 ELSE readLocked[p]]
    /\ UNCHANGED <<event, waiting>>

\* 4) Give them back, and set the Event: all its waiters retry, later ones
\* wait on the new Event.
ReleaseLocks(q) ==
    /\ writeLocked' = writeLocked \ q.write
    /\ readLocked' = [p \in Topics |->
                        IF p \in q.read THEN readLocked[p] - 1 ELSE readLocked[p]]
    /\ waiting' = IF event THEN {} ELSE waiting
    /\ UNCHANGED event
=============================================================================
