----------------------------- MODULE LockTasks ------------------------------
(***************************************************************************)
(* Any number of handlers contending for the topics of an organization.    *)
(* The plan of a task is the sequence of nested                            *)
(* `async with org.topics_lock(read=.., write=..)` its handler goes        *)
(* through; what the bodies do is left out.                                *)
(***************************************************************************)
EXTENDS TopicsLock, Sequences, FiniteSets

CONSTANT Plans      \* nested lock requests of the handlers

ASSUME PlansAssumption == Plans \subseteq Seq(LockRequests) \ {<<>>}

VARIABLES
    pc,             \* where the handler of a task is
    plan,           \* what it asks for
    held            \* how many nested locks of its plan it holds

vars == <<writeLocked, readLocked, event, waiting, pc, plan, held>>

TypeOK ==
    /\ LockTypeOK
    /\ pc \in [Tasks -> {"idle", "entering", "leaving", "done"}]
    /\ plan \in [Tasks -> Seq(LockRequests)]
    /\ held \in [Tasks -> Nat]
    /\ \A t \in Tasks : held[t] <= Len(plan[t])

Init ==
    /\ LockInit
    /\ pc = [t \in Tasks |-> "idle"]
    /\ plan = [t \in Tasks |-> <<>>]
    /\ held = [t \in Tasks |-> 0]

Wanted(t) == plan[t][held[t] + 1]

Runnable(t) == pc[t] = "entering" /\ t \notin waiting

Start(t) ==
    /\ pc[t] = "idle"
    /\ \E p \in Plans : plan' = [plan EXCEPT ![t] = p]
    /\ pc' = [pc EXCEPT ![t] = "entering"]
    /\ UNCHANGED <<lockVars, held>>

Wait(t) ==
    /\ Runnable(t)
    /\ held[t] < Len(plan[t])
    /\ Conflict(Wanted(t))
    /\ WaitForRelease(t)
    /\ UNCHANGED <<pc, plan, held>>

Take(t) ==
    /\ Runnable(t)
    /\ held[t] < Len(plan[t])
    /\ ~Conflict(Wanted(t))
    /\ TakeLocks(Wanted(t))
    /\ held' = [held EXCEPT ![t] = @ + 1]
    /\ UNCHANGED <<pc, plan>>

\* Mutant of Exit: without the `return` after the `finally` clause the loop of
\* topics_lock takes the locks again.
ExitAndRetry(t) ==
    /\ Runnable(t) \/ pc[t] = "leaving"
    /\ held[t] > 0
    /\ ReleaseLocks(plan[t][held[t]])
    /\ held' = [held EXCEPT ![t] = @ - 1]
    /\ UNCHANGED <<pc, plan>>

\* The body of the innermost `async with` ends: normally, by an early return
\* or by a cancellation, which the `finally` clause treats alike.
Exit(t) ==
    /\ Runnable(t) \/ pc[t] = "leaving"
    /\ held[t] > 0
    /\ ReleaseLocks(plan[t][held[t]])
    /\ held' = [held EXCEPT ![t] = @ - 1]
    /\ pc' = [pc EXCEPT ![t] = IF held[t] = 1 THEN "done" ELSE "leaving"]
    /\ UNCHANGED plan

\* The task is cancelled (client gone, server shutdown) while it waits.
Cancel(t) ==
    /\ t \in waiting
    /\ waiting' = waiting \ {t}
    /\ pc' = [pc EXCEPT ![t] = IF held[t] = 0 THEN "done" ELSE "leaving"]
    /\ UNCHANGED <<writeLocked, readLocked, event, plan, held>>

\* Every task is done: the only state in which nothing happens.
Terminated ==
    /\ \A t \in Tasks : pc[t] = "done"
    /\ UNCHANGED vars

Next ==
    \/ \E t \in Tasks :
        Start(t) \/ Wait(t) \/ Take(t) \/ Exit(t) \/ Cancel(t)
    \/ Terminated

\* A runnable task is eventually scheduled by the event loop and a body ends;
\* nothing makes a client start a request or cancel one.
Fairness ==
    \A t \in Tasks : WF_vars(Wait(t)) /\ WF_vars(Take(t)) /\ WF_vars(Exit(t))

Spec == Init /\ [][Next]_vars

FairSpec == Spec /\ Fairness

(***************************************************************************)
(* Properties.                                                             *)
(***************************************************************************)

Grants == UNION {{<<t, i>> : i \in 1 .. held[t]} : t \in Tasks}

Granted(g) == plan[g[1]][g[2]]

ReadersOf(p) == {g \in Grants : p \in Granted(g).read}

\* Mutual exclusion: a topic that some `async with topics_lock` holds in write
\* mode is held by no other one, neither of another task nor of an enclosing
\* block of the same task.
WriteIsExclusive ==
    \A g, h \in Grants :
        g # h => Granted(g).write \cap (Granted(h).read \cup Granted(h).write) = {}

\* The two dictionaries the checks are made on say exactly who holds what:
\* _topic_write_locked is the set of write holders' topics, and
\* _topic_read_locked counts the read holders.
BooksMatchHolders ==
    /\ \A p \in Topics : p \in writeLocked <=> \E g \in Grants : p \in Granted(g).write
    /\ \A p \in Topics : readLocked[p] = Cardinality(ReadersOf(p))

\* No lost wake-up: a task still blocked on the shared Event has a reason to
\* be, some topic it wants is held in a conflicting mode right now.
NoLostWakeup ==
    \A t \in waiting :
        /\ event
        /\ pc[t] = "entering"
        /\ held[t] < Len(plan[t])
        /\ Conflict(Wanted(t))

\* Every handler that started comes to its end: the nesting orders the
\* handlers use cannot block each other for ever.
EveryTaskEnds == \A t \in Tasks : pc[t] = "entering" ~> pc[t] = "done"
=============================================================================
