--------------------------- MODULE MCOpenedFiles ---------------------------
(***************************************************************************)
(* Instances of OpenedFiles: three tasks that open the file to write, two  *)
(* of which may truncate it, or two that open it to read or to write, and  *)
(* stop the storage.                                                       *)
(***************************************************************************)
EXTENDS OpenedFiles

CONSTANTS t1, t2, t3

VARIABLE writing    \* which of the two

MCTasks == {t1, t2, t3}

InstanceNext ==
    /\ OpenedNext
    /\ UNCHANGED writing
    /\ IF writing
       THEN /\ allowed' /\ \A t \in Tasks : task'[t].pc = "lock" => task'[t].mode # "read"
            /\ task'[t3].pc = "lock" => task'[t3].mode = "write"
       ELSE task'[t3].pc \in {"idle", "panic"}

InstanceInit == writing \in BOOLEAN /\ OpenedInit

InstanceSpec == InstanceInit /\ [][InstanceNext]_<<vars, writing>> /\ OpenedFairness

\* When everybody opens the file to write, and nobody stops the storage, everything that
\* was written is stored once the last one has closed the file (`fd_close`), whatever was
\* opened, written and closed at the same time.
WrittenDataSurvives == writing => DataSurvivesClose
=============================================================================
