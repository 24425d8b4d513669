---------------------------- MODULE MCFolderSync ----------------------------
(***************************************************************************)
(* Instances of FolderSync: two devices, two or three names, one of which  *)
(* ("tmp") a pattern may confine.                                          *)
(***************************************************************************)
EXTENDS FolderSync

NoPattern == {{}}
TmpPattern == {{}, {"tmp"}}

\* The root is restarted and lost, and uploaded less often; another folder is not.
InstanceNext ==
    /\ FolderSyncNext
    /\ IF \E d \in Devices : IsRoot(d) THEN Len(server') <= MaxVersion - 3
       ELSE restarts' = restarts

\* A pattern may be set on the creator of the root later on, and removed on the others.
InstanceInit ==
    /\ FolderSyncInit
    /\ pattern[Creator] = {}
    /\ \A d \in Devices \ {Creator} : IsRoot(d) => pattern[d] # {}

InstanceSpec == InstanceInit /\ [][InstanceNext]_syncVars /\ SyncFairness

=============================================================================
