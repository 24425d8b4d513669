--------------------------- MODULE MCConflictSync ---------------------------
(***************************************************************************)
(* Instances of ConflictSync: three devices that edit the file and nothing *)
(* else, or two that do anything.                                          *)
(***************************************************************************)
EXTENDS ConflictSync

CONSTANTS d1, d2, d3

VARIABLE still      \* which of the two: the file stays where it is

MCDevices == {d1, d2, d3}

OnlyEdits ==
    /\ removed = {}
    /\ \A d \in Devices : /\ \A f \in Known(d) : files[d][f].parent = Home
                          /\ Other \notin Range(folders[d][Home].children)

InstanceNext ==
    /\ UNCHANGED still
    /\ \/ still /\ ConflictNext /\ OnlyEdits'
       \/ /\ ~still
          /\ \E d \in {d1, d2} : DeviceNext(d)
          /\ \A e \in Folders \cup Files : Len(server'[e]) < MaxVersion

InstanceInit == still \in BOOLEAN /\ ConflictInit

InstanceSpec == InstanceInit /\ [][InstanceNext]_<<vars, still>>

\* When a file is only edited, settling a conflict keeps both contents: no synchronization
\* with the server takes away a content the user can read and that was not uploaded
\* (`handle_conflict_and_update_store`).
ConflictsRetainBoth ==
    [][still /\ IsInbound =>
          \A d \in Devices : Readable(d) \ Uploaded \subseteq Readable(d)']_vars

=============================================================================
