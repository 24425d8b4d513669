---------------------------- MODULE MCWorkspaceFile ----------------------------
(* Small instances of WorkspaceFile: a device that stays offline, and one that  *)
(* synchronizes, with smaller bounds.                                           *)
EXTENDS WorkspaceFile

VARIABLE online

(* Payloads shorter than, equal to and longer than a slot of two bytes. *)
AllPayloads == {<<1>>, <<2, 3>>, <<4, 5, 6>>}

FewPayloads == {<<1>>, <<2, 3>>}

(* While a device synchronizes: one edit less, smaller ones, and no crash. *)
MayEdit == edits + 1 < MaxEdits

OnlineNext ==
    /\ SyncNext \/ LocalNext(FewPayloads, IF MayEdit THEN {0, 1, BlockSize + 1} ELSE {})
    /\ edits' + 1 <= MaxEdits
    /\ UNCHANGED crashes

InstanceNext ==
    /\ UNCHANGED online
    /\ \/ online /\ OnlineNext
       \/ ~online /\ LocalNext(Payloads, 0..MaxSize)

InstanceInit == online \in BOOLEAN /\ FileInit

InstanceSpec == InstanceInit /\ [][InstanceNext]_<<fileVars, online>>

OnlineInit == online = TRUE /\ FileInit

OnlineSpec == OnlineInit /\ [][InstanceNext]_<<fileVars, online>>

================================================================================
