---------------------------- MODULE ConflictSync ----------------------------
(***************************************************************************)
(* A file that several devices edit, move and remove, with the folders it  *)
(* goes through.  Each manifest is synchronized on its own, in any order:  *)
(* an upload is acknowledged, or the local manifest has changed meanwhile  *)
(* and it is not; a version of the server is merged with the local         *)
(* manifest.  When the content has changed on both sides, the file is      *)
(* overwritten, and the local content goes to a new file of the same       *)
(* folder.                                                                 *)
(*                                                                         *)
(* The content of a file is the number of the edition that wrote it.       *)
(***************************************************************************)
EXTENDS FolderManifest

CONSTANTS Devices,
          Folders,       \* the folders; they are never moved themselves
          Home,          \* the one where the file is at first
          Other,         \* another entry, that gets created in that folder
          Operations,    \* among "edit", "move", "remove" and "create"
          MaxEdits,      \* bound on the operations
          MaxCopies,     \* bound on the copies made by conflicts
          MaxVersion     \* bound on the versions of a manifest

ASSUME ConflictAssumption == Home \in Folders /\ MaxCopies \in Nat

VARIABLES files,       \* the local file manifests of each device, by file
          folders,     \* the local folder manifests of each device, by folder
          server,      \* the versions of each manifest on the server, oldest first
          edits,       \* number of operations
          copies,      \* number of copies: the files are 1 .. copies + 1
          panic,       \* whether a sanity check has failed
          removed      \* the files someone has removed

vars == <<files, folders, server, edits, copies, panic, removed>>

Creator == CHOOSE d \in Devices : TRUE
Files == 1 .. MaxCopies + 1
NoFile == [content |-> 0, need_sync |-> FALSE]
None == {}                                  \* nobody matches the "prevent sync" pattern

Name == <<"file">>
FileV1 == [version |-> 1, author |-> Creator, parent |-> Home, content |-> 1]
FolderV1(p) ==
    [version |-> 1, author |-> Creator, parent |-> NoEntry,
     children |-> [n \in {x \in {Name} : p = Home} |-> 1]]

FileFromRemote(remote) ==
    [base |-> remote, parent |-> remote.parent, content |-> remote.content,
     need_sync |-> FALSE]

\* At first everybody has the same file.
ConflictInit ==
    /\ files = [d \in Devices |->
                   [f \in Files |-> IF f = 1 THEN FileFromRemote(FileV1) ELSE NoFile]]
    /\ folders = [d \in Devices |-> [p \in Folders |-> FromRemote(FolderV1(p), None)]]
    /\ server = [e \in Files \cup Folders |->
                   IF e = 1 THEN <<FileV1>>
                   ELSE IF e \in Folders THEN <<FolderV1(e)>> ELSE <<>>]
    /\ edits = 1 /\ copies = 0 /\ panic = FALSE /\ removed = {}

Known(d) == {f \in Files : files[d][f] # NoFile}

\* The parent of the file has it among its children.
IsReachable(d, f) ==
    /\ f \in Known(d)
    /\ f \in Range(folders[d][files[d][f].parent].children)

NameOf(d, f) == CHOOSE n \in NamesOf(folders[d][files[d][f].parent].children, f) : TRUE

(***************************************************************************)
(* Operations of the users.                                                *)
(***************************************************************************)
EditFile(d, f) ==
    /\ "edit" \in Operations /\ edits < MaxEdits
    /\ IsReachable(d, f)
    /\ files' = [files EXCEPT ![d][f].content = edits + 1, ![d][f].need_sync = TRUE]
    /\ edits' = edits + 1
    /\ UNCHANGED <<folders, server, copies, panic, removed>>

\* The three manifests change together.
MoveFile(d, f, p) ==
    /\ "move" \in Operations /\ edits < MaxEdits
    /\ IsReachable(d, f) /\ p # files[d][f].parent
    /\ LET from == files[d][f].parent
           n == NameOf(d, f)
       IN /\ n \notin DOMAIN folders[d][p].children
          /\ f \notin Range(folders[d][p].children)
          /\ folders' = [folders EXCEPT
                ![d][from] = Evolve(@, [x \in {n} |-> NoEntry], None),
                ![d][p] = Evolve(@, [x \in {n} |-> f], None)]
          /\ files' = [files EXCEPT ![d][f].parent = p, ![d][f].need_sync = TRUE]
    /\ edits' = edits + 1
    /\ UNCHANGED <<server, copies, panic, removed>>

\* Only the manifest of the parent changes.
RemoveFile(d, f) ==
    /\ "remove" \in Operations /\ edits < MaxEdits
    /\ IsReachable(d, f)
    /\ folders' = [folders EXCEPT ![d][files[d][f].parent] =
                      Evolve(@, [x \in {NameOf(d, f)} |-> NoEntry], None)]
    /\ edits' = edits + 1 /\ removed' = removed \cup {f}
    /\ UNCHANGED <<files, server, copies, panic>>

\* Something else changes in the folder.
CreateOther(d) ==
    /\ "create" \in Operations /\ edits < MaxEdits
    /\ Other \notin Range(folders[d][Home].children)
    /\ folders' = [folders EXCEPT ![d][Home] =
                      Evolve(@, [x \in {<<"other">>} |-> Other], None)]
    /\ edits' = edits + 1
    /\ UNCHANGED <<files, server, copies, panic, removed>>

(***************************************************************************)
(* Outbound synchronization.  What is not acknowledged is left as it is.   *)
(***************************************************************************)
OutboundFile(d, f) ==
    /\ IsReachable(d, f) /\ files[d][f].need_sync
    /\ files[d][f].base.version = Len(server[f]) /\ Len(server[f]) < MaxVersion
    /\ LET remote == [version |-> Len(server[f]) + 1, author |-> d,
                      parent |-> files[d][f].parent, content |-> files[d][f].content]
       IN /\ server' = [server EXCEPT ![f] = Append(@, remote)]
          /\ \/ files' = [files EXCEPT ![d][f] = FileFromRemote(remote)]
             \/ UNCHANGED files
    /\ UNCHANGED <<folders, edits, copies, panic, removed>>

OutboundFolder(d, p) ==
    /\ folders[d][p].need_sync
    /\ folders[d][p].base.version = Len(server[p]) /\ Len(server[p]) < MaxVersion
    /\ LET remote == FolderToRemote(folders[d][p], d)
       IN /\ server' = [server EXCEPT ![p] = Append(@, remote)]
          /\ \/ folders' = [folders EXCEPT ![d][p] = FromRemote(remote, None)]
             \/ UNCHANGED folders
    /\ UNCHANGED <<files, edits, copies, panic, removed>>

(***************************************************************************)
(* Inbound synchronization.                                                *)
(***************************************************************************)
Latest(e) == server[e][Len(server[e])]

\* Both sides have changed the content, not by an upload of ours.  An edition here is one
\* that `has_file_content_changed_in_local` sees.
IsConflict(d, local, remote) ==
    /\ local.need_sync /\ remote.author # d
    /\ local.content # local.base.content
    /\ remote.content # local.base.content

\* Mutant of MergeFile: a file that was moved elsewhere is replaced by the remote one.
MergeFileMoved(d, local, remote) ==
    IF ~local.need_sync \/ remote.parent # local.base.parent THEN FileFromRemote(remote)
    ELSE IF remote.author = d THEN [local EXCEPT !.base = remote]
    ELSE [FileFromRemote(remote) EXCEPT !.content = local.content,
                                        !.parent = local.parent, !.need_sync = TRUE]

\* `merge_local_file_manifest`, when there is no conflict
MergeFile(d, local, remote) ==
    IF ~local.need_sync THEN FileFromRemote(remote)
    ELSE IF remote.author = d THEN [local EXCEPT !.base = remote]
    ELSE LET changed == local.content # local.base.content
             parent == MergeParent(local.base.parent, local.parent, remote.parent)
         IN [FileFromRemote(remote) EXCEPT
                !.content = IF changed THEN local.content ELSE @,
                !.parent = parent,
                !.need_sync = changed \/ parent # remote.parent]

MergeFileManifest(d, f) ==
    /\ Len(server[f]) > 0
    /\ \/ /\ f \notin Known(d)
          /\ files' = [files EXCEPT ![d][f] = FileFromRemote(Latest(f))]
       \/ /\ f \in Known(d)
          /\ Latest(f).version > files[d][f].base.version
          /\ ~IsConflict(d, files[d][f], Latest(f))
          /\ files' = [files EXCEPT ![d][f] = MergeFile(d, @, Latest(f))]
    /\ UNCHANGED <<folders, server, edits, copies, panic, removed>>

\* The name of the conflicting copy, from that of the file in its parent, or in the base of
\* its parent.
CopyName(parent, f) ==
    LET now    == NamesOf(parent.children, f)
        before == NamesOf(parent.base.children, f)
        name   == IF now # {} THEN CHOOSE n \in now : TRUE
                  ELSE IF before # {} THEN CHOOSE n \in before : TRUE
                  ELSE <<"lost+found">>
    IN ConflictName(Append(name, "sync conflict"), 2, DOMAIN parent.children)

\* Mutant of Copy: the conflicting copy is not to be uploaded.
CopySynced(d, local) ==
    [base |-> [version |-> 0, author |-> d, parent |-> local.parent, content |-> 0],
     parent |-> local.parent, content |-> local.content, need_sync |-> FALSE]

\* The new file that has the local content.
Copy(d, local) ==
    [base |-> [version |-> 0, author |-> d, parent |-> local.parent, content |-> 0],
     parent |-> local.parent, content |-> local.content, need_sync |-> local.need_sync]

\* Mutant of WithCopy: the copy does not get into the folder.
WithoutCopy(parent, f, copy) == parent.children

\* The children of the folder, once the copy of file f has been added to them.
WithCopy(parent, f, copy) == (CopyName(parent, f) :> copy) @@ parent.children

\* `handle_conflict_and_update_store`: three manifests change together.
SettleConflict(d, f) ==
    /\ f \in Known(d) /\ Len(server[f]) > 0 /\ copies < MaxCopies
    /\ Latest(f).version > files[d][f].base.version
    /\ IsConflict(d, files[d][f], Latest(f))
    /\ LET p == files[d][f].parent
           parent == folders[d][p]
           copy == copies + 2
           children == WithCopy(parent, f, copy)
       IN /\ files' = [files EXCEPT ![d][f] = FileFromRemote(Latest(f)),
                                    ![d][copy] = Copy(d, files[d][f])]
          /\ folders' = [folders EXCEPT ![d][p].children = children]
          /\ panic' = (panic \/ f \notin Range(children))
    /\ copies' = copies + 1
    /\ UNCHANGED <<server, edits, removed>>

InboundFolder(d, p) ==
    /\ Latest(p).version > folders[d][p].base.version
    /\ \E m \in MergeFolder(d, None, folders[d][p], Latest(p)) :
          folders' = [folders EXCEPT ![d][p] = m]
    /\ UNCHANGED <<files, server, edits, copies, panic, removed>>

Inbound(d) ==
    \/ \E f \in Files : MergeFileManifest(d, f) \/ SettleConflict(d, f)
    \/ \E p \in Folders : InboundFolder(d, p)

DeviceNext(d) ==
    \/ \E f \in Files : EditFile(d, f) \/ RemoveFile(d, f) \/ OutboundFile(d, f)
    \/ \E f \in Files, p \in Folders : MoveFile(d, f, p)
    \/ CreateOther(d)
    \/ \E p \in Folders : OutboundFolder(d, p)
    \/ Inbound(d)

ConflictNext == \E d \in Devices : DeviceNext(d)

ConflictSpec == ConflictInit /\ [][ConflictNext]_vars

(***************************************************************************)
(* Properties                                                              *)
(***************************************************************************)
Contents(d) == {files[d][f].content : f \in Known(d)}
Readable(d) == {files[d][f].content : f \in {x \in Files : IsReachable(d, x)}}
Uploaded == UNION {{server[f][v].content : v \in DOMAIN server[f]} : f \in Files}

\* What is neither an operation of a user nor an upload.
IsInbound == UNCHANGED <<edits, server>>

\* No synchronization with the server overwrites the only copy of a content: it stays in
\* one of the files of the device, be it a file no folder has.
DataIsKept ==
    [][IsInbound => \A d \in Devices : Contents(d) \ Uploaded \subseteq Contents(d)']_vars

\* The idea of a conflict is "to integrate the remote change, while trying as much as
\* possible to retain the local change": no synchronization with the server takes away a
\* content the user can read and that was not uploaded.
LocalChangesAreRetained ==
    [][IsInbound => \A d \in Devices : Readable(d) \ Uploaded \subseteq Readable(d)']_vars

\* A file that has nothing to upload is one of the versions the server has.
SyncedMeansSame ==
    \A d \in Devices : \A f \in Known(d) :
       LET m == files[d][f]
       IN ~m.need_sync =>
             /\ m.base.version \in DOMAIN server[f]
             /\ m.content = server[f][m.base.version].content
             /\ m.parent = server[f][m.base.version].parent

\* The case of a conflict about a file its parent does not have "is not possible", as the
\* sanity check of SyncConflictUpdater::update_manifests asserts.
ParentHasTheFile == ~panic

\* Nothing is left to upload or to fetch.
InSync ==
    \A d \in Devices :
       /\ \A f \in Files : /\ f \in Known(d) <=> Len(server[f]) > 0
                           /\ f \in Known(d) => /\ ~files[d][f].need_sync
                                                /\ files[d][f].base = Latest(f)
       /\ \A p \in Folders : ~folders[d][p].need_sync /\ folders[d][p].base = Latest(p)

\* Once everything is synchronized, everybody has the file somewhere, unless someone removed
\* it: "the file always has a valid parent".
FileIsSomewhere ==
    InSync /\ 1 \notin removed => \A d \in Devices : IsReachable(d, 1)

=============================================================================
