----------------------------- MODULE FolderSync -----------------------------
(***************************************************************************)
(* One folder of a workspace shared by several devices: each edits its own *)
(* local manifest, uploads it when the server has no newer version, and    *)
(* merges the versions the others uploaded.  The inbound and the outbound  *)
(* synchronizations of a device run concurrently with each other and with  *)
(* the editions, and a restart of the device loses both.                   *)
(***************************************************************************)
EXTENDS FolderManifest

CONSTANTS Devices,        \* the devices that have access to the workspace
          Creator,        \* the one that created the workspace
          Names,          \* the names the users type
          Self,           \* the id of the folder, its own parent when it is the root
          Parents,        \* the folders it may be moved to when it is not
          Patterns,       \* the "prevent sync" patterns a device may be given
          Operations,     \* the editions the users may do
          MaxEdits,       \* bound on the number of editions
          MaxVersion,     \* bound on the number of uploaded versions
          MaxRestarts     \* bound on the number of restarts and lost storages

ASSUME FolderSyncAssumption == Creator \in Devices /\ Self \notin Parents

VARIABLES local,       \* the local manifest of each device
          pattern,     \* the pattern each device runs with
          server,      \* the versions of the manifest on the server, oldest first
          outbound,    \* the ongoing outbound synchronization of each device
          inbound,     \* the version each device has fetched and not merged yet
          created,     \* number of entries created so far: the ids are 1 .. created
          removed,     \* entries that some user removed, replaced or gave a confined name
          edits, restarts

syncVars == <<local, pattern, server, outbound, inbound, created, removed, edits, restarts>>

None == [step |-> "none"]

Latest == server[Len(server)]

AnyParent == CHOOSE p \in Parents : TRUE

IsRoot(d) == local[d].parent = Self

\* The root is created by one device and speculative on the others; another folder is
\* known to a device once it has been fetched.
FolderSyncInit ==
    /\ pattern \in [Devices -> Patterns]
    /\ LET v1 == FolderToRemote(NewFolder(Creator, AnyParent, FALSE), Creator)
       IN \/ /\ server = <<>>
             /\ local = [d \in Devices |-> NewFolder(d, Self, d # Creator)]
          \/ /\ server = <<v1>>
             /\ local = [d \in Devices |-> FromRemote(v1, pattern[d])]
    /\ outbound = [d \in Devices |-> None]
    /\ inbound = [d \in Devices |-> None]
    /\ created = 0 /\ removed = {} /\ edits = 0 /\ restarts = 0

\* A new manifest is stored, and a running outbound synchronization will notice it: it
\* compares the pointers of the manifests.
Store(d, m) ==
    /\ local' = [local EXCEPT ![d] = m]
    /\ outbound' = [outbound EXCEPT ![d] =
                       IF @ = None THEN @ ELSE [@ EXCEPT !.unchanged = FALSE]]

(***************************************************************************)
(* Editions of the folder, each under the update lock of the manifest.     *)
(***************************************************************************)
Edit(d, data) ==
    /\ edits < MaxEdits
    /\ edits' = edits + 1
    /\ Store(d, Evolve(local[d], data, pattern[d]))
    /\ UNCHANGED <<pattern, server, inbound, restarts>>

CreateEntry(d, n) ==
    /\ "create" \in Operations
    /\ n \notin DOMAIN local[d].children
    /\ created' = created + 1
    /\ Edit(d, [x \in {n} |-> created + 1])
    /\ UNCHANGED removed

RemoveEntry(d, n) ==
    /\ "remove" \in Operations
    /\ n \in DOMAIN local[d].children
    /\ removed' = removed \cup {local[d].children[n]}
    /\ Edit(d, [x \in {n} |-> NoEntry])
    /\ UNCHANGED created

\* `move_entry_same_parent`, the destination being replaced when it exists.
RenameEntry(d, n, m) ==
    /\ "rename" \in Operations
    /\ n # m /\ n \in DOMAIN local[d].children
    /\ LET replaced == {m} \cap DOMAIN local[d].children
           confined == {x \in {n} : IsMatch(pattern[d], m)}
       IN removed' = removed \cup {local[d].children[x] : x \in replaced \cup confined}
    /\ Edit(d, [x \in {n, m} |-> IF x = n THEN NoEntry ELSE local[d].children[n]])
    /\ UNCHANGED created

\* `move_entry_different_parents`, seen from the entry which is moved.
Reparent(d, p) ==
    /\ ~IsRoot(d) /\ edits < MaxEdits /\ p # local[d].parent
    /\ edits' = edits + 1
    /\ Store(d, [local[d] EXCEPT !.parent = p, !.need_sync = TRUE])
    /\ UNCHANGED <<pattern, server, inbound, created, removed, restarts>>

(***************************************************************************)
(* Outbound synchronization: the manifest is read under the lock, uploaded *)
(* without it, and the upload is acknowledged under the lock again.        *)
(***************************************************************************)
OutboundStart(d) ==
    /\ outbound[d] = None
    /\ local[d].need_sync
    /\ outbound' = [outbound EXCEPT ![d] = [step |-> "upload", local |-> local[d],
                                              unchanged |-> TRUE]]
    /\ UNCHANGED <<local, pattern, server, inbound, created, removed, edits, restarts>>

UploadManifest(d) ==
    /\ outbound[d].step = "upload"
    /\ LET remote == FolderToRemote(outbound[d].local, d)
       IN IF remote.version = Len(server) + 1
          THEN /\ Len(server) < MaxVersion
               /\ server' = Append(server, remote)
               /\ outbound' = [outbound EXCEPT ![d].step = "acknowledge"]
          ELSE /\ outbound' = [outbound EXCEPT ![d] = None]   \* InboundSyncNeeded
               /\ UNCHANGED server
    /\ UNCHANGED <<local, pattern, inbound, created, removed, edits, restarts>>

Acknowledge(d) ==
    /\ outbound[d].step = "acknowledge"
    /\ IF ~outbound[d].unchanged
       THEN UNCHANGED local                                   \* EntryIsBusy
       ELSE \E m \in ApplyConfinement(
                        UnconfinedFromRemote(FolderToRemote(outbound[d].local, d)),
                        outbound[d].local, pattern[d]) :
               local' = [local EXCEPT ![d] = m]
    /\ outbound' = [outbound EXCEPT ![d] = None]
    /\ UNCHANGED <<pattern, server, inbound, created, removed, edits, restarts>>

(***************************************************************************)
(* Inbound synchronization: the last version is fetched without the lock   *)
(* and merged under it.                                                    *)
(***************************************************************************)
FetchManifest(d) ==
    /\ inbound[d] = None
    /\ Len(server) > local[d].base.version
    /\ inbound' = [inbound EXCEPT ![d] = [step |-> "merge", remote |-> Latest]]
    /\ UNCHANGED <<local, pattern, server, outbound, created, removed, edits, restarts>>

MergeManifest(d) ==
    /\ inbound[d].step = "merge"
    /\ inbound' = [inbound EXCEPT ![d] = None]
    /\ LET merged == MergeFolder(d, pattern[d], local[d], inbound[d].remote)
       IN \/ merged = {} /\ UNCHANGED <<local, outbound>>
          \/ \E m \in merged : Store(d, m)
    /\ UNCHANGED <<pattern, server, created, removed, edits, restarts>>

(***************************************************************************)
(* A device stops at any point and starts again, maybe with another        *)
(* pattern, which `ensure_prevent_sync_pattern_applied_to_wksp` applies    *)
(* before anything else; or its local storage is removed, and the root of  *)
(* the workspace is a speculative placeholder again.                       *)
(***************************************************************************)
Restart(d) ==
    /\ restarts < MaxRestarts /\ restarts' = restarts + 1
    /\ \E p \in IF "repattern" \in Operations THEN Patterns ELSE {pattern[d]} :
          /\ pattern' = [pattern EXCEPT ![d] = p]
          /\ IF p = pattern[d]
             THEN UNCHANGED <<local, removed>>
             ELSE \E m \in ApplyPreventSyncPattern(local[d], p) :
                     /\ local' = [local EXCEPT ![d] = m]
                     /\ removed' = removed \cup m.local_confinement_points
    /\ outbound' = [outbound EXCEPT ![d] = None]
    /\ inbound' = [inbound EXCEPT ![d] = None]
    /\ UNCHANGED <<server, created, edits>>

LoseStorage(d) ==
    /\ IsRoot(d) /\ "lose" \in Operations
    /\ restarts < MaxRestarts /\ restarts' = restarts + 1
    /\ local' = [local EXCEPT ![d] = NewFolder(d, Self, TRUE)]
    /\ outbound' = [outbound EXCEPT ![d] = None]
    /\ inbound' = [inbound EXCEPT ![d] = None]
    /\ UNCHANGED <<pattern, server, created, removed, edits>>

Synchronize(d) ==
    \/ OutboundStart(d) \/ UploadManifest(d) \/ Acknowledge(d)
    \/ FetchManifest(d) \/ MergeManifest(d)

FolderSyncNext ==
    \E d \in Devices :
       \/ \E n \in Names : CreateEntry(d, <<n>>)
       \/ \E n \in DOMAIN local[d].children : RemoveEntry(d, n)
       \/ \E n \in DOMAIN local[d].children, m \in Names : RenameEntry(d, n, <<m>>)
       \/ \E p \in Parents : Reparent(d, p)
       \/ Synchronize(d)
       \/ Restart(d)
       \/ LoseStorage(d)

FolderSyncSpec == FolderSyncInit /\ [][FolderSyncNext]_syncVars

\* The monitors of a device run for as long as it is connected, retrying what failed: a
\* synchronization that can start starts, and one that has started goes on to its end.
InboundEnds(d) == inbound[d].step = "merge" /\ inbound' = [inbound EXCEPT ![d] = None]

OutboundEnds(d) == outbound[d].step = "acknowledge" /\ outbound' = [outbound EXCEPT ![d] = None]

SyncFairness ==
    \A d \in Devices :
       /\ WF_syncVars(OutboundStart(d)) /\ WF_syncVars(UploadManifest(d))
       /\ WF_outbound(OutboundEnds(d))
       /\ WF_syncVars(FetchManifest(d)) /\ WF_inbound(InboundEnds(d))

FairFolderSync == FolderSyncSpec /\ SyncFairness

(***************************************************************************)
(* Properties                                                              *)
(***************************************************************************)
Ids(children) == {children[n] : n \in DOMAIN children}

HasNoDuplicate(children) ==
    \A n, m \in DOMAIN children : children[n] = children[m] => n = m

\* Every manifest, local or on the server, gives each entry at most one name, the
\* confinement points of a local manifest are entries it has (local ones) and entries its
\* base has (remote ones), and its base is the version of the server it claims to be.
ManifestsAreSound ==
    /\ \A v \in 1 .. Len(server) : server[v].version = v /\ HasNoDuplicate(server[v].children)
    /\ \A d \in Devices :
          /\ HasNoDuplicate(local[d].children)
          /\ local[d].local_confinement_points \subseteq Ids(local[d].children)
          /\ local[d].remote_confinement_points \subseteq Ids(local[d].base.children)
          /\ local[d].base.version > 0 => local[d].base = server[local[d].base.version]

\* The assertions of `evolve_children_and_mark_updated` hold in every call a
\* synchronization or a change of pattern makes: an entry is never given two names, and
\* no name that is not there is removed.
NoSynchronizationPanics ==
    \A d \in Devices :
       /\ (outbound[d].step = "acknowledge" /\ outbound[d].unchanged) =>
             ~ApplyConfinementPanics(
                  UnconfinedFromRemote(FolderToRemote(outbound[d].local, d)),
                  outbound[d].local, pattern[d])
       /\ inbound[d].step = "merge" =>
             \A u \in MergeUnconfined(d, local[d], inbound[d].remote) :
                ~ApplyConfinementPanics(u, local[d], pattern[d])
       /\ \A p \in Patterns : ~ApplyConfinementPanics(RemoveConfinement(local[d]), local[d], p)


\* No synchronization loses an entry: an entry that no user removed, replaced or confined
\* stays in the manifest of a device, or among the ones hidden there by the pattern, and
\* stays on the server; an entry confined on a device stays there as long as it is.
SyncLosesNothing ==
    [][\A d \in Devices :
         /\ (edits' = edits /\ restarts' = restarts) =>
               local[d].local_confinement_points \subseteq Ids(local'[d].children)
         /\ (local'[d] # local[d] /\ ~local'[d].speculative) =>
               (Ids(local[d].children) \cup local[d].remote_confinement_points) \ removed'
                 \subseteq Ids(local'[d].children) \cup local'[d].remote_confinement_points
         /\ (server' # server /\ server # <<>>) =>
               Ids(Latest.children) \ removed' \subseteq Ids(Latest'.children)]_syncVars

\* As long as no entry has been removed, replaced or confined by a user, and no pattern
\* changed, the synchronizations of all the devices lose none either: the merges, with their renames of
\* conflicting names, only add entries to a manifest and to the server.
EntriesSurviveSync ==
    [][removed' = {} /\ restarts' = 0 =>
         /\ \A d \in Devices :
               ~local'[d].speculative =>
                  Ids(local[d].children) \cup local[d].remote_confinement_points
                    \subseteq Ids(local'[d].children) \cup local'[d].remote_confinement_points
         /\ server # <<>> => Ids(Latest.children) \subseteq Ids(Latest'.children)]_syncVars

\* An entry hidden on a device by the pattern has not been deleted there, hence what the
\* device uploads still has it, whatever became of the pattern in the meantime.
HiddenEntriesAreUploaded ==
    [][\A d \in Devices :
         (server' # server /\ server # <<>> /\ Latest'.author = d) =>
            {Latest.children[n] : n \in {x \in DOMAIN Latest.children :
                \E p \in Patterns : IsMatch(p, x)}} \ removed'
              \subseteq Ids(Latest'.children)]_syncVars

\* Once the editions stop, every device ends up with nothing to upload, based on the last
\* version, showing exactly what the server has and what its own pattern keeps or hides.
\* (A device whose inbound synchronization always overtakes the acknowledgement of its own
\* upload uploads again and again: the runs where this exhausts the bound are left out.)
Converges ==
    <>[](\/ Len(server) = MaxVersion
         \/ \A d \in Devices :
               /\ ~local[d].need_sync
               /\ local[d].base.version = Len(server)
               /\ RemoveConfinement(local[d]).children = Latest.children)

=============================================================================
