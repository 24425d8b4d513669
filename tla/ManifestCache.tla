---------------------------- MODULE ManifestCache ----------------------------
(***************************************************************************)
(* The manifest of one entry on a device: the copy in the local storage,   *)
(* the one in the cache, and the update lock.  A task that misses the      *)
(* cache reads the storage, then the server, and populates what it missed, *)
(* with or without the lock; a task that updates the manifest holds the    *)
(* lock, writes the storage, and only then the cache.                      *)
(*                                                                         *)
(* A manifest is the version it is based on and the number of the last     *)
(* local edition it contains (0 if it has none).                           *)
(***************************************************************************)
EXTENDS Naturals

CONSTANTS Accesses, NoTask, NoManifest,
          MaxVersion,     \* bound on the versions on the server
          MaxEdits        \* bound on the local editions

Manifest == [version : Nat, edit : Nat]

ASSUME CacheAssumption == NoTask \notin Accesses /\ NoManifest \notin Manifest

VARIABLES server,    \* the last version of the manifest on the server
          storage,   \* the manifest in the local storage
          cache,     \* the manifest in the cache
          lock,      \* the holder of the update lock
          kind,      \* what each task is there for: "read", "edit" or "sync"
          at,        \* where each task is
          got,       \* the manifest each task works on
          remote,    \* the version an inbound synchronization has fetched
          stamp      \* the number of the last edition that was stored

cacheVars == <<server, storage, cache, lock, kind, at, got, remote, stamp>>

CacheInit ==
    /\ server = 1 /\ storage = NoManifest /\ cache = NoManifest
    /\ lock = NoTask
    /\ kind = [t \in Accesses |-> "read"]
    /\ at = [t \in Accesses |-> "idle"]
    /\ got = [t \in Accesses |-> NoManifest]
    /\ remote = [t \in Accesses |-> 0]
    /\ stamp = 0

FromRemote(version) == [version |-> version, edit |-> 0]

Goto(t, label) == at' = [at EXCEPT ![t] = label]

\* A task returns, and its updater, if it has one, releases the lock.
Release(t) ==
    /\ Goto(t, "idle")
    /\ lock' = IF lock = t THEN NoTask ELSE lock

\* Another device uploads a version.
Upload ==
    /\ server < MaxVersion
    /\ server' = server + 1
    /\ UNCHANGED <<storage, cache, lock, kind, at, got, remote, stamp>>

\* `get_manifest`
GetManifest(t) ==
    /\ at[t] = "idle"
    /\ kind' = [kind EXCEPT ![t] = "read"]
    /\ Goto(t, IF cache # NoManifest THEN "idle" ELSE "lookup")
    /\ UNCHANGED <<server, storage, cache, lock, got, remote, stamp>>

\* The lock and the manifest in cache are taken together.
TakeLock(t, k) ==
    /\ lock = NoTask /\ lock' = t
    /\ kind' = [kind EXCEPT ![t] = k]
    /\ got' = [got EXCEPT ![t] = cache]
    /\ UNCHANGED <<server, storage, cache, remote, stamp>>

\* `for_update_folder`, `for_update_file` and `for_update_sync_local_only` populate the
\* cache with the lock.
ForUpdate(t) ==
    /\ at[t] = "idle"
    /\ TakeLock(t, "edit")
    /\ Goto(t, IF cache # NoManifest THEN "update" ELSE "lookup")

\* An inbound synchronization begins with the server.
FetchForSync(t) ==
    /\ at[t] = "idle"
    /\ remote' = [remote EXCEPT ![t] = server]
    /\ kind' = [kind EXCEPT ![t] = "sync"]
    /\ Goto(t, "retrieve")
    /\ UNCHANGED <<server, storage, cache, lock, got, stamp>>

\* Mutant of RetrieveFromCache: what was not found is not looked for in cache again.
RetrieveStillMissing(t) ==
    /\ \/ at[t] = "missing"
       \/ at[t] = "retrieve" /\ cache # NoManifest
    /\ lock = NoTask /\ lock' = t
    /\ got' = [got EXCEPT ![t] = IF at[t] = "missing" THEN NoManifest ELSE cache]
    /\ Goto(t, "update")
    /\ UNCHANGED <<server, storage, cache, kind, remote, stamp>>

\* `retrieve_path_from_id_and_lock_for_update` populates the cache without the lock, which
\* it takes once the manifest is in cache, or was not found.
RetrieveFromCache(t) ==
    /\ \/ at[t] = "missing"
       \/ at[t] = "retrieve" /\ cache # NoManifest
    /\ TakeLock(t, "sync")
    /\ Goto(t, "update")

RetrieveWouldBlock(t) ==
    /\ at[t] \in {"retrieve", "missing"} /\ lock # NoTask
    /\ Goto(t, "idle")
    /\ UNCHANGED <<server, storage, cache, lock, kind, got, remote, stamp>>

RetrieveNeedsPopulate(t) ==
    /\ at[t] = "retrieve" /\ cache = NoManifest
    /\ Goto(t, "lookup")
    /\ UNCHANGED <<server, storage, cache, lock, kind, got, remote, stamp>>

\* `populate_cache_from_local_storage`: what was found is then put in cache.  When there is
\* nothing, a synchronization goes on without, the others ask the server.
Lookup(t) ==
    /\ at[t] = "lookup"
    /\ got' = [got EXCEPT ![t] = storage]
    /\ Goto(t, IF storage # NoManifest THEN "insert"
               ELSE IF kind[t] = "sync" THEN "missing" ELSE "fetch")
    /\ UNCHANGED <<server, storage, cache, lock, kind, remote, stamp>>

Fetch(t) ==
    /\ at[t] = "fetch"
    /\ got' = [got EXCEPT ![t] = FromRemote(server)]
    /\ Goto(t, "populate")
    /\ UNCHANGED <<server, storage, cache, lock, kind, remote, stamp>>

\* The server cannot be reached.
FetchFails(t) ==
    /\ at[t] = "fetch"
    /\ Release(t)
    /\ UNCHANGED <<server, storage, cache, kind, got, remote, stamp>>

\* `populate_manifest` stores what was fetched unless there is something already, which
\* is then used instead.
Populate(t) ==
    /\ at[t] = "populate"
    /\ storage' = IF storage = NoManifest THEN got[t] ELSE storage
    /\ Goto(t, IF storage = NoManifest THEN "insert" ELSE "lookup")
    /\ UNCHANGED <<server, cache, lock, kind, got, remote, stamp>>

AfterInsert == [read |-> "idle", edit |-> "update", sync |-> "retrieve"]

\* Mutant of InsertIfMissing: what is in cache is overwritten.
InsertAlways(t) ==
    /\ at[t] = "insert"
    /\ cache' = got[t]
    /\ got' = got
    /\ Goto(t, AfterInsert[kind[t]])
    /\ UNCHANGED <<server, storage, lock, kind, remote, stamp>>

InsertIfMissing(t) ==
    /\ at[t] = "insert"
    /\ cache' = IF cache = NoManifest THEN got[t] ELSE cache
    /\ got' = [got EXCEPT ![t] = cache']
    /\ Goto(t, AfterInsert[kind[t]])
    /\ UNCHANGED <<server, storage, lock, kind, remote, stamp>>

\* Mutant of Update: the version of the server replaces the local manifest.
UpdateForgettingEdits(t) ==
    /\ at[t] = "update"
    /\ \/ /\ kind[t] = "edit" /\ stamp < MaxEdits
          /\ stamp' = stamp + 1
          /\ storage' = [got[t] EXCEPT !.edit = stamp + 1]
       \/ /\ kind[t] = "sync" /\ UNCHANGED stamp
          /\ storage' = FromRemote(remote[t])
    /\ got' = [got EXCEPT ![t] = storage']
    /\ Goto(t, "publish")
    /\ UNCHANGED <<server, cache, lock, kind, remote>>

\* The manifest is edited, or merged with the version of the server, and stored.
Update(t) ==
    /\ at[t] = "update"
    /\ \/ /\ kind[t] = "edit" /\ stamp < MaxEdits
          /\ stamp' = stamp + 1
          /\ storage' = [got[t] EXCEPT !.edit = stamp + 1]
       \/ /\ kind[t] = "sync" /\ UNCHANGED stamp
          /\ \/ got[t] = NoManifest /\ storage' = FromRemote(remote[t])
             \/ /\ got[t] # NoManifest /\ got[t].version < remote[t]
                /\ storage' = [got[t] EXCEPT !.version = remote[t]]
    /\ got' = [got EXCEPT ![t] = storage']
    /\ Goto(t, "publish")
    /\ UNCHANGED <<server, cache, lock, kind, remote>>

\* Nothing to merge, or the storage refuses the write.
UpdateNothing(t) ==
    /\ at[t] = "update"
    /\ Release(t)
    /\ UNCHANGED <<server, storage, cache, kind, got, remote, stamp>>

\* `insert`, then the updater is dropped.
Publish(t) ==
    /\ at[t] = "publish"
    /\ cache' = got[t]
    /\ Release(t)
    /\ UNCHANGED <<server, storage, kind, got, remote, stamp>>

\* The device stops at any point: only the storage remains.
Restart ==
    /\ cache' = NoManifest /\ lock' = NoTask
    /\ at' = [t \in Accesses |-> "idle"]
    /\ UNCHANGED <<server, storage, kind, got, remote, stamp>>

CacheNext ==
    \/ Upload
    \/ \E t \in Accesses :
          \/ GetManifest(t) \/ ForUpdate(t) \/ FetchForSync(t)
          \/ RetrieveFromCache(t) \/ RetrieveWouldBlock(t) \/ RetrieveNeedsPopulate(t)
          \/ Lookup(t) \/ Fetch(t) \/ FetchFails(t) \/ Populate(t)
          \/ InsertIfMissing(t) \/ Update(t) \/ UpdateNothing(t) \/ Publish(t)
    \/ Restart

CacheSpec == CacheInit /\ [][CacheNext]_cacheVars

(***************************************************************************)
(* Properties                                                              *)
(***************************************************************************)
CacheTypeOK ==
    /\ server \in Nat /\ stamp \in Nat
    /\ storage \in Manifest \cup {NoManifest}
    /\ cache \in Manifest \cup {NoManifest}
    /\ lock \in Accesses \cup {NoTask}
    /\ kind \in [Accesses -> {"read", "edit", "sync"}]
    /\ at \in [Accesses -> {"idle", "retrieve", "missing", "lookup", "fetch", "populate", "insert",
                         "update", "publish"}]
    /\ got \in [Accesses -> Manifest \cup {NoManifest}]
    /\ remote \in [Accesses -> Nat]

\* "If the cache is present, it always correspond to the latest value": the cache holds
\* what the storage does, but while the holder of the lock is between the two.
CacheIsLatest ==
    cache # NoManifest =>
       \/ cache = storage
       \/ \E t \in Accesses : lock = t /\ at[t] = "publish" /\ got[t] = storage

\* What an updater has read with the lock is still what is stored when it writes; one that
\* has found nothing overwrites no local edition.
UpdatersAreCurrent ==
    \A t \in Accesses : at[t] = "update" =>
       IF got[t] = NoManifest THEN stamp = 0 ELSE got[t] = storage

\* No edition is lost, whoever populates the storage and the cache in the meantime: the
\* manifest that is stored contains the last one.
NoEditIsLost ==
    IF storage = NoManifest THEN stamp = 0 ELSE storage.edit = stamp

\* An update never goes back to an older version of the server.
VersionsGrow ==
    [][storage # NoManifest => storage'.version >= storage.version]_cacheVars

=============================================================================
