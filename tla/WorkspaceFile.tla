----------------------------- MODULE WorkspaceFile -----------------------------
(***************************************************************************)
(* One file of a workspace on one device: the file descriptor operations,  *)
(* the local storage, and the outbound synchronization that runs beside    *)
(* them without holding the entry's lock.                                  *)
(*                                                                         *)
(* Every descriptor operation holds the opened file's mutex from start to  *)
(* end, so each is one action.  The outbound synchronization suspends at   *)
(* each storage or server call, and is split there.  The store is written  *)
(* to storage and then to the manifests cache under the entry's lock, so   *)
(* both are one variable.  The in-memory chunk cache may miss at any time  *)
(* and is left out.                                                        *)
(***************************************************************************)
EXTENDS FileContent

CONSTANTS
    Payloads,     \* the byte sequences a write may write
    MaxSize,      \* bound on the size of the file
    MaxEdits,     \* bound on the number of writes and resizes
    MaxVersion,   \* bound on the number of uploaded versions
    MaxCrashes,   \* bound on the number of crashes
    None

VARIABLES
    stored,    \* the local manifest in the store
    chunks,    \* chunks of the local storage that are not uploaded: id -> bytes
    cached,    \* blocks of the local block cache: a set of ids
    server,    \* uploaded blocks (id -> bytes) and manifests
    opened,    \* the OpenedFile, or None
    outbound,  \* the running outbound synchronization
    edits,     \* writes and resizes made so far
    crashes    \* crashes so far

fileVars == <<stored, chunks, cached, server, opened, outbound, edits, crashes>>

Idle == [pc |-> "idle"]

Panicked == [pc |-> "panicked"]

EmptyRemote == [version |-> 0, size |-> 0, blocks |-> <<>>]

FileInit ==
    /\ stored = [size |-> 0, blocks |-> <<>>, need_sync |-> TRUE, base |-> EmptyRemote]
    /\ chunks = <<>>
    /\ cached = {}
    /\ server = [blocks |-> <<>>, manifests |-> <<>>]
    /\ opened = None
    /\ outbound = Idle
    /\ edits = 0
    /\ crashes = 0

--------------------------------------------------------------------------------
(* Chunks and their data *)

UsedIds ==
    AllIds(stored.blocks) \cup DOMAIN chunks \cup DOMAIN server.blocks
        \cup (IF opened = None THEN {}
              ELSE AllIds(opened.manifest.blocks) \cup DOMAIN opened.new_chunks
                       \cup opened.removed_chunks)
        \cup (IF outbound.pc \in {"idle", "panicked"} THEN {}
              ELSE AllIds(outbound.manifest.blocks))

(* n identifiers nothing refers to; they are random in the code, so which ones *)
(* does not matter.                                                            *)
FreshIds(used, n) ==
    SubSeq(SetToSortSeq((1..(Cardinality(used) + n)) \ used, LAMBDA a, b : a < b), 1, n)

Without(f, ids) == [i \in DOMAIN f \ ids |-> f[i]]

(* The data of a view found without asking the server. *)
IsLocal(v, new) == v.id \in DOMAIN new \cup DOMAIN chunks \cup cached

(* The data of a view exists somewhere this device may read it. *)
IsReadable(v, new) == IsLocal(v, new) \/ (v.access /\ v.id \in DOMAIN server.blocks)

Data(id, new) ==
    IF id \in DOMAIN new THEN new[id]
    ELSE IF id \in DOMAIN chunks THEN chunks[id]
    ELSE server.blocks[id]

DataOf(views, new) == [id \in {views[i].id : i \in DOMAIN views} |-> Data(id, new)]

FdReadResult(m, new, size, offset) ==
    LET r == PrepareRead(m, size, offset)
        buf == Assemble(r.views, offset, DataOf(r.views, new))
    IN IF Len(buf) < r.size THEN buf \o Zeros(r.size - Len(buf)) ELSE buf

--------------------------------------------------------------------------------
(* The opened file *)

(* reshape(): every slot whose data is all local becomes a single block. *)
Reshaped(o) ==
    LET m == o.manifest
        todo == {k \in DOMAIN m.blocks :
                    /\ ~IsReshaped(m.blocks[k])
                    /\ \A i \in DOMAIN m.blocks[k] : IsLocal(m.blocks[k][i], o.new_chunks)}
        moved == {k \in todo : ToReshape(m.blocks[k])}
        ids == FreshIds(UsedIds \cup AllIds(m.blocks) \cup DOMAIN o.new_chunks
                            \cup o.removed_chunks, Cardinality(moved))
        id(k) == IF k \in moved THEN ids[Cardinality({j \in moved : j <= k})] ELSE 0
        data(k) == Assemble(m.blocks[k], m.blocks[k][1].start, DataOf(m.blocks[k], o.new_chunks))
        cleanup == UNION {CleanupIds(m.blocks[k]) : k \in todo}
        kept == Without(o.new_chunks, cleanup)
        made == {id(k) : k \in moved}
    IN [o EXCEPT
          !.manifest.blocks = [k \in DOMAIN @ |-> IF k \in todo THEN Commit(@[k], id(k)) ELSE @[k]],
          !.new_chunks = [i \in DOMAIN kept \cup made |->
                             IF i \in made THEN data(CHOOSE k \in moved : id(k) = i) ELSE kept[i]],
          !.removed_chunks = @ \cup (cleanup \ DOMAIN o.new_chunks)]

(* Any insertion in the manifests cache replaces the pointer a running outbound *)
(* synchronization compares.                                                    *)
OutboundLosesEntry ==
    outbound' = IF outbound.pc \in {"idle", "panicked"} THEN outbound
                ELSE [outbound EXCEPT !.unchanged = FALSE]

(* force_reshape_and_flush; the file is then closed, or kept as it is now. *)
Flush(o, closed) ==
    IF ~o.flush_needed
    THEN opened' = (IF closed THEN None ELSE o) /\ UNCHANGED <<stored, chunks, outbound>>
    ELSE LET r == Reshaped(o)
             all == [i \in DOMAIN chunks \cup DOMAIN r.new_chunks |->
                        IF i \in DOMAIN r.new_chunks THEN r.new_chunks[i] ELSE chunks[i]]
         IN /\ stored' = r.manifest
            /\ chunks' = Without(all, r.removed_chunks)
            /\ opened' = IF closed THEN None
                         ELSE [r EXCEPT !.new_chunks = <<>>, !.removed_chunks = {},
                                        !.written = 0, !.flush_needed = FALSE]
            /\ OutboundLosesEntry

(* maybe_early_reshape_and_flush *)
MaybeFlush(o) ==
    IF o.written >= BlockSize THEN Flush(o, FALSE)
    ELSE opened' = o /\ UNCHANGED <<stored, chunks, outbound>>

(* Forget the chunks an operation no longer uses: those still in memory are    *)
(* dropped, the others are removed from the storage by the next flush.         *)
Forget(o, removed) ==
    [o EXCEPT !.new_chunks = Without(@, removed),
              !.removed_chunks = @ \cup (removed \ DOMAIN o.new_chunks)]

OpenFile(truncate) ==
    /\ opened = None
    /\ LET cut == truncate /\ stored.size > 0
           r == PrepareResize(stored, 0)
       IN /\ cut => edits < MaxEdits
          /\ edits' = IF cut THEN edits + 1 ELSE edits
          /\ opened' = [manifest |-> IF cut THEN r.manifest ELSE stored, new_chunks |-> <<>>,
                        removed_chunks |-> IF cut THEN r.removed ELSE {},
                        written |-> 0, flush_needed |-> cut]
    /\ UNCHANGED <<stored, chunks, cached, server, outbound, crashes>>

FdWrite(offset, data) ==
    /\ opened # None
    /\ edits < MaxEdits
    /\ LET n == Cardinality(Slots(offset, Len(data)))
           w == PrepareWrite(opened.manifest, Len(data), offset, FreshIds(UsedIds, n))
           forgotten == Forget(opened, w.removed)
           new == {w.writes[i].id : i \in DOMAIN w.writes}
           bytes(id) == LET v == w.writes[CHOOSE i \in DOMAIN w.writes : w.writes[i].id = id]
                        IN SubSeq(data, v.start - offset + 1, v.stop - offset)
       IN MaybeFlush([forgotten EXCEPT
              !.manifest = w.manifest,
              !.new_chunks = [id \in DOMAIN @ \cup new |-> IF id \in new THEN bytes(id) ELSE @[id]],
              !.written = @ + Len(data),
              !.flush_needed = TRUE])
    /\ edits' = edits + 1
    /\ UNCHANGED <<cached, server, crashes>>

FdResize(length) ==
    /\ opened # None
    /\ edits < MaxEdits
    /\ length # opened.manifest.size
    /\ LET r == PrepareResize(opened.manifest, length)
       IN MaybeFlush([Forget(opened, r.removed) EXCEPT
              !.manifest = r.manifest, !.flush_needed = TRUE])
    /\ edits' = edits + 1
    /\ UNCHANGED <<cached, server, crashes>>

FdFlush ==
    /\ opened # None
    /\ Flush(opened, FALSE)
    /\ UNCHANGED <<cached, server, edits, crashes>>

FdClose ==
    /\ opened # None
    /\ Flush(opened, TRUE)
    /\ UNCHANGED <<cached, server, edits, crashes>>

(* fd_read leaves the blocks it had to download in the cache.  Reading slot by  *)
(* slot gives every set of blocks that longer reads may leave there.            *)
FdRead(slot) ==
    /\ opened # None
    /\ LET views == PrepareRead(opened.manifest, BlockSize, slot * BlockSize).views
           fetched == {views[i].id : i \in {j \in DOMAIN views :
                          ~IsLocal(views[j], opened.new_chunks) /\ IsReadable(views[j], <<>>)}}
       IN /\ fetched # {}
          /\ cached' = cached \cup fetched
    /\ UNCHANGED <<stored, chunks, server, opened, outbound, edits, crashes>>

(* may_cleanup_blocks drops the blocks accessed least recently. *)
CleanupBlock(id) ==
    /\ id \in cached
    /\ cached' = cached \ {id}
    /\ UNCHANGED <<stored, chunks, server, opened, outbound, edits, crashes>>

(* The process stops: what is only in memory is gone. *)
CrashFile ==
    /\ crashes < MaxCrashes
    /\ opened # None \/ outbound # Idle
    /\ crashes' = crashes + 1
    /\ opened' = None
    /\ outbound' = Idle
    /\ UNCHANGED <<stored, chunks, cached, server, edits>>

--------------------------------------------------------------------------------
(* Outbound synchronization *)

(* for_update_sync(entry_id, wait = false): the entry's lock is held for as    *)
(* long as the file is opened in write mode.                                   *)
LockIsFree == opened = None

OutboundStart ==
    /\ outbound = Idle
    /\ LockIsFree
    /\ stored.need_sync
    /\ outbound' = [pc |-> "reshape", manifest |-> stored, unchanged |-> TRUE,
                    slot |-> 1, data |-> None]
    /\ UNCHANGED <<stored, chunks, cached, server, opened, edits, crashes>>

(* EntryIsBusy, InboundSyncNeeded, or an error: the synchronization is given up *)
(* and started again later.                                                     *)
GiveUp == outbound' = Idle

OutboundAborts ==
    /\ outbound.pc \notin {"idle", "panicked"}
    /\ GiveUp
    /\ UNCHANGED <<stored, chunks, cached, server, opened, edits, crashes>>

NextToReshape ==
    LET todo == {k \in DOMAIN outbound.manifest.blocks : ~IsReshaped(outbound.manifest.blocks[k])}
    IN IF todo = {} THEN 0 ELSE Min(todo)

(* do_next_reshape_operation, 1): the data of the slot, downloaded if needed. A *)
(* chunk found nowhere ends in a todo!().                                       *)
ReshapeRead ==
    /\ outbound.pc = "reshape"
    /\ LET k == NextToReshape
           views == outbound.manifest.blocks[k]
       IN IF k = 0
          THEN outbound' = [outbound EXCEPT !.pc = "upload"] /\ UNCHANGED cached
          ELSE IF \A i \in DOMAIN views : IsReadable(views[i], <<>>)
          THEN /\ outbound' = [outbound EXCEPT
                      !.pc = "commit",
                      !.data = Assemble(views, views[1].start, DataOf(views, <<>>))]
               /\ cached' = cached \cup {views[i].id : i \in
                      {j \in DOMAIN views : ~IsLocal(views[j], <<>>)}}
          ELSE outbound' = Panicked /\ UNCHANGED cached
    /\ UNCHANGED <<stored, chunks, server, opened, edits, crashes>>

ReshapeCommit ==
    /\ outbound.pc = "commit"
    /\ IF ~LockIsFree \/ ~outbound.unchanged
       THEN GiveUp /\ UNCHANGED <<stored, chunks>>
       ELSE LET k == NextToReshape
                views == outbound.manifest.blocks[k]
                commit == Commit(views, FreshIds(UsedIds, 1)[1])
                id == commit[1].id
                all == [i \in DOMAIN chunks \cup {id} |->
                           IF i = id THEN outbound.data ELSE chunks[i]]
            IN /\ stored' = [outbound.manifest EXCEPT !.blocks[k] = commit]
               /\ chunks' = Without(all, CleanupIds(views))
               /\ outbound' = [outbound EXCEPT !.pc = "reshape", !.data = None,
                                               !.manifest.blocks[k] = commit]
    /\ UNCHANGED <<cached, server, opened, edits, crashes>>

(* A mutant: only the first slot is uploaded. *)
UploadGetFirst ==
    /\ outbound.pc = "upload"
    /\ LET views == outbound.manifest.blocks[1]
       IN outbound' = IF outbound.slot = 1 /\ outbound.manifest.blocks # <<>>
                         /\ Len(views) = 1 /\ views[1].id \in DOMAIN chunks
                      THEN [outbound EXCEPT !.pc = "put", !.data = chunks[views[1].id]]
                      ELSE [outbound EXCEPT !.pc = "manifest"]
    /\ UNCHANGED <<stored, chunks, cached, server, opened, edits, crashes>>

(* upload_blocks, 1): a slot that is not a single view fails the assertion; a  *)
(* chunk the storage does not have is taken as uploaded.                       *)
UploadGet ==
    /\ outbound.pc = "upload"
    /\ LET k == outbound.slot
           views == outbound.manifest.blocks[k]
       IN IF k > Len(outbound.manifest.blocks)
          THEN outbound' = [outbound EXCEPT !.pc = "manifest"]
          ELSE IF Len(views) # 1
          THEN outbound' = Panicked
          ELSE IF views[1].id \notin DOMAIN chunks
          THEN outbound' = [outbound EXCEPT !.slot = @ + 1]
          ELSE outbound' = [outbound EXCEPT !.pc = "put", !.data = chunks[views[1].id]]
    /\ UNCHANGED <<stored, chunks, cached, server, opened, edits, crashes>>

(* upload_blocks, 2): a block that already exists is not replaced. *)
UploadPut ==
    /\ outbound.pc = "put"
    /\ LET id == outbound.manifest.blocks[outbound.slot][1].id IN
       server' = IF id \in DOMAIN server.blocks THEN server
                 ELSE [server EXCEPT !.blocks = [i \in DOMAIN @ \cup {id} |->
                          IF i = id THEN outbound.data ELSE @[i]]]
    /\ outbound' = [outbound EXCEPT !.pc = "promote", !.data = None]
    /\ UNCHANGED <<stored, chunks, cached, opened, edits, crashes>>

(* upload_blocks, 3): promote_local_only_chunk_to_uploaded_block. *)
UploadPromote ==
    /\ outbound.pc = "promote"
    /\ LET id == outbound.manifest.blocks[outbound.slot][1].id IN
       /\ cached' = IF id \in DOMAIN chunks THEN cached \cup {id} ELSE cached
       /\ chunks' = Without(chunks, {id})
    /\ outbound' = [outbound EXCEPT !.pc = "upload", !.slot = @ + 1]
    /\ UNCHANGED <<stored, server, opened, edits, crashes>>

(* upload_manifest: the server only takes the version after its last one. *)
UploadManifest ==
    /\ outbound.pc = "manifest"
    /\ LET remote == ToRemote(outbound.manifest) IN
       IF remote.version = Len(server.manifests) + 1
       THEN /\ remote.version <= MaxVersion
            /\ server' = [server EXCEPT !.manifests = Append(@, remote)]
            /\ outbound' = [outbound EXCEPT !.pc = "acknowledge"]
       ELSE GiveUp /\ UNCHANGED server
    /\ UNCHANGED <<stored, chunks, cached, opened, edits, crashes>>

Acknowledge ==
    /\ outbound.pc = "acknowledge"
    /\ stored' = IF LockIsFree /\ outbound.unchanged
                 THEN FromRemote(ToRemote(outbound.manifest)) ELSE stored
    /\ outbound' = Idle
    /\ UNCHANGED <<chunks, cached, server, opened, edits, crashes>>

(* Inbound synchronization of a version this device uploaded without taking note *)
(* of it: merge_local_file_manifest keeps the local content over the new base.   *)
InboundSync ==
    /\ LockIsFree
    /\ Len(server.manifests) > stored.base.version
    /\ LET remote == server.manifests[Len(server.manifests)] IN
       stored' = IF stored.need_sync THEN [stored EXCEPT !.base = remote] ELSE FromRemote(remote)
    /\ OutboundLosesEntry
    /\ UNCHANGED <<chunks, cached, server, opened, edits, crashes>>

--------------------------------------------------------------------------------
LocalNext(payloads, sizes) ==
    \/ \E truncate \in BOOLEAN : OpenFile(truncate)
    \/ \E data \in payloads : \E offset \in {p \in sizes : p + Len(data) \in sizes} :
          FdWrite(offset, data)
    \/ \E length \in sizes : FdResize(length)
    \/ FdFlush
    \/ FdClose
    \/ CrashFile

SyncNext ==
    \/ \E slot \in Slots(0, MaxSize) : FdRead(slot)
    \/ \E id \in cached : CleanupBlock(id)
    \/ OutboundStart
    \/ OutboundAborts
    \/ ReshapeRead
    \/ ReshapeCommit
    \/ UploadGet
    \/ UploadPut
    \/ UploadPromote
    \/ UploadManifest
    \/ Acknowledge
    \/ InboundSync

FileNext == LocalNext(Payloads, 0..MaxSize) \/ SyncNext

FileSpec == FileInit /\ [][FileNext]_fileVars

--------------------------------------------------------------------------------
(* Reference definitions: what a manifest says its bytes are. *)

(* Byte p of the file: that of the view covering it, zero in a hole, None when  *)
(* its data is nowhere.                                                         *)
ByteAt(m, new, p) ==
    LET slot == p \div BlockSize + 1
        views == IF slot <= Len(m.blocks) THEN m.blocks[slot] ELSE <<>>
        over == {i \in DOMAIN views : views[i].start <= p /\ p < views[i].stop}
        v == views[CHOOSE i \in over : TRUE]
    IN IF over = {} THEN 0
       ELSE IF IsReadable(v, new) THEN Data(v.id, new)[p - v.raw_offset + 1]
       ELSE None

ContentOf(m, new) == [p \in 1..m.size |-> ByteAt(m, new, p - 1)]

Current == IF opened = None THEN [manifest |-> stored, new_chunks |-> <<>>]
           ELSE [manifest |-> opened.manifest, new_chunks |-> opened.new_chunks]

Abstract == INSTANCE AbstractFile WITH
    content <- ContentOf(Current.manifest, Current.new_chunks),
    durable <- ContentOf(stored, <<>>)

--------------------------------------------------------------------------------
(* Properties *)

(* Types, with what ties the variables together: a cached block exists on the     *)
(* server, and an operation that has written a whole block has flushed it.        *)
FileTypeOK ==
    /\ stored.need_sync \in BOOLEAN /\ stored.size \in 0..MaxSize
    /\ cached \subseteq DOMAIN server.blocks
    /\ outbound.pc \in {"idle", "panicked", "reshape", "commit", "upload", "put", "promote",
                        "manifest", "acknowledge"}
    /\ opened # None => opened.written \in 0..(BlockSize - 1)

(* fd_read, which searches the slots by bisection and pads the gaps, returns     *)
(* for every offset and size exactly the bytes the manifest defines.             *)
ReadsAgree ==
    opened # None =>
    LET bytes == ContentOf(opened.manifest, opened.new_chunks) IN
    \A offset \in 0..MaxSize : \A size \in 1..MaxSize :
        FdReadResult(opened.manifest, opened.new_chunks, size, offset)
            = SubSeq(bytes, offset + 1, Min({offset + size, Len(bytes)}))

(* check_data_integrity holds of the manifest in the store and of the opened one *)
(* (from_remote and to_remote panic when it does not).                           *)
ManifestsAreSound == Integrity(stored) /\ Integrity(Current.manifest)

(* Whatever the user and the outbound synchronization do and wherever a crash    *)
(* falls, the file behaves as the array of bytes of AbstractFile: reshaping,     *)
(* uploading, merging and cleaning up chunks change no byte, and no byte becomes *)
(* unreadable.                                                                   *)
BehavesAsByteArray == Abstract!AbstractSpec

(* A manifest that no longer needs to be synchronized is the one on the server:  *)
(* its version exists there and gives the same bytes from uploaded blocks alone. *)
SyncedMeansUploaded ==
    ~stored.need_sync =>
        /\ stored.base.version \in DOMAIN server.manifests
        /\ stored.base = server.manifests[stored.base.version]
        /\ \A i \in DOMAIN stored.base.blocks : stored.base.blocks[i].id \in DOMAIN server.blocks
        /\ ContentOf(stored, <<>>) = ContentOf(FromRemote(stored.base), <<>>)

(* The local storage keeps no chunk that the stored manifest does not use: what  *)
(* removed_chunks and cleanup_ids list is enough, at each flush.                 *)
NoOrphanChunk == DOMAIN chunks \subseteq AllIds(stored.blocks)

--------------------------------------------------------------------------------
(* Statements of the source that the code does not meet *)

(* outbound_sync_file: "The uploaded manifest should only refers to data that    *)
(* exist on the server."                                                         *)
UploadedDataExists ==
    \A n \in DOMAIN server.manifests : \A i \in DOMAIN server.manifests[n].blocks :
        server.manifests[n].blocks[i].id \in DOMAIN server.blocks

(* upload_blocks: "Sanity check: the manifest is guaranteed to be reshaped", that *)
(* is, every slot is a single view.                                              *)
SlotsToUploadAreReshaped ==
    outbound.pc = "upload" /\ outbound.slot <= Len(outbound.manifest.blocks)
        => Len(outbound.manifest.blocks[outbound.slot]) = 1

(* do_next_reshape_operation takes a chunk it cannot find as "manifest seems to  *)
(* contain invalid data (or the server is lying to us)".                         *)
ChunksToReshapeExist ==
    outbound.pc = "reshape" /\ NextToReshape # 0 =>
        \A i \in DOMAIN outbound.manifest.blocks[NextToReshape] :
            IsReadable(outbound.manifest.blocks[NextToReshape][i], <<>>)

(* has_file_content_changed_in_local: "Return `true` if the file manifest has    *)
(* some local changes related to its content."                                   *)
ContentChangeIsSeen ==
    LET base == ContentOf(FromRemote(stored.base), <<>>) IN
    (\A p \in DOMAIN base : base[p] # None) /\ ContentOf(stored, <<>>) # base
        => HasFileContentChanged(stored)

================================================================================
