# Parsec: a TLA+ verification of the server's certificates and of the client's workspaces

Parsec keeps the files of an organization end-to-end encrypted: the server stores certificates and
encrypted blobs and cannot read them, and every client validates what it is sent. The server therefore
has to accept only what every client will later accept, for requests whose timestamps are chosen by the
clients and which run concurrently. The client keeps the files of a workspace in a local storage, lets
several tasks change them at a time, and synchronizes them with what other devices did. These are the
two questions of this project.

## The system

Server (`server/parsec/`, Python, asyncio):

| Part | State | Operations | What is hard |
|---|---|---|---|
| Topic locks (`memory/datamodel.py`, `topics_lock`) | write marks, read counters, one shared `Event` | take, wait, release | nested use, cancellation, lost wake-ups |
| Organization (`memory/organization.py`) | settings, bootstrap token | create, bootstrap, update | a setting that changes while requests wait |
| Users and devices (`memory/user.py`) | the common topic: user, device, update and revocation certificates | create_user, create_device, revoke_user, update_user, freeze_user | administrators acting on each other; seats; revocations dated in the past |
| Realms (`memory/realm.py`) | one topic per realm: roles, key rotations, names | create, share, unshare, rename, rotate_key | roles and keys must stay in step, in timestamp order |
| Vlobs (`memory/vlob.py`) | versions of each vlob, update log | create, update, poll_changes | read locks only, webhooks awaited half way |
| Sequester (`memory/sequester.py`, `webhooks.py`) | services | create, configure, revoke; webhooks | a remote call inside a critical section |
| Blocks and blockstores | blocks, RAID nodes | create, read | partial failure |
| Invitations (`memory/invite.py`) | invitations, greeting attempts | start, step, cancel, complete | two parties stepping in lockstep |
| PKI, shamir recovery, accounts, authentication | enrollments, shares, codes, tokens | submit, accept, setup, ... | races with revocation, retries |
| Events | registered streams | send | loss, order |

Client (`libparsec/`, Rust):

| Part | State | Operations | What is hard |
|---|---|---|---|
| Certificate and manifest checks (`certif/add.rs`, `certif/manifest_validate.rs`) | the certificates received | add, validate | they must accept all the server stored |
| File content (`workspace/transactions/file_operations.rs`, `types/manifest/local/file.rs`) | chunk views, blocks | read, write, resize, flush, reshape | boundaries, holes, crashes between two stores |
| File synchronization (`outbound_sync.rs`) | snapshot, blocks on the server | reshape, upload, acknowledge | the file changes meanwhile |
| Opened files (`open_file.rs`, `fd_*.rs`) | descriptors, cursors, update lock | open, write, flush, close, stop | two mutexes, references that survive a close |
| Folders (`types/manifest/local/folder.rs`, `merge.rs`) | children, confinement points, pattern | evolve, merge, upload, change of pattern | merges in any order |
| Tree transactions (`move_entry.rs`, `remove_entry.rs`, `create_*.rs`, `store/resolve_path.rs`) | manifests, update locks | create, remove, rename, move | several locks, taken one by one |
| Manifest cache (`store/cache.rs`, `store/*_updater.rs`) | cache, storage, lock | populate, read, update | populated while it is updated |
| Conflicts (`inbound_sync.rs`, `store/sync_updater.rs`) | file, copy, parent | merge, settle a conflict | three manifests change at once |

The certificate store, the commands with their retries, the user manifest, the monitors, claimer and
greeter, mountpoint, device loader and bindings complete the client.

A handler of the server takes the lock on the common topic, checks its author, takes a nested lock on
the realm it is about, checks roles, keys and timestamps, may await the webhooks of the sequester
services, stores, sends an event and leaves both locks. A client later downloads the certificates,
ordered by timestamp with the common topic first, and checks each against those it already has; it
checks a vlob against the certificates up to the vlob's timestamp.

## Modules

| Module | What it is |
|---|---|
| `TopicsLock` | state and steps of `topics_lock` |
| `LockTasks` | any tasks nesting any lock requests, with cancellation of a waiter |
| `Organization` | the abstract specification: one atomic action per accepted request, and the checks of the clients as operators |
| `Server` | extends both: the same requests as tasks that are suspended at locks, webhooks and events |
| `FileContent`, `WorkspaceFile`, `AbstractFile` | the content of a file as operators; a file that is edited, flushed, synchronized and lost in a crash; a plain array of bytes, which it implements |
| `FolderManifest`, `FolderSync` | folder manifests and their merge as operators; two devices that synchronize one folder |
| `FolderTree`, `AbstractTree` | concurrent calls on the tree of a workspace; a tree with atomic operations, which it implements |
| `ManifestCache` | one manifest in cache, storage and server, used by several tasks |
| `RetrievePath` | the search for the path of an entry, over any graph of parents |
| `OpenedFiles` | one file opened by several tasks |
| `ConflictSync` | one file edited and moved on several devices |
| `LockProofs` | theorems about `LockTasks`, `FolderTree` and `ManifestCache`: tasks that share locks |
| `OrganizationProofs` | types of `Organization`; owners and administrators |
| `RealmProofs`, `KeyProofs` | vlobs and realm certificates; keys and revocations |
| `CommonProofs` | common certificates; the invariants of seats and of the update log |
| `HandlerProofs`, `ServerProofs` | what a suspended handler can rely on; that `Server` implements `Organization`; seats and the update log |
| `OpenedFilesProofs` | theorems about `OpenedFiles` |
| `MC..` | instances for TLC; where one run has two instances, a variable that never changes (`few`, `online`, `alone`, `writing`, `still`) says which |

**TopicsLock.** `writeLocked` is `_topic_write_locked`, `readLocked` is `_topic_read_locked`, `event` says that
the shared Event exists, `waiting` is who waits on the current one. asyncio runs the code between two
suspension points without interruption, so each operator is such a piece. Releasing replaces the Event:
its waiters become runnable and later ones wait on the new one.

**Organization.** A certificate is the record of the fields the checks read; keys are indexes, and a keys
bundle access is its recipient and timestamp. A user with an empty `profiles` sequence and a realm with
empty `roles` do not exist. Each request has one operator for the checks under the first lock, one for
the checks under the nested lock, and one for the insertion, so that `Server` runs the same checks at the
places where the code makes them. A refused request, or an idempotent outcome, changes nothing.
`..Acceptable` and `Known..` are the client's checks.

**Server.** A task goes `idle`, `outer` (before or waiting for the first lock), `nested` (waiting for the second),
`webhook`, `sending`, `done`. When no lock conflicts the code runs through both locks without suspension, and
so does the step. `seen` holds the timestamps `topics_lock` yielded, which the code compares with after later
suspensions. `StepsAreAtomic` is the refinement: `Server` extends `Organization`, so the mapping is the
identity, and every step is one action of `Organization` or leaves its variables alone. `EnterBootstrap` is
the bootstrap of the organization: it has no author to check and takes the common topic only.

## Client modules

**FileContent, WorkspaceFile.** `stored`, `chunks` and `cached` are the tables of the local storage, `opened` the opened
file with the chunks it will store and remove at its next flush, `server` the uploaded blocks and manifests,
`outbound` the synchronization in progress, cut at each call of the storage or of the server. A crash keeps the
tables and the server. The refinement mapping of `BehavesAsByteArray` reads the whole file.

**FolderManifest, FolderSync.** The operators are the functions of `folder.rs`, `prevent_sync_pattern.rs` and `merge.rs`;
a name is the typed name and the suffixes merges have added. `inbound` and `outbound` are what a device has
fetched and not yet merged, and sent and not yet acknowledged.

**FolderTree.** A call goes `resolve`, `wait` (for a lock, and then again from the start), `check`, `commit`. Its
`read` is what it resolved, its `locks` what it kept. `view` is what the users see; `BehavesAsTree` (in
`MCFolderTree`) maps it to `AbstractTree`. The initial tree is any sound one (`SoundTree`): a folder and the children
it lists agree, and a child has one name in it.

**ManifestCache.** A task that misses the cache goes through storage and server before it populates the cache;
an update writes the storage and then the cache, under the lock.

**OpenedFiles.** `objects` are the opened files ever created, `fds` the descriptors, `task` what each call has in hand.
**ConflictSync.** A synchronization is one step, the content is the number of an edition.
**RetrievePath.** The graph of parents is chosen in the initial state and never changes.

## Runs

| Run | Instance | Shows |
|---|---|---|
| `locks` | 3 tasks, 4 topics, every nesting shape of the handlers (11 plans); 161,120 states | mutual exclusion, exact books, no lost wake-up, every task ends |
| `organization` | 2 users, 2 devices, 1 realm, 1 vlob with 2 versions; from the bootstrap with timestamps 1 to 4 and 1 key, or 5 requests later with timestamps to 6 and 2 keys; 145,805 states | what is stored is acceptable to clients, keys follow roles, polls are complete |
| `admins` | 5 users (two of one human), 4 devices, 3 seats, timestamps 1 to 5; 33,219 states | administrators, seats, the common topic |
| `server` | 3 tasks, 3 users, 2 realms, with and without webhooks, and before the bootstrap; two tasks run any handler and the third revokes or unshares, with webhooks one creates and two interfere; 90,658 states | handlers are atomic, also across awaited webhooks; every request ends |
| `file` | blocks of 2 bytes, sizes to 5; 3 edits and a crash offline, 2 edits, sizes 0, 1 and 3 (two slots) and 2 versions online; 66,658 states | a file is an array of bytes, what is synchronized is on the server, no chunk is left behind |
| `folder` | 2 devices, names `a` and `tmp`, patterns, 2 edits, 5 versions, 1 restart, the creator without a pattern at first; 484,581 states | sound manifests, no entry lost, convergence |
| `tree` | 4 entries and 2 to create; 2 calls of any kind one after the other, or 3 calls by 2 tasks about files; 284,585 states | the calls are atomic operations on a tree |
| `opened` | 3 tasks that write, or 2 of any mode with a stop; 2 descriptors, 2 changes; 276,310 states | one holder of the lock, no dangling descriptor, written data stored, every call returns |
| `conflict` | 3 devices that edit, or 2 that do anything; 4 edits, 1 copy; 741,378 states | no content that only one device has is overwritten |
| `manifest_cache` | 3 tasks, 2 versions, 2 edits | cache and storage agree, no edit is lost |
| `retrieve_path` | every graph over the root and 3 entries, up to renaming; 767,808 states | the path is right, the search ends when the parents exist |
| `uploaded_data_exists` | as `file`, online, 4 edits | a disagreement, see Findings |

Bounds. Three tasks are a holder, a waiter and one who interferes between the release and the retry.
Timestamps only are compared, so what counts is how many distinct ones a scenario needs: bootstrap,
enrollment, realm, key and share take four, and the second instance of `organization` starts after them with
two more on top of the unused ones below. Its initial state is one that `Bootstrap`, `CreateUser`, `CreateRealm`,
`RotateKey`, `Share` reach. A block of 2 bytes and payloads of 1 to 3 bytes put every boundary before, at and
after each other. Four editions are one per device and a later one. Two names, of which a pattern takes one, are
enough for a clash of names and a clash with a pattern. All bounds are constants whose name starts with `Max`,
but for `FewTs` and `FewKeys` of `MCOrganization`. Users, devices and tasks are symmetric where a cfg says
`SYMMETRY`; no run with a liveness property uses it. Deadlock checking is off where an instance has used up its
timestamps, versions or calls and has nothing left to do; the others end in a state that stutters.

The ballpark (a timestamp may be 300 s early or 320 s late with respect to the server's clock) is not
modelled: the runs let every timestamp be sent at any time, which are the behaviours within one window
and include those a moving window would refuse.

Fairness. Server: a runnable task is eventually run by the event loop; a body of `async with` ends; a webhook
answers, times out (the HTTP client's default timeout) or raises, and `finally` releases the locks. Nothing makes
a client send or cancel. Tasks run one request each, so starvation of a writer by an unending flow of readers,
which the lock does not prevent, is outside these runs. Client: a task that can go on does (`OpenedFairness`,
`FairRetrieve`), and the monitors synchronize again as long as something needs it (`SyncFairness`); users need not
do anything.

The instances with webhooks and updates have a single task that creates the vlob (`UpdatesAssumption`): a
second create replaces the list of versions an update in progress refers to, a consequence of the double
creation below. `OneCreator` says the same of all requests made while webhooks are awaited, with or without
an update: what the theorems about atomic steps assume.

## Findings

`UploadedDataExists`: a flush replaces a chunk between the snapshot and the upload, the missing chunk counts as
uploaded, and the manifest goes to the server without its data.

## Statements that do not hold

These definitions state what a comment or an error of the code promises; TLC refutes each of them on the
instances of the MC modules when it is added to a configuration. They are kept for the day the code changes.

| Statement | What happens |
|---|---|
| `NoVlobAfterRevocation` (Organization) | `revoke_user` compares a revocation with the realms its target is part of at that moment; a user who wrote a vlob and was then removed can be revoked with an earlier date. `RevocationIsCausal` holds: it is the same statement for realms the user never left. |
| `NoRoleForOutsider` (Organization) | `update_user` compares with the common topic only, so a change to OUTSIDER can be dated before a role of OWNER or MANAGER that is already stored. |
| `VlobCreatedOnce` (Server) | `vlob.create` tests for existence before the webhooks and stores after them under read locks: a create sent again meanwhile is accepted twice. |
| `SlotsToUploadAreReshaped`, `ChunksToReshapeExist` (WorkspaceFile) | the synchronization of a file with a hole meets an assertion; it looks for a chunk that a flush has replaced. |
| `ContentChangeIsSeen` (WorkspaceFile) | a file cut to nothing and extended to its former size counts as unchanged. |
| `SyncLosesNothing`, `HiddenEntriesAreUploaded` (FolderSync) | an entry renamed locally and removed remotely meets a new remote entry of its name; a confined entry takes the name of a hidden one after a change of pattern. `EntriesSurviveSync` is what holds. |
| `SnapshotsAreCurrent` (FolderTree) with exchanges across folders | the destination of the exchange is not locked. |
| `RemovedFolderIsEmpty`, `ParentsLeadToRoot`, `EveryCallReturns` (FolderTree) | the folder to remove is not locked; two moves can put two folders into each other; a move of a folder into itself waits for itself (`RemovalCalls`, `DeepMoves`, `IntoItselfCalls`). |
| `VersionsGrow` (ManifestCache) | a manifest fetched before the lock is taken is stored over a newer one. |
| `RetrievalEnds` (RetrievePath) | a missing parent is looked for again and again. |
| `NothingIsUndone`, `WritersHaveUpdater`, `DataSurvivesClose`, `ChangesAreAnnounced` (OpenedFiles) | a file opened for reading is moved and then opened for writing; a writer finds the lock with a reader about to release it; a write is accepted after the flush of a stop; a truncation by a second open sends no event. `WrittenDataSurvives` is what holds. |
| `LocalChangesAreRetained`, `ParentHasTheFile`, `FileIsSomewhere` (ConflictSync) | the parent of a conflicting copy is not marked for synchronization; a file edited and removed meets a conflict; a file moved and edited ends in no folder. `ConflictsRetainBoth` and `DataIsKept` are what hold. |

## Proofs

Every theorem is about all values of the constants: any tasks, topics, plans, users, devices, realms, vlobs,
requests and timestamps.

**Topic locks** (`LockProofs`): types, `WriteIsExclusive`, `BooksMatchHolders`, `NoLostWakeup`. The inductive invariant is
their conjunction with `HoldersAreRunning` (only a task that has started and not ended holds something). Exclusion
needs the books, since `Conflict` is evaluated on the books and not on the holders; the books need exclusion, since
a release clears the write mark, which is right only if nobody else holds it. `NoLostWakeup` needs the books to stay
still while a task waits: only releases weaken a conflict, and they empty `waiting`.

**Organization** (`OrganizationProofs`, `RealmProofs`, `KeyProofs`, `CommonProofs`). A request is checked against the current state, while a client judges a certificate by what is
older than it. The two agree because a stored certificate is newer than all the server compared it with: that
is the part the inductive invariants add.

| Theorem | Inductive invariant | Argument |
|---|---|---|
| `OrganizationTypeCorrect` | `TypeOK` | |
| `RealmKeepsOwner` | `RealmHasOwner` | nobody changes their own role, and touching an owner takes another owner |
| `AdminRemainsActive` | `AdminInv` | the author of a revocation or profile change is an active administrator and not its target |
| `StoredVlobsAcceptable` | `VlobInv` | devices, roles and vlobs are no newer than `commonTs`, `realmTs`, `lastVlob`: the current role at insertion is the role at the vlob's timestamp, and no later role certificate changes it |
| `PollStaysComplete` | `PollInv` | the last entry of a vlob in the log has its current version, and there are as many entries as versions |
| `StoredRealmCertsAcceptable` | `RealmInv` | also users and everything stamped in a realm are dated: an author's profile and role do not change below the certificate's timestamp |
| `KeysAlwaysFollowRoles` | `KeysInv` | also every access to a key is dated: a share gives the last key, a rotation gives the new key to exactly the participants |
| `RevocationsAreCausal` | `RevocationInv` | also a device belongs to one user, and a user has a last role: `revoke_user` compares with the realms its target is part of, and a revoked user signs nothing more |
| `StoredCommonCertsAcceptable` | `CommonInv` | every common certificate is no newer than `commonTs`, and before the first device the topic is empty |
| `EnrollmentStaysLimited` | `EnrollmentInv` | the active users are finitely many; only enrollment adds one, and it has tested both the limit and the human |

**Server** (`HandlerProofs`, `ServerProofs`). `ServerImplementsOrganization` is `ServerSpec => Spec` under `OneCreator`: every theorem of the
table above then also holds of the concurrent server. `ServerStepsAreAtomic` is the same as an action property;
without `OneCreator` the double creation of a vlob is a step that is none of `Organization`. `SeenStaysCurrent` and
`SuspendedHandlersExclude` need no such condition. The inductive invariant `ServerInv` says:

- the marks and counters of the lock are what the tasks hold (`Books`), and a realm that is locked exists;
- a task that waits for its nested lock holds its outer lock, its outer checks are still true and the common
  timestamp it was given is still current;
- a task that awaits webhooks holds both, and all its checks are still true.

The argument is one lemma for what an insertion leaves alone (`CommonInsertFrame`, `RealmInsertFrame`, `VlobInsertFrame`), one
for the checks that depend on nothing else (`OuterCheckStays`, `NestedCheckStays`), and the books: whoever inserts
holds the write lock of the topic it changes, so every other suspended task has no lock on it. Vlobs are
inserted under read locks only: an update compares its version after the webhooks (`LastCheck`), a create has
looked for the vlob before them, and that nobody else has created it meanwhile is what `OneCreator` adds.

`ServerStoresAcceptable` states the consequence: with `OneCreator`, whatever the interleaving, what is stored is
acceptable to clients, keys follow roles, realms have owners, there is an administrator, seats are limited and polls
complete. The proofs use a few facts about finite sets (`FiniteSetFacts`); `FiniteSetFactsHold` proves them from
the library.

**Tree** (`LockProofs`): `SnapshotsStayCurrent` and `NoEntryGetsASecondName`, for any sound tree, callers and calls that
satisfy `ExchangesStayInFolder`: the model shows that an exchange across folders keeps no lock on its destination
(see the statements that do not hold), so that the first theorem is false without this condition. The inductive
invariant `TreeInv` says that the tree is sound, and that a call which has its locks holds those of all the
manifests it works on, which are as it has read them. Soundness is needed for the second theorem: when the folder
that receives an entry already listed it, the entry would get a second name, and this is excluded because its
parent is the other folder, which the call has locked too. It is preserved because what a call writes is computed
from its locked manifests (`Relisted`, `Reparented`) and a new entry has a new id.

**Opened files** (`OpenedFilesProofs`): `LockKeepsOneHolder` and `DescriptorsStayOpened`, for any tasks, modes and operations.
`OpenedInv` says who has the updater of the lock (one task that opens, or one opened file), that every reference of
a task is to a file which is not destroyed, and that a descriptor has its cursor or a task about to push it. It says
nothing after a panic, which ends every task. `WritersLoseNothing` assumes `OnlyWriters` (nobody opens for
reading only, and nobody stops the storage), which excludes the behaviours that refute `DataSurvivesClose`,
`NothingIsUndone` and `WritersHaveUpdater` in general. `WritingInv` adds that the opened file has the last change and
its updater, that what it has not flushed will be flushed since it has a cursor, and that every cursor has a
descriptor or a task that closes it. It proves for any number of writers what the run `opened` checks for three
(`WrittenDataSurvives`).

**Manifest cache** (`LockProofs`): `CacheStaysLatest`, `UpdatersStayCurrent`, `EditsSurvive`. `CacheInv` adds what a
task between two accesses may have missed: somebody who inserts without the lock has been overtaken at most by
the updater that is about to publish.

The assumptions are the `ASSUME`s of the modules, which the runs evaluate: timestamps are positive numbers, the root
author is no device, key indexes and limits are numbers, a plan is a non-empty sequence of lock requests, the
topics are common, sequester and the realms (`TopicsAssumption`), requests have the parameters of the handlers
(`RequestsAssumption`), `UpdatesAssumption`, no task and no manifest is the null value, the initial tree is sound and the
calls are the four of the code (`TreeAssumption`). `OneCreator`, `ExchangesStayInFolder` and `OnlyWriters` are hypotheses of
the theorems that name them; each excludes behaviours for which the model refutes the conclusion.

Only model-checked:

- the liveness properties, for which the prover has no support;
- `file`: `ReadsAgree`, `SyncedMeansUploaded`, `NoOrphanChunk` and the refinement of `AbstractFile`; what `reshape` and the chunk
  views compute needs induction over sequences, which is out of reach;
- `tree`: `BehavesAsTree`, since what is below an entry is found by recursion over the tree;
- `folder`, `conflict`, `retrieve_path`: their modules use recursive operators, which the prover does not support.

## Not modelled

`PROJECT.json` lists every component with the reason. Of the modelled parts these are abstracted: signatures are
sound and certificates well-formed; blobs, names and keys have no content; `freeze_user`, terms of service and
the settings other than `is_expired` and the users limit (a constant) are left out; sequester services are fixed;
the PostgreSQL implementation is not modelled, the memory one is.

Most of the repository is the graphical client, bindings, data formats, tests of these, I/O and a second
implementation of the server in SQL: they hold no protocol of their own, and the lines the modules cover are a
small part of all lines for that reason.
