----------------------------- MODULE OpenedFiles -----------------------------
(***************************************************************************)
(* One file, opened and closed by several tasks.  The file descriptors     *)
(* and the opened file they refer to live behind a synchronous mutex, the  *)
(* opened file behind an asynchronous one: each action is what a task does *)
(* under one of the two, and between two actions any other task may run.   *)
(* The opened file holds the update lock of the manifest from the first    *)
(* cursor opened for writing to its destruction, for which the last task   *)
(* to close it waits until nobody has a reference to it.                   *)
(*                                                                         *)
(* A manifest is the number of the last change of its content, whether it  *)
(* has any, and the number of the last change of the rest (its parent, the *)
(* version it is based on).                                                *)
(***************************************************************************)
EXTENDS Naturals, Sequences, FiniteSets

CONSTANTS Tasks,
          Modes,         \* how files are opened, among "read", "write" and "truncate"
          Operations,    \* among "move", "sync" and "stop"
          MaxOpens,      \* bound on the file descriptors
          MaxChanges     \* bound on the changes of the content, and on the others

ASSUME OpenedAssumption ==
    /\ Modes \subseteq {"read", "write", "truncate"}
    /\ Operations \subseteq {"move", "sync", "stop"}
    /\ MaxOpens \in Nat /\ MaxChanges \in Nat

VARIABLES stored,      \* the manifest in the store
          lock,        \* whether its update lock is taken
          fds,         \* `file_descriptors`
          nextFd,      \* `next_file_descriptor`
          allowed,     \* `new_open_allowed`
          current,     \* `opened_files`: the opened file, 0 if there is none
          objects,     \* the opened files that were created, referenced or not
          task,        \* where each task is, and what it holds
          running,     \* whether the storage still runs
          latest,      \* the last change of the content anyone made
          announced,   \* the last one that was announced as to be synchronized
          failed       \* whether a caller was told that data could not be written

vars == <<stored, lock, fds, nextFd, allowed, current, objects, task, running, latest,
          announced, failed>>

Idle == [pc |-> "idle"]

\* A task has panicked: nothing is said of what follows.
Panicked == [t \in Tasks |-> [pc |-> "panic"]]

OpenedInit ==
    /\ stored = [content |-> 0, size |-> 1, meta |-> 0]
    /\ lock = FALSE /\ fds = {} /\ nextFd = 1 /\ allowed = TRUE
    /\ current = 0 /\ objects = <<>>
    /\ task = [t \in Tasks |-> Idle]
    /\ running = TRUE
    /\ latest = 0 /\ announced = 0 /\ failed = FALSE

Becomes(t, state) == task' = [task EXCEPT ![t] = state]

CanWrite(mode) == mode # "read"

\* `maybe_truncate_on_open`, as change number n
Truncates(mode, manifest) == mode = "truncate" /\ manifest.size > 0
Truncated(mode, manifest, n) ==
    IF Truncates(mode, manifest) THEN [manifest EXCEPT !.content = n, !.size = 0] ELSE manifest

Cursor(fd, mode) == [fd |-> fd, write |-> CanWrite(mode)]

(***************************************************************************)
(* Opening                                                                 *)
(***************************************************************************)
Open(t, mode) ==
    /\ task[t] = Idle /\ latest < MaxChanges
    /\ nextFd + Cardinality({u \in Tasks : task[u].pc \in {"lock", "open"}}) <= MaxOpens
    /\ Becomes(t, [pc |-> "lock", mode |-> mode])
    /\ UNCHANGED <<stored, lock, fds, nextFd, allowed, current, objects, running,
                   latest, announced, failed>>

\* `for_update_file`, without waiting
OpenLock(t) ==
    /\ task[t].pc = "lock"
    /\ Becomes(t, [pc |-> "open", mode |-> task[t].mode, updater |-> ~lock,
                   manifest |-> stored])
    /\ lock' = TRUE
    /\ UNCHANGED <<stored, fds, nextFd, allowed, current, objects, running,
                   latest, announced, failed>>

\* With the mutex of the file descriptors.
OpenRefused(t) ==
    /\ task[t].pc = "open" /\ ~allowed
    /\ lock' = (lock /\ ~task[t].updater)
    /\ Becomes(t, Idle)
    /\ UNCHANGED <<stored, fds, nextFd, allowed, current, objects, running,
                   latest, announced, failed>>

\* The file was being moved or closed.
OpenAgain(t) ==
    /\ task[t].pc = "open" /\ allowed
    /\ ~task[t].updater /\ current = 0
    /\ Becomes(t, [pc |-> "lock", mode |-> task[t].mode])
    /\ UNCHANGED <<stored, lock, fds, nextFd, allowed, current, objects, running,
                   latest, announced, failed>>

NewDescriptor == fds' = fds \cup {nextFd} /\ nextFd' = nextFd + 1

\* The updater is not kept to read only.
OpenNew(t) ==
    /\ task[t].pc = "open" /\ allowed
    /\ task[t].updater /\ current = 0
    /\ LET mode == task[t].mode
           change == Truncates(mode, task[t].manifest)
       IN /\ objects' = Append(objects,
                [updater  |-> CanWrite(mode),
                 manifest |-> Truncated(mode, task[t].manifest, latest + 1),
                 cursors  |-> {Cursor(nextFd, mode)},
                 flush    |-> change,
                 modified |-> change,
                 alive    |-> TRUE])
          /\ latest' = IF change THEN latest + 1 ELSE latest
          /\ lock' = CanWrite(mode)
    /\ current' = Len(objects) + 1
    /\ NewDescriptor
    /\ Becomes(t, Idle)
    /\ UNCHANGED <<stored, allowed, running, announced, failed>>

OpenExisting(t) ==
    /\ task[t].pc = "open" /\ allowed /\ current # 0
    /\ LET keeps == task[t].updater /\ CanWrite(task[t].mode)
       IN /\ lock' = (lock /\ (task[t].updater => keeps))
          /\ Becomes(t, [pc |-> "push", mode |-> task[t].mode, updater |-> keeps,
                         obj |-> current, fd |-> nextFd])
    /\ NewDescriptor
    /\ UNCHANGED <<stored, allowed, current, objects, running, latest, announced,
                   failed>>

\* Mutant of UpdaterAfter: the updater of the opened file is overwritten.
UpdaterOverwritten(file, updater) == updater

UpdaterAfter(file, updater) == file.updater \/ updater

\* With the mutex of the opened file.
OpenPush(t) ==
    /\ task[t].pc = "push"
    /\ LET o == task[t].obj
           mode == task[t].mode
           file == objects[o]
           change == Truncates(mode, file.manifest)
       IN /\ IF file.updater /\ task[t].updater THEN task' = Panicked ELSE Becomes(t, Idle)
          /\ objects' = [objects EXCEPT ![o] =
                [file EXCEPT !.updater = UpdaterAfter(file, task[t].updater),
                             !.manifest = Truncated(mode, file.manifest, latest + 1),
                             !.cursors = @ \cup {Cursor(task[t].fd, mode)},
                             !.flush = @ \/ change]]
          /\ latest' = IF change THEN latest + 1 ELSE latest
    /\ UNCHANGED <<stored, lock, fds, nextFd, allowed, current, running, announced, failed>>

(***************************************************************************)
(* Writing                                                                 *)
(***************************************************************************)
\* The descriptors whose open has returned.
Returned == {fd \in fds : \A t \in Tasks : task[t].pc = "push" => task[t].fd # fd}

Begin(t, op, fd) ==
    /\ task[t] = Idle /\ fd \in Returned
    /\ Becomes(t, [pc |-> op, obj |-> current, fd |-> fd])

\* `fd_write`, `fd_resize`, `fd_flush`: the opened file is found...
Access(t, fd) ==
    /\ \/ latest < MaxChanges /\ Begin(t, "write", fd)
       \/ Begin(t, "flush", fd)
    /\ UNCHANGED <<stored, lock, fds, nextFd, allowed, current, objects, running,
                   latest, announced, failed>>

\* `force_reshape_and_flush` of file, which becomes objects[o], by a task which goes on as
\* next, and whose caller is told of a failure if it is reported.
FlushAndGo(t, next, o, file, reported) ==
    \/ /\ ~file.flush
       /\ objects' = [objects EXCEPT ![o] = file]
       /\ Becomes(t, next) /\ UNCHANGED <<stored, failed>>
    \/ /\ file.flush /\ ~file.updater
       /\ task' = Panicked /\ UNCHANGED <<objects, stored, failed>>
    \/ /\ file.flush /\ file.updater /\ ~running
       /\ objects' = [objects EXCEPT ![o] = file]
       /\ failed' = (failed \/ reported)
       /\ Becomes(t, next) /\ UNCHANGED stored
    \/ /\ file.flush /\ file.updater /\ running
       /\ objects' = [objects EXCEPT ![o] = [file EXCEPT !.flush = FALSE]]
       /\ stored' = file.manifest
       /\ Becomes(t, next) /\ UNCHANGED failed

MayWrite(t) == \E c \in objects[task[t].obj].cursors : c.fd = task[t].fd /\ c.write

\* ...and changed, unless the cursor is gone; a write that fills a block is flushed.
Write(t) ==
    /\ task[t].pc = "write"
    /\ \/ /\ ~MayWrite(t)
          /\ Becomes(t, Idle) /\ UNCHANGED <<objects, stored, failed, latest>>
       \/ /\ MayWrite(t)
          /\ latest' = latest + 1
          /\ LET o == task[t].obj
                 file == [objects[o] EXCEPT !.manifest.content = latest + 1,
                                            !.manifest.size = 1,
                                            !.flush = TRUE, !.modified = TRUE]
             IN \/ /\ objects' = [objects EXCEPT ![o] = file]
                   /\ Becomes(t, Idle) /\ UNCHANGED <<stored, failed>>
                \/ FlushAndGo(t, Idle, o, file, FALSE)
    /\ UNCHANGED <<lock, fds, nextFd, allowed, current, running, announced>>

Flush(t) ==
    /\ task[t].pc = "flush"
    /\ IF MayWrite(t)
       THEN FlushAndGo(t, Idle, task[t].obj, objects[task[t].obj], TRUE)
       ELSE Becomes(t, Idle) /\ UNCHANGED <<objects, stored, failed>>
    /\ UNCHANGED <<lock, fds, nextFd, allowed, current, running, latest, announced>>

(***************************************************************************)
(* Closing                                                                 *)
(***************************************************************************)
\* Mutant of StillOpened: the cursors are looked at instead.
StillOpenedByCursors(fd) == \E c \in objects[current].cursors : c.fd # fd

\* Whether there are other file descriptors, even without a cursor yet.
StillOpened(fd) == fds \ {fd} # {}

Close(t, fd) ==
    /\ task[t] = Idle /\ fd \in Returned
    /\ fds' = fds \ {fd}
    /\ LET still == StillOpened(fd)
       IN /\ Becomes(t, [pc |-> "close", obj |-> current, fd |-> fd, still |-> still])
          /\ current' = IF still THEN current ELSE 0
    /\ UNCHANGED <<stored, lock, nextFd, allowed, objects, running, latest,
                   announced, failed>>

\* Mutant of CloseFlush: the cursor is removed, the changes are not flushed.
CloseWithoutFlush(t) ==
    /\ task[t].pc = "close"
    /\ objects' = [objects EXCEPT ![task[t].obj].cursors = {c \in @ : c.fd # task[t].fd}]
    /\ Becomes(t, IF task[t].still THEN Idle ELSE [pc |-> "unwrap", obj |-> task[t].obj])
    /\ UNCHANGED <<stored, lock, fds, nextFd, allowed, current, running, latest,
                   announced, failed>>

\* The cursor is removed and the changes are flushed; the last one to close waits for the
\* others to forget the opened file.
CloseFlush(t) ==
    /\ task[t].pc = "close"
    /\ LET o == task[t].obj
       IN FlushAndGo(t, IF task[t].still THEN Idle ELSE [pc |-> "unwrap", obj |-> o],
                     o, [objects[o] EXCEPT !.cursors = {c \in @ : c.fd # task[t].fd}], TRUE)
    /\ UNCHANGED <<lock, fds, nextFd, allowed, current, running, latest, announced>>

\* The tasks that have a reference to an opened file.
References(o) == {t \in Tasks : "obj" \in DOMAIN task[t] /\ task[t].obj = o}


\* `Arc::try_unwrap`
IsUnwrapped(t, o) == References(o) = {t}

\* Closing the updater of an opened file releases the lock.
Released(o) == lock /\ ~objects[o].updater

CloseUnwrap(t) ==
    /\ task[t].pc = "unwrap"
    /\ LET o == task[t].obj
       IN /\ IsUnwrapped(t, o)
          /\ lock' = Released(o)
          /\ objects' = [objects EXCEPT ![o].alive = FALSE]
          /\ announced' = IF objects[o].modified THEN latest ELSE announced
    /\ Becomes(t, Idle)
    /\ UNCHANGED <<stored, fds, nextFd, allowed, current, running, latest, failed>>

\* `WorkspaceOps::stop`
Stop(t) ==
    /\ task[t] = Idle /\ "stop" \in Operations /\ allowed
    /\ allowed' = FALSE
    /\ Becomes(t, [pc |-> "stop"])
    /\ UNCHANGED <<stored, lock, fds, nextFd, current, objects, running, latest,
                   announced, failed>>

\* `close_all_fds`
StopTakes(t) ==
    /\ task[t].pc = "stop"
    /\ fds' = {} /\ current' = 0
    /\ Becomes(t, IF current = 0 THEN [pc |-> "stopped"]
                  ELSE [pc |-> "stopflush", obj |-> current])
    /\ UNCHANGED <<stored, lock, nextFd, allowed, objects, running, latest, announced,
                   failed>>

StopFlush(t) ==
    /\ task[t].pc = "stopflush"
    /\ FlushAndGo(t, [pc |-> "stopunwrap", obj |-> task[t].obj],
                  task[t].obj, objects[task[t].obj], TRUE)
    /\ UNCHANGED <<lock, fds, nextFd, allowed, current, running, latest, announced>>

StopUnwrap(t) ==
    /\ task[t].pc = "stopunwrap"
    /\ LET o == task[t].obj
       IN /\ IsUnwrapped(t, o)
          /\ lock' = Released(o)
          /\ objects' = [objects EXCEPT ![o].alive = FALSE]
    /\ Becomes(t, [pc |-> "stopped"])
    /\ UNCHANGED <<stored, fds, nextFd, allowed, current, running, latest, announced,
                   failed>>

StopStorage(t) ==
    /\ task[t].pc = "stopped"
    /\ running' = FALSE
    /\ Becomes(t, Idle)
    /\ UNCHANGED <<stored, lock, fds, nextFd, allowed, current, objects, latest,
                   announced, failed>>

(***************************************************************************)
(* Everybody else                                                          *)
(***************************************************************************)
\* The file is moved, or the upload of a version is acknowledged: the manifest is updated
\* with the lock, whether the file is opened or not.
Move ==
    /\ "move" \in Operations /\ ~lock /\ running /\ task # Panicked
    /\ stored.meta < MaxChanges
    /\ stored' = [stored EXCEPT !.meta = @ + 1]
    /\ UNCHANGED <<lock, fds, nextFd, allowed, current, objects, task, running,
                   latest, announced, failed>>

\* `abort_if_file_opened`, with the lock
MayMerge == ~lock /\ current = 0

\* The inbound synchronization brings another content.
InboundSync ==
    /\ "sync" \in Operations /\ MayMerge /\ running /\ task # Panicked
    /\ latest < MaxChanges
    /\ stored' = [content |-> latest + 1, size |-> 1, meta |-> stored.meta]
    /\ latest' = latest + 1 /\ announced' = latest + 1
    /\ UNCHANGED <<lock, fds, nextFd, allowed, current, objects, task, running, failed>>

TaskStep(t) ==
    \/ OpenLock(t) \/ OpenRefused(t) \/ OpenAgain(t) \/ OpenNew(t) \/ OpenExisting(t)
    \/ OpenPush(t) \/ Write(t) \/ Flush(t) \/ CloseFlush(t) \/ CloseUnwrap(t)
    \/ StopTakes(t) \/ StopFlush(t) \/ StopUnwrap(t) \/ StopStorage(t)

OpenedNext ==
    \/ \E t \in Tasks :
          \/ TaskStep(t)
          \/ \E mode \in Modes : Open(t, mode)
          \/ \E fd \in fds : Access(t, fd) \/ Close(t, fd)
          \/ Stop(t)
    \/ Move \/ InboundSync

OpenedSpec == OpenedInit /\ [][OpenedNext]_vars

\* Tasks are not abandoned in the middle of an operation.
OpenedFairness == \A t \in Tasks : WF_vars(TaskStep(t))

FairOpened == OpenedSpec /\ OpenedFairness

(***************************************************************************)
(* Properties                                                              *)
(***************************************************************************)
Alive == {o \in DOMAIN objects : objects[o].alive}

\* The update lock is taken as long as a task, or an opened file that may still be closed,
\* has its updater, and never by two of them: it is neither leaked nor given twice.
LockHasOneHolder ==
    LET openers == {t \in Tasks : task[t].pc \in {"open", "push"} /\ task[t].updater}
        files == {o \in Alive : objects[o].updater}
    IN task # Panicked => Cardinality(openers) + Cardinality(files) = IF lock THEN 1 ELSE 0

\* "File descriptor always refers to an opened file", which is alive and has, or is about to
\* have, the cursor.
DescriptorsAreOpened ==
    task # Panicked => \A fd \in fds :
       /\ current \in Alive
       /\ \/ \E c \in objects[current].cursors : c.fd = fd
          \/ \E t \in Tasks : task[t].pc = "push" /\ task[t].fd = fd /\ task[t].obj = current

\* No task has a reference to an opened file that was destroyed.
ReferencesAreAlive == \A o \in DOMAIN objects : References(o) # {} => o \in Alive

\* Once nobody has the file opened any more, everything that was written is stored, unless
\* a caller was told otherwise.
DataSurvivesClose == Alive = {} /\ ~failed /\ task # Panicked => stored.content = latest

\* What a flush stores never undoes a change that was stored in the meantime.
NothingIsUndone == [][stored'.meta >= stored.meta]_vars

\* "If no cursor is opened in write mode, then the updater may be `None`": it is not when
\* there is one, and no flush meets an opened file without.
WritersHaveUpdater ==
    \A o \in Alive : (\E c \in objects[o].cursors : c.write) => objects[o].updater

\* The changes made through an opened file are announced when it is closed, so that they
\* are synchronized.
ChangesAreAnnounced == Alive = {} /\ allowed /\ task # Panicked => announced = latest


=============================================================================
