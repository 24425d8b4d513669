-------------------------- MODULE OpenedFilesProofs --------------------------
(***************************************************************************)
(* Proofs about the opened files of a device, for any number of tasks.     *)
(*                                                                         *)
(* The update lock of a file has one holder, and every file descriptor     *)
(* leads to a file which is opened; when everybody opens the file to write *)
(* and nobody stops the storage, nothing that was written is lost and      *)
(* nobody panics.                                                          *)
(***************************************************************************)
EXTENDS OpenedFiles, FiniteSetTheorems, TLAPS

(***************************************************************************)
(* Opened files: the inductive invariant.                                  *)
(***************************************************************************)

Contents == [content : Nat, size : Nat, meta : Nat]

File == [updater : BOOLEAN, manifest : Contents, cursors : SUBSET [fd : Nat, write : BOOLEAN],
         flush : BOOLEAN, modified : BOOLEAN, alive : BOOLEAN]

TaskState ==
    [pc : {"idle", "stop", "stopped", "panic"}]
      \cup [pc : {"lock"}, mode : Modes]
      \cup [pc : {"open"}, mode : Modes, updater : BOOLEAN, manifest : Contents]
      \cup [pc : {"push"}, mode : Modes, updater : BOOLEAN, obj : Nat, fd : Nat]
      \cup [pc : {"write", "flush"}, obj : Nat, fd : Nat]
      \cup [pc : {"close"}, obj : Nat, fd : Nat, still : BOOLEAN]
      \cup [pc : {"unwrap", "stopflush", "stopunwrap"}, obj : Nat]

OpenedTypeOK ==
    /\ stored \in Contents /\ lock \in BOOLEAN
    /\ fds \in SUBSET Nat /\ nextFd \in Nat /\ allowed \in BOOLEAN
    /\ current \in Nat /\ objects \in Seq(File)
    /\ task \in [Tasks -> TaskState]
    /\ running \in BOOLEAN /\ latest \in Nat /\ announced \in Nat /\ failed \in BOOLEAN

\* The tasks that have a reference to an opened file, or a file descriptor.
HasFile(t) ==
    task[t].pc \in {"push", "write", "flush", "close", "unwrap", "stopflush", "stopunwrap"}
HasFd(t) == task[t].pc \in {"push", "write", "flush", "close"}

\* Who has the update lock: a task that opens the file, or an opened file.
Openers == {t \in Tasks : task[t].pc \in {"open", "push"} /\ task[t].updater}
Keepers == {o \in Alive : objects[o].updater}

\* One of them has it when it is taken.
OneOf(taken, openers, keepers) ==
    /\ taken <=> openers # {} \/ keepers # {}
    /\ openers = {} \/ keepers = {}
    /\ \A s, t \in openers : s = t
    /\ \A o, p \in keepers : o = p

OneHolder == OneOf(lock, Openers, Keepers)

\* A task that is to destroy an opened file, which `opened_files` does not have any more.
Destroys(t) ==
    \/ task[t].pc \in {"unwrap", "stopflush", "stopunwrap"}
    \/ task[t].pc = "close" /\ ~task[t].still

FilesAreAlive ==
    /\ \A t \in Tasks : HasFile(t) => task[t].obj \in Alive
    /\ current # 0 => current \in Alive
    /\ fds # {} => current # 0
    /\ \A t \in Tasks : Destroys(t) => task[t].obj # current

\* Whose cursor is, or is about to be, among those of the current file.
HasCursor(fd) ==
    \/ \E c \in objects[current].cursors : c.fd = fd
    \/ \E t \in Tasks : task[t].pc = "push" /\ task[t].fd = fd /\ task[t].obj = current

CursorsExist ==
    /\ \A fd \in fds : fd < nextFd /\ HasCursor(fd)
    /\ \A t \in Tasks : HasFd(t) => task[t].fd < nextFd
    /\ \A t \in Tasks : task[t].pc = "close" => task[t].fd \notin fds

OpenedInv == OpenedTypeOK /\ (task # Panicked => OneHolder /\ FilesAreAlive /\ CursorsExist)

(***************************************************************************)
(* The states of a task.                                                   *)
(***************************************************************************)

LEMMA TaskStates ==
    /\ \A p \in {"idle", "stop", "stopped", "panic"} : [pc |-> p] \in TaskState
    /\ \A m \in Modes : [pc |-> "lock", mode |-> m] \in TaskState
    /\ \A m \in Modes, u \in BOOLEAN, c \in Contents :
          [pc |-> "open", mode |-> m, updater |-> u, manifest |-> c] \in TaskState
    /\ \A m \in Modes, u \in BOOLEAN, o \in Nat, f \in Nat :
          [pc |-> "push", mode |-> m, updater |-> u, obj |-> o, fd |-> f] \in TaskState
    /\ \A p \in {"write", "flush"}, o \in Nat, f \in Nat : [pc |-> p, obj |-> o, fd |-> f] \in TaskState
    /\ \A o \in Nat, f \in Nat, s \in BOOLEAN :
          [pc |-> "close", obj |-> o, fd |-> f, still |-> s] \in TaskState
    /\ \A p \in {"unwrap", "stopflush", "stopunwrap"}, o \in Nat : [pc |-> p, obj |-> o] \in TaskState
  BY Zenon DEF TaskState

LEMMA TaskFields ==
    ASSUME NEW s \in TaskState
    PROVE  /\ s.pc \in {"lock", "open", "push"} => s.mode \in Modes
           /\ s.pc = "open" => s.updater \in BOOLEAN /\ s.manifest \in Contents
           /\ s.pc = "push" => s.updater \in BOOLEAN
           /\ s.pc = "close" => s.still \in BOOLEAN
           /\ s.pc \in {"push", "write", "flush", "close", "unwrap", "stopflush", "stopunwrap"} =>
                 s.obj \in Nat /\ "obj" \in DOMAIN s
           /\ s.pc \in {"push", "write", "flush", "close"} => s.fd \in Nat
           /\ s.pc \in {"idle", "stop", "stopped", "panic", "lock", "open"} => "obj" \notin DOMAIN s
  BY Zenon DEF TaskState

LEMMA TruncatedType ==
    ASSUME NEW m \in Contents, NEW mode, NEW n \in Nat
    PROVE  Truncated(mode, m, n) \in Contents /\ Truncates(mode, m) \in BOOLEAN
           /\ Truncated(mode, m, n).meta = m.meta
           /\ Truncated(mode, m, n).content = IF Truncates(mode, m) THEN n ELSE m.content
  BY ZenonT(30) DEF Truncated, Truncates, Contents

\* What a flush leaves of the opened file.
Same(f, g) ==
    /\ f \in File /\ f.updater = g.updater /\ f.alive = g.alive /\ f.cursors = g.cursors
    /\ f.manifest = g.manifest

LEMMA FlushEffect ==
    ASSUME OpenedTypeOK, NEW t \in Tasks, NEW next, NEW o \in DOMAIN objects, NEW file \in File,
           NEW reported \in BOOLEAN, FlushAndGo(t, next, o, file, reported)
    PROVE  /\ stored' \in Contents /\ failed' \in BOOLEAN
           /\ \/ task' = Panicked /\ objects' = objects /\ file.flush /\ ~file.updater
              \/ /\ task' = [task EXCEPT ![t] = next]
                 /\ \E f \in File : Same(f, file) /\ objects' = [objects EXCEPT ![o] = f]
  <1>1. stored \in Contents /\ failed \in BOOLEAN /\ file.manifest \in Contents
    BY Zenon DEF OpenedTypeOK, File
  <1>2. CASE ~file.flush
    BY <1>1, <1>2, Zenon DEF FlushAndGo, Becomes, Same
  <1>3. CASE file.flush /\ ~file.updater
    BY <1>1, <1>3, Zenon DEF FlushAndGo
  <1>4. CASE file.flush /\ file.updater /\ ~running
    BY <1>1, <1>4, ZenonT(30) DEF FlushAndGo, Becomes, Same
  <1>5. CASE file.flush /\ file.updater /\ running
    <2> DEFINE f == [file EXCEPT !.flush = FALSE]
    <2>1. f \in File /\ Same(f, file)
      BY ZenonT(30) DEF File, Same
    <2>2. objects' = [objects EXCEPT ![o] = f] /\ stored' = file.manifest /\ UNCHANGED failed
          /\ task' = [task EXCEPT ![t] = next]
      BY <1>5, Zenon DEF FlushAndGo, Becomes
    <2> QED
      BY <1>1, <2>1, <2>2, ZenonT(30)
  <1> QED
    BY <1>2, <1>3, <1>4, <1>5, Zenon DEF File

(***************************************************************************)
(* The steps of a task that changes nothing of the opened files.           *)
(***************************************************************************)

LEMMA NotPanicked ==
    ASSUME NEW t \in Tasks, task[t].pc # "panic"
    PROVE  task # Panicked
  BY DEF Panicked

LEMMA OpenKeeps ==
    ASSUME OpenedInv, NEW t \in Tasks, NEW mode \in Modes, Open(t, mode)
    PROVE  OpenedInv'
  <1>1. OpenedTypeOK'
    BY TaskStates, Zenon DEF Open, Becomes, OpenedInv, OpenedTypeOK
  <1>2. OneHolder'
    <2>1. Openers' = Openers /\ Keepers' = Keepers /\ lock' = lock
      BY DEF Open, Becomes, OpenedInv, OpenedTypeOK, Idle, Openers, Keepers, Alive
    <2> QED
      BY <2>1, NotPanicked DEF Open, Idle, OpenedInv, OneHolder
  <1>3. FilesAreAlive'
    BY DEF Open, Becomes, OpenedInv, OpenedTypeOK, Panicked, Idle, FilesAreAlive, HasFile,
       Destroys, Alive
  <1>4. CursorsExist'
    BY DEF Open, Becomes, OpenedInv, OpenedTypeOK, Panicked, Idle, CursorsExist, HasCursor, HasFd
  <1> QED
    BY <1>1, <1>2, <1>3, <1>4, Zenon DEF OpenedInv

LEMMA OpenLockKeeps ==
    ASSUME OpenedInv, NEW t \in Tasks, OpenLock(t)
    PROVE  OpenedInv'
  <1>1. OpenedTypeOK'
    BY TaskStates, TaskFields, ZenonT(30) DEF OpenLock, Becomes, OpenedInv, OpenedTypeOK
  <1>2. OneHolder'
    <2>1. Openers' = (IF lock THEN {} ELSE {t}) \cup Openers /\ Keepers' = Keepers /\ lock'
      BY ZenonT(30) DEF OpenLock, Becomes, OpenedInv, OpenedTypeOK, Openers, Keepers, Alive
    <2> QED
      BY <2>1, NotPanicked, Zenon DEF OpenLock, OpenedInv, OneHolder, OneOf
  <1>3. FilesAreAlive'
    BY DEF OpenLock, Becomes, OpenedInv, OpenedTypeOK, Panicked, Idle, FilesAreAlive, HasFile,
       Destroys, Alive
  <1>4. CursorsExist'
    BY DEF OpenLock, Becomes, OpenedInv, OpenedTypeOK, Panicked, Idle, CursorsExist, HasCursor,
       HasFd
  <1> QED
    BY <1>1, <1>2, <1>3, <1>4, Zenon DEF OpenedInv

LEMMA OpenRefusedKeeps ==
    ASSUME OpenedInv, NEW t \in Tasks, OpenRefused(t)
    PROVE  OpenedInv'
  <1>1. OpenedTypeOK'
    BY TaskStates, TaskFields, Zenon DEF OpenRefused, Becomes, OpenedInv, OpenedTypeOK, Idle
  <1>2. OneHolder'
    <2>1. Openers' = Openers \ {t} /\ Keepers' = Keepers
          /\ lock' = (lock /\ t \notin Openers)
      BY Zenon DEF OpenRefused, Becomes, OpenedInv, OpenedTypeOK, Idle, Openers, Keepers, Alive
    <2> QED
      BY <2>1, NotPanicked, ZenonT(30) DEF OpenRefused, Idle, OpenedInv, OneHolder, OneOf
  <1>3. FilesAreAlive'
    BY NotPanicked, Zenon DEF OpenRefused, Becomes, OpenedInv, OpenedTypeOK, Idle, FilesAreAlive,
       HasFile, Destroys, Alive
  <1>4. CursorsExist'
    BY NotPanicked, Zenon DEF OpenRefused, Becomes, OpenedInv, OpenedTypeOK, Idle, CursorsExist,
       HasCursor, HasFd
  <1> QED
    BY <1>1, <1>2, <1>3, <1>4, Zenon DEF OpenedInv

LEMMA OpenAgainKeeps ==
    ASSUME OpenedInv, NEW t \in Tasks, OpenAgain(t)
    PROVE  OpenedInv'
  <1>1. OpenedTypeOK'
    BY TaskStates, TaskFields, Zenon DEF OpenAgain, Becomes, OpenedInv, OpenedTypeOK, Idle
  <1>2. OneHolder'
    <2>1. Openers' = Openers /\ Keepers' = Keepers /\ lock' = lock
      BY Zenon DEF OpenAgain, Becomes, OpenedInv, OpenedTypeOK, Idle, Openers, Keepers, Alive
    <2> QED
      BY <2>1, NotPanicked DEF OpenAgain, Idle, OpenedInv, OneHolder, OneOf
  <1>3. FilesAreAlive'
    BY NotPanicked, Zenon DEF OpenAgain, Becomes, OpenedInv, OpenedTypeOK, Idle, FilesAreAlive,
       HasFile, Destroys, Alive
  <1>4. CursorsExist'
    BY NotPanicked, ZenonT(30) DEF OpenAgain, Becomes, OpenedInv, OpenedTypeOK, Idle, CursorsExist,
       HasCursor, HasFd
  <1> QED
    BY <1>1, <1>2, <1>3, <1>4, Zenon DEF OpenedInv

LEMMA StopKeeps ==
    ASSUME OpenedInv, NEW t \in Tasks, Stop(t)
    PROVE  OpenedInv'
  <1>1. OpenedTypeOK'
    BY TaskStates, TaskFields, ZenonT(30) DEF Stop, Becomes, OpenedInv, OpenedTypeOK, Idle
  <1>2. OneHolder'
    <2>1. Openers' = Openers /\ Keepers' = Keepers /\ lock' = lock
      BY DEF Stop, Becomes, OpenedInv, OpenedTypeOK, Idle, Openers, Keepers, Alive
    <2> QED
      BY <2>1, NotPanicked DEF Stop, Idle, OpenedInv, OneHolder, OneOf
  <1>3. FilesAreAlive'
    BY NotPanicked DEF Stop, Becomes, OpenedInv, OpenedTypeOK, Idle, FilesAreAlive, HasFile,
       Destroys, Alive
  <1>4. CursorsExist'
    BY NotPanicked DEF Stop, Becomes, OpenedInv, OpenedTypeOK, Idle, CursorsExist, HasCursor,
       HasFd
  <1> QED
    BY <1>1, <1>2, <1>3, <1>4, Zenon DEF OpenedInv

LEMMA StopTakesKeeps ==
    ASSUME OpenedInv, NEW t \in Tasks, StopTakes(t)
    PROVE  OpenedInv'
  <1>1. OpenedTypeOK'
    BY TaskStates, TaskFields, Zenon DEF StopTakes, Becomes, OpenedInv, OpenedTypeOK, Idle
  <1>2. OneHolder'
    <2>1. Openers' = Openers /\ Keepers' = Keepers /\ lock' = lock
      BY Zenon DEF StopTakes, Becomes, OpenedInv, OpenedTypeOK, Idle, Openers, Keepers, Alive
    <2> QED
      BY <2>1, NotPanicked DEF StopTakes, Idle, OpenedInv, OneHolder, OneOf
  <1>3. FilesAreAlive'
    BY NotPanicked DEF StopTakes, Becomes, OpenedInv, OpenedTypeOK, Idle, FilesAreAlive,
       HasFile, Destroys, Alive
  <1>4. CursorsExist'
    BY NotPanicked, Zenon DEF StopTakes, Becomes, OpenedInv, OpenedTypeOK, Idle, CursorsExist,
       HasCursor, HasFd
  <1> QED
    BY <1>1, <1>2, <1>3, <1>4, Zenon DEF OpenedInv

LEMMA StopStorageKeeps ==
    ASSUME OpenedInv, NEW t \in Tasks, StopStorage(t)
    PROVE  OpenedInv'
  <1>1. OpenedTypeOK'
    BY TaskStates, TaskFields, ZenonT(30) DEF StopStorage, Becomes, OpenedInv, OpenedTypeOK, Idle
  <1>2. OneHolder'
    <2>1. Openers' = Openers /\ Keepers' = Keepers /\ lock' = lock
      BY Zenon DEF StopStorage, Becomes, OpenedInv, OpenedTypeOK, Idle, Openers, Keepers, Alive
    <2> QED
      BY <2>1, NotPanicked DEF StopStorage, Idle, OpenedInv, OneHolder, OneOf
  <1>3. FilesAreAlive'
    BY NotPanicked, Zenon DEF StopStorage, Becomes, OpenedInv, OpenedTypeOK, Idle, FilesAreAlive,
       HasFile, Destroys, Alive
  <1>4. CursorsExist'
    BY NotPanicked, Zenon DEF StopStorage, Becomes, OpenedInv, OpenedTypeOK, Idle, CursorsExist,
       HasCursor, HasFd
  <1> QED
    BY <1>1, <1>2, <1>3, <1>4, Zenon DEF OpenedInv

LEMMA OpenExistingKeeps ==
    ASSUME OpenedInv, NEW t \in Tasks, OpenExisting(t)
    PROVE  OpenedInv'
  <1> DEFINE keeps == task[t].updater /\ CanWrite(task[t].mode)
             next == [pc |-> "push", mode |-> task[t].mode, updater |-> keeps,
                      obj |-> current, fd |-> nextFd]
  <1>1. /\ OpenedTypeOK /\ OneHolder /\ FilesAreAlive /\ CursorsExist
        /\ task[t].pc = "open" /\ current # 0 /\ task[t] \in TaskState
        /\ task' = [task EXCEPT ![t] = next] /\ lock' = (lock /\ (task[t].updater => keeps))
        /\ fds' = fds \cup {nextFd} /\ nextFd' = nextFd + 1
        /\ UNCHANGED <<stored, allowed, current, objects, running, latest, announced, failed>>
    BY NotPanicked, Zenon DEF OpenExisting, Becomes, NewDescriptor, OpenedInv, OpenedTypeOK
  <1>2. task[t].mode \in Modes /\ task[t].updater \in BOOLEAN /\ keeps \in BOOLEAN
    BY <1>1, TaskFields, Zenon DEF CanWrite
  <1>3. next \in TaskState
    BY <1>1, <1>2, TaskStates, ZenonT(30) DEF OpenedTypeOK
  <1>4. next.pc = "push" /\ next.updater = keeps /\ next.obj = current /\ next.fd = nextFd
    BY Zenon
  <1> HIDE DEF next, keeps
  <1>5. OpenedTypeOK'
    BY <1>1, <1>2, <1>3 DEF OpenedTypeOK
  <1>6. OneHolder'
    <2>1. /\ Openers' = (IF keeps THEN Openers ELSE Openers \ {t})
          /\ t \in Openers <=> task[t].updater
          /\ keeps => task[t].updater
      BY <1>1, <1>2, <1>4, ZenonT(30) DEF OpenedTypeOK, Openers, keeps
    <2>2. Keepers' = Keepers
      BY <1>1, Zenon DEF Keepers, Alive
    <2> QED
      BY <1>1, <2>1, <2>2, ZenonT(30) DEF OneHolder, OneOf
  <1>7. FilesAreAlive'
    BY <1>1, <1>4, Zenon DEF OpenedTypeOK, FilesAreAlive, HasFile, Destroys, Alive
  <1>8. CursorsExist'
    <2>1. ASSUME NEW fd \in fds PROVE HasCursor(fd)'
      BY <1>1, <2>1, Zenon DEF OpenedTypeOK, CursorsExist, HasCursor
    <2>2. ASSUME NEW fd, fd = nextFd PROVE HasCursor(fd)'
      BY <1>1, <1>4, <2>2, Zenon DEF OpenedTypeOK, HasCursor
    <2>3. \A fd \in fds' : fd < nextFd'
      BY <1>1 DEF OpenedTypeOK, CursorsExist
    <2>4. \A s \in Tasks : HasFd(s)' => task'[s].fd < nextFd'
      BY <1>1, <1>4, TaskFields DEF OpenedTypeOK, CursorsExist, HasFd
    <2>5. \A s \in Tasks : task'[s].pc = "close" => task'[s].fd \notin fds'
      BY <1>1, <1>4, TaskFields DEF OpenedTypeOK, CursorsExist, HasFd
    <2> QED
      BY <1>1, <2>1, <2>2, <2>3, <2>4, <2>5, Zenon DEF CursorsExist
  <1> QED
    BY <1>5, <1>6, <1>7, <1>8, Zenon DEF OpenedInv

LEMMA AccessKeeps ==
    ASSUME OpenedInv, NEW t \in Tasks, NEW fd \in fds, Access(t, fd)
    PROVE  OpenedInv'
  <1>1. PICK op \in {"write", "flush"} : Begin(t, op, fd)
    BY Zenon DEF Access
  <1> DEFINE next == [pc |-> op, obj |-> current, fd |-> fd]
  <1>2. /\ OpenedTypeOK /\ OneHolder /\ FilesAreAlive /\ CursorsExist
        /\ task[t] = Idle /\ task' = [task EXCEPT ![t] = next]
        /\ UNCHANGED <<stored, lock, fds, nextFd, allowed, current, objects, running,
                       latest, announced, failed>>
    BY <1>1, NotPanicked DEF Access, Begin, Idle, Becomes, OpenedInv
  <1>3. next \in TaskState
    BY <1>2, TaskStates, Zenon DEF OpenedTypeOK
  <1>4. next.pc \in {"write", "flush"} /\ next.obj = current /\ next.fd = fd
    BY Zenon
  <1> HIDE DEF next
  <1>5. OpenedTypeOK'
    BY <1>2, <1>3, Zenon DEF OpenedTypeOK
  <1>6. OneHolder'
    <2>1. Openers' = Openers /\ Keepers' = Keepers
      BY <1>2, <1>4 DEF OpenedTypeOK, Idle, Openers, Keepers, Alive
    <2> QED
      BY <1>2, <2>1, Zenon DEF OneHolder
  <1>7. FilesAreAlive'
    BY <1>2, <1>4, Zenon DEF OpenedTypeOK, Idle, FilesAreAlive, HasFile, Destroys, Alive
  <1>8. CursorsExist'
    BY <1>2, <1>4 DEF OpenedTypeOK, Idle, CursorsExist, HasCursor, HasFd
  <1> QED
    BY <1>5, <1>6, <1>7, <1>8, Zenon DEF OpenedInv

LEMMA CloseKeeps ==
    ASSUME OpenedInv, NEW t \in Tasks, NEW fd \in fds, Close(t, fd)
    PROVE  OpenedInv'
  <1> DEFINE still == StillOpened(fd)
             next == [pc |-> "close", obj |-> current, fd |-> fd, still |-> still]
  <1>1. /\ OpenedTypeOK /\ OneHolder /\ FilesAreAlive /\ CursorsExist
        /\ task[t] = Idle /\ task' = [task EXCEPT ![t] = next]
        /\ fds' = fds \ {fd} /\ current' = IF still THEN current ELSE 0
        /\ UNCHANGED <<stored, lock, nextFd, allowed, objects, running, latest, announced, failed>>
    BY NotPanicked DEF Close, Idle, Becomes, OpenedInv
  <1>2. still \in BOOLEAN /\ (still <=> fds' # {})
    BY <1>1, Zenon DEF StillOpened
  <1>3. next \in TaskState
    BY <1>1, <1>2, TaskStates, Zenon DEF OpenedTypeOK
  <1>4. next.pc = "close" /\ next.obj = current /\ next.fd = fd /\ next.still = still
    BY Zenon
  <1> HIDE DEF next, still
  <1>5. OpenedTypeOK'
    BY <1>1, <1>2, <1>3, Zenon DEF OpenedTypeOK
  <1>6. OneHolder'
    <2>1. Openers' = Openers /\ Keepers' = Keepers
      BY <1>1, <1>4 DEF OpenedTypeOK, Idle, Openers, Keepers, Alive
    <2> QED
      BY <1>1, <2>1, Zenon DEF OneHolder
  <1>7. FilesAreAlive'
    <2>1. 0 \notin Alive
      BY <1>1 DEF OpenedTypeOK, Alive
    <2>2. Alive' = Alive /\ current # 0
      BY <1>1, Zenon DEF FilesAreAlive, Alive
    <2> QED
      BY <1>1, <1>2, <1>4, <2>1, <2>2, Zenon DEF OpenedTypeOK, Idle, FilesAreAlive, HasFile, Destroys
  <1>8. CursorsExist'
    <2>1. /\ task'[t] = next /\ \A s \in Tasks : s # t => task'[s] = task[s]
          /\ \A s \in Tasks : task[s].pc = "push" => s # t
      BY <1>1 DEF OpenedTypeOK, Idle
    <2>2. \A f \in fds' : f < nextFd' /\ HasCursor(f)'
      <3> SUFFICES ASSUME NEW f \in fds \ {fd} PROVE f < nextFd /\ HasCursor(f)'
        BY <1>1, Zenon
      <3>1. f < nextFd /\ HasCursor(f) /\ current' = current
        BY <1>1, <1>2, Zenon DEF CursorsExist
      <3> QED
        BY <1>1, <2>1, <3>1, Zenon DEF HasCursor
    <2>3. fd < nextFd
      BY <1>1, Zenon DEF CursorsExist
    <2> QED
      BY <1>1, <1>4, <2>1, <2>2, <2>3 DEF CursorsExist, HasFd
  <1> QED
    BY <1>5, <1>6, <1>7, <1>8, Zenon DEF OpenedInv

(***************************************************************************)
(* The steps that change an opened file.                                   *)
(***************************************************************************)

LEMMA FileReplaced ==
    ASSUME OpenedTypeOK, NEW o \in DOMAIN objects, NEW f \in File, objects' = [objects EXCEPT ![o] = f]
    PROVE  /\ objects' \in Seq(File) /\ DOMAIN objects' = DOMAIN objects /\ objects'[o] = f
           /\ \A p \in DOMAIN objects : p # o => objects'[p] = objects[p]
           /\ f.alive = objects[o].alive => Alive' = Alive
           /\ f.alive = objects[o].alive /\ f.updater = objects[o].updater => Keepers' = Keepers
  <1>1. objects \in Seq(File)
    BY Zenon DEF OpenedTypeOK
  <1>2. /\ objects' \in Seq(File) /\ DOMAIN objects' = DOMAIN objects /\ objects'[o] = f
        /\ \A p \in DOMAIN objects : p # o => objects'[p] = objects[p]
    BY <1>1
  <1>3. f.alive = objects[o].alive => Alive' = Alive
    BY <1>2, Zenon DEF Alive
  <1> QED
    BY <1>2, <1>3, Zenon DEF Keepers, Alive

\* The task goes on, and the file it refers to is written, or loses the cursor of the task.
LEMMA FileWritten ==
    ASSUME OpenedInv, task # Panicked, NEW t \in Tasks, NEW o, NEW f \in File, NEW next \in TaskState,
           task[t].pc \in {"write", "flush", "close", "stopflush"}, o = task[t].obj,
           f.alive = objects[o].alive, f.updater = objects[o].updater,
           \/ f.cursors = objects[o].cursors
           \/ task[t].pc = "close" /\ f.cursors = {c \in objects[o].cursors : c.fd # task[t].fd},
           objects' = [objects EXCEPT ![o] = f], task' = [task EXCEPT ![t] = next],
           \/ next = Idle
           \/ next \in {[pc |-> "unwrap", obj |-> o], [pc |-> "stopunwrap", obj |-> o]} /\ Destroys(t),
           stored' \in Contents, failed' \in BOOLEAN, latest' \in Nat,
           UNCHANGED <<lock, fds, nextFd, allowed, current, running, announced>>
    PROVE  OpenedInv'
  <1>1. /\ OpenedTypeOK /\ OneHolder /\ FilesAreAlive /\ CursorsExist /\ o \in Alive
    BY Zenon DEF OpenedInv, FilesAreAlive, HasFile
  <1>2. o \in DOMAIN objects
    BY <1>1, Zenon DEF Alive
  <1>3. /\ objects' \in Seq(File) /\ objects'[o] = f /\ Alive' = Alive /\ Keepers' = Keepers
        /\ \A p \in DOMAIN objects : p # o => objects'[p] = objects[p]
    BY <1>1, <1>2, FileReplaced, ZenonT(30)
  <1>4. /\ next.pc \in {"idle", "unwrap", "stopunwrap"}
        /\ next.pc # "idle" => next.obj = o /\ Destroys(t)
    BY DEF Idle
  <1>5. /\ task'[t] = next /\ task' \in [Tasks -> TaskState]
        /\ \A s \in Tasks : s # t => task'[s] = task[s]
    BY <1>1, Zenon DEF OpenedTypeOK
  <1>6. OpenedTypeOK'
    BY <1>1, <1>3, <1>5, Zenon DEF OpenedTypeOK
  <1>7. OneHolder'
    <2>1. Openers' = Openers
      BY <1>4, <1>5, Zenon DEF Openers
    <2> QED
      BY <1>1, <1>3, <2>1, Zenon DEF OneHolder
  <1>8. FilesAreAlive'
    BY <1>1, <1>3, <1>4, <1>5, ZenonT(30) DEF FilesAreAlive, HasFile, Destroys
  <1>9. CursorsExist'
    <2>1. ASSUME NEW fd \in fds PROVE HasCursor(fd)'
      <3>1. HasCursor(fd) /\ (task[t].pc = "close" => task[t].fd # fd)
        BY <1>1, <2>1, Zenon DEF CursorsExist
      <3>2. CASE \E s \in Tasks : task[s].pc = "push" /\ task[s].fd = fd /\ task[s].obj = current
        BY <1>5, <3>2, Zenon DEF HasCursor
      <3>3. CASE \E c \in objects[current].cursors : c.fd = fd
        <4>1. current \in Alive
          BY <1>1, Zenon DEF FilesAreAlive
        <4>2. current \in DOMAIN objects
          BY <4>1, Zenon DEF Alive
        <4>3. \E c \in objects'[current].cursors : c.fd = fd
          BY <1>3, <3>1, <3>3, <4>2, Zenon
        <4> QED
          BY <4>3, Zenon DEF HasCursor
      <3> QED
        BY <3>1, <3>2, <3>3, Zenon DEF HasCursor
    <2> QED
      BY <1>1, <1>4, <1>5, <2>1, Zenon DEF CursorsExist, HasFd
  <1> QED
    BY <1>6, <1>7, <1>8, <1>9, Zenon DEF OpenedInv

LEMMA PanicKeeps ==
    ASSUME OpenedInv, task' = Panicked, objects' \in Seq(File), stored' \in Contents, failed' \in BOOLEAN,
           latest' \in Nat, UNCHANGED <<lock, fds, nextFd, allowed, current, running, announced>>
    PROVE  OpenedInv'
  <1>1. Panicked \in [Tasks -> TaskState]
    BY TaskStates, Zenon DEF Panicked
  <1>2. OpenedTypeOK'
    BY <1>1, Zenon DEF OpenedInv, OpenedTypeOK
  <1> QED
    BY <1>2, Zenon DEF OpenedInv, Panicked

\* The files a task writes, and the ones it may write to.
LEMMA FileOf ==
    ASSUME OpenedInv, task # Panicked, NEW t \in Tasks, HasFile(t)
    PROVE  /\ task[t].obj \in DOMAIN objects /\ objects[task[t].obj] \in File
           /\ objects[task[t].obj].alive /\ task[t].obj \in Nat
  BY DEF OpenedInv, OpenedTypeOK, FilesAreAlive, Alive

\* A task flushes what it has made of its file, and goes on.
LEMMA FlushKeepsInv ==
    ASSUME OpenedInv, task # Panicked, NEW t \in Tasks, NEW o, NEW file \in File, NEW next \in TaskState,
           NEW reported \in BOOLEAN, task[t].pc \in {"write", "flush", "close", "stopflush"}, o = task[t].obj,
           file.alive = objects[o].alive, file.updater = objects[o].updater,
           \/ file.cursors = objects[o].cursors
           \/ task[t].pc = "close" /\ file.cursors = {c \in objects[o].cursors : c.fd # task[t].fd},
           \/ next = Idle
           \/ next \in {[pc |-> "unwrap", obj |-> o], [pc |-> "stopunwrap", obj |-> o]} /\ Destroys(t),
           FlushAndGo(t, next, o, file, reported),
           latest' \in Nat, UNCHANGED <<lock, fds, nextFd, allowed, current, running, announced>>
    PROVE  OpenedInv'
  <1>1. OpenedTypeOK /\ HasFile(t)
    BY Zenon DEF OpenedInv, HasFile
  <1>2. o \in DOMAIN objects /\ objects \in Seq(File)
    BY <1>1, FileOf, Zenon DEF OpenedTypeOK
  <1>3. /\ stored' \in Contents /\ failed' \in BOOLEAN
        /\ \/ task' = Panicked /\ objects' = objects
           \/ /\ task' = [task EXCEPT ![t] = next]
              /\ \E f \in File : Same(f, file) /\ objects' = [objects EXCEPT ![o] = f]
    BY <1>1, <1>2, FlushEffect
  <1>4. CASE task' = Panicked /\ objects' = objects
    BY <1>2, <1>3, <1>4, PanicKeeps, Zenon
  <1>5. ASSUME NEW f \in File, Same(f, file), objects' = [objects EXCEPT ![o] = f],
               task' = [task EXCEPT ![t] = next]
        PROVE  OpenedInv'
    BY <1>2, <1>3, <1>5, FileWritten, ZenonT(30) DEF Same
  <1> QED
    BY <1>3, <1>4, <1>5, Zenon

LEMMA WriteKeeps ==
    ASSUME OpenedInv, NEW t \in Tasks, Write(t)
    PROVE  OpenedInv'
  <1> DEFINE o == task[t].obj
             file == [objects[o] EXCEPT !.manifest.content = latest + 1, !.manifest.size = 1,
                                        !.flush = TRUE, !.modified = TRUE]
  <1>1. /\ OpenedTypeOK /\ task # Panicked /\ task[t].pc = "write" /\ HasFile(t)
        /\ UNCHANGED <<lock, fds, nextFd, allowed, current, running, announced>>
        /\ \/ task' = [task EXCEPT ![t] = Idle] /\ UNCHANGED <<objects, stored, failed, latest>>
           \/ /\ latest' = latest + 1
              /\ \/ /\ objects' = [objects EXCEPT ![o] = file]
                    /\ task' = [task EXCEPT ![t] = Idle] /\ UNCHANGED <<stored, failed>>
                 \/ FlushAndGo(t, Idle, o, file, FALSE)
    BY NotPanicked, ZenonT(30) DEF Write, Becomes, OpenedInv, HasFile
  <1>2. o \in DOMAIN objects /\ objects[o] \in File /\ Idle \in TaskState
    BY <1>1, FileOf, TaskStates, Zenon DEF Idle
  <1>3. stored \in Contents /\ failed \in BOOLEAN /\ latest \in Nat /\ latest + 1 \in Nat /\ objects \in Seq(File)
    BY <1>1 DEF OpenedTypeOK
  <1>4. /\ file \in File /\ file.alive = objects[o].alive /\ file.updater = objects[o].updater
        /\ file.cursors = objects[o].cursors
    <2> DEFINE m == [objects[o].manifest EXCEPT !.content = latest + 1, !.size = 1]
    <2>1. m \in Contents
      BY <1>2, <1>3, ZenonT(30) DEF File, Contents
    <2>2. file = [objects[o] EXCEPT !.manifest = m, !.flush = TRUE, !.modified = TRUE]
      BY <1>2, ZenonT(30) DEF File, Contents
    <2> HIDE DEF m, file
    <2> QED
      BY <1>2, <2>1, <2>2, ZenonT(30) DEF File
  <1>5. o = task[t].obj
    BY Zenon
  <1> HIDE DEF o, file
  <1>6. CASE task' = [task EXCEPT ![t] = Idle] /\ UNCHANGED <<objects, stored, failed, latest>>
    <2>1. objects' = [objects EXCEPT ![o] = objects[o]]
      BY <1>2, <1>3, <1>6
    <2> QED
      BY <1>1, <1>2, <1>3, <1>5, <1>6, <2>1, FileWritten, ZenonT(30)
  <1>7. CASE /\ task' = [task EXCEPT ![t] = Idle] /\ objects' = [objects EXCEPT ![o] = file]
             /\ latest' = latest + 1 /\ UNCHANGED <<stored, failed>>
    BY <1>1, <1>2, <1>3, <1>4, <1>5, <1>7, FileWritten, ZenonT(30)
  <1>8. CASE FlushAndGo(t, Idle, o, file, FALSE) /\ latest' = latest + 1
    BY <1>1, <1>2, <1>3, <1>4, <1>5, <1>8, FlushKeepsInv, ZenonT(30)
  <1> QED
    BY <1>1, <1>6, <1>7, <1>8, ZenonT(30)

LEMMA FlushKeeps ==
    ASSUME OpenedInv, NEW t \in Tasks, Flush(t)
    PROVE  OpenedInv'
  <1> DEFINE o == task[t].obj
  <1>1. /\ OpenedTypeOK /\ task # Panicked /\ task[t].pc = "flush" /\ HasFile(t)
        /\ UNCHANGED <<lock, fds, nextFd, allowed, current, running, latest, announced>>
        /\ \/ task' = [task EXCEPT ![t] = Idle] /\ UNCHANGED <<objects, stored, failed>>
           \/ FlushAndGo(t, Idle, o, objects[o], TRUE)
    BY NotPanicked, ZenonT(30) DEF Flush, Becomes, OpenedInv, HasFile
  <1>2. /\ o \in DOMAIN objects /\ objects[o] \in File /\ Idle \in TaskState /\ o = task[t].obj
        /\ stored \in Contents /\ failed \in BOOLEAN /\ latest \in Nat /\ objects \in Seq(File)
    BY <1>1, FileOf, TaskStates, ZenonT(30) DEF Idle, OpenedTypeOK
  <1> HIDE DEF o
  <1>3. CASE task' = [task EXCEPT ![t] = Idle] /\ UNCHANGED <<objects, stored, failed>>
    <2>1. objects' = [objects EXCEPT ![o] = objects[o]]
      BY <1>2, <1>3
    <2> QED
      BY <1>1, <1>2, <1>3, <2>1, FileWritten, ZenonT(30)
  <1>4. CASE FlushAndGo(t, Idle, o, objects[o], TRUE)
    BY <1>1, <1>2, <1>4, FlushKeepsInv, ZenonT(30)
  <1> QED
    BY <1>1, <1>3, <1>4, ZenonT(30)

LEMMA CloseFlushKeeps ==
    ASSUME OpenedInv, NEW t \in Tasks, CloseFlush(t)
    PROVE  OpenedInv'
  <1> DEFINE o == task[t].obj
             file == [objects[o] EXCEPT !.cursors = {c \in @ : c.fd # task[t].fd}]
             next == IF task[t].still THEN Idle ELSE [pc |-> "unwrap", obj |-> o]
  <1>1. /\ OpenedTypeOK /\ task # Panicked /\ task[t].pc = "close" /\ HasFile(t)
        /\ UNCHANGED <<lock, fds, nextFd, allowed, current, running, latest, announced>>
        /\ FlushAndGo(t, next, o, file, TRUE)
    BY NotPanicked, ZenonT(30) DEF CloseFlush, OpenedInv, HasFile
  <1>2. /\ o \in DOMAIN objects /\ objects[o] \in File /\ o \in Nat /\ o = task[t].obj
        /\ latest \in Nat
    BY <1>1, FileOf, Zenon DEF OpenedTypeOK
  <1>3. /\ file \in File /\ file.alive = objects[o].alive /\ file.updater = objects[o].updater
        /\ file.cursors = {c \in objects[o].cursors : c.fd # task[t].fd}
    BY <1>2, Zenon DEF File
  <1>4. /\ next \in TaskState
        /\ next = Idle \/ (next = [pc |-> "unwrap", obj |-> o] /\ Destroys(t))
    BY <1>1, <1>2, TaskStates, Zenon DEF Idle, Destroys
  <1> HIDE DEF o, file, next
  <1> QED
    BY <1>1, <1>2, <1>3, <1>4, FlushKeepsInv, ZenonT(30)

LEMMA StopFlushKeeps ==
    ASSUME OpenedInv, NEW t \in Tasks, StopFlush(t)
    PROVE  OpenedInv'
  <1> DEFINE o == task[t].obj
             next == [pc |-> "stopunwrap", obj |-> o]
  <1>1. /\ OpenedTypeOK /\ task # Panicked /\ task[t].pc = "stopflush" /\ HasFile(t)
        /\ UNCHANGED <<lock, fds, nextFd, allowed, current, running, latest, announced>>
        /\ FlushAndGo(t, next, o, objects[o], TRUE)
    BY NotPanicked, ZenonT(30) DEF StopFlush, OpenedInv, HasFile
  <1>2. /\ o \in DOMAIN objects /\ objects[o] \in File /\ o \in Nat /\ o = task[t].obj
        /\ latest \in Nat
    BY <1>1, FileOf, Zenon DEF OpenedTypeOK
  <1>3. next \in TaskState /\ next = [pc |-> "stopunwrap", obj |-> o] /\ Destroys(t)
    BY <1>1, <1>2, TaskStates, Zenon DEF Destroys
  <1> HIDE DEF o, next
  <1> QED
    BY <1>1, <1>2, <1>3, FlushKeepsInv, ZenonT(30)

LEMMA OpenNewKeeps ==
    ASSUME OpenedInv, NEW t \in Tasks, OpenNew(t)
    PROVE  OpenedInv'
  <1> DEFINE mode == task[t].mode
             change == Truncates(mode, task[t].manifest)
             manifest == Truncated(mode, task[t].manifest, latest + 1)
             cursor == Cursor(nextFd, mode)
             file == [updater |-> CanWrite(mode), manifest |-> manifest, cursors |-> {cursor},
                      flush |-> change, modified |-> change, alive |-> TRUE]
             last == Len(objects) + 1
  <1>1. /\ OpenedTypeOK /\ OneHolder /\ FilesAreAlive /\ CursorsExist
        /\ task[t].pc = "open" /\ task[t].updater /\ current = 0 /\ task[t] \in TaskState
        /\ objects' = Append(objects, file) /\ lock' = CanWrite(mode)
        /\ latest' = (IF change THEN latest + 1 ELSE latest)
        /\ current' = last /\ fds' = fds \cup {nextFd} /\ nextFd' = nextFd + 1
        /\ task' = [task EXCEPT ![t] = Idle]
        /\ UNCHANGED <<stored, allowed, running, announced, failed>>
    BY NotPanicked, Zenon DEF OpenNew, Becomes, NewDescriptor, OpenedInv, OpenedTypeOK
  <1>2. /\ CanWrite(mode) \in BOOLEAN /\ change \in BOOLEAN /\ manifest \in Contents
        /\ latest' \in Nat /\ nextFd \in Nat
    <2>1. task[t].manifest \in Contents /\ latest \in Nat /\ latest + 1 \in Nat /\ nextFd \in Nat
      BY <1>1, TaskFields DEF OpenedTypeOK
    <2> QED
      BY <1>1, <2>1, TruncatedType, Zenon DEF CanWrite
  <1> HIDE DEF manifest, change, mode
  <1>3. /\ file \in File /\ file.alive /\ (file.updater <=> CanWrite(mode))
        /\ \E c \in file.cursors : c.fd = nextFd
    <2>1. cursor \in [fd : Nat, write : BOOLEAN] /\ cursor.fd = nextFd
      BY <1>2, Zenon DEF Cursor
    <2> HIDE DEF cursor
    <2>2. {cursor} \in SUBSET [fd : Nat, write : BOOLEAN]
      BY <2>1, Zenon
    <2>3. file \in File
      BY <1>2, <2>2, Zenon DEF File
    <2>4. file.cursors = {cursor} /\ file.alive = TRUE /\ file.updater = CanWrite(mode)
      BY Zenon
    <2> HIDE DEF file
    <2> QED
      BY <1>2, <2>1, <2>3, <2>4, Zenon
  <1> HIDE DEF file
  <1>4. /\ objects' \in Seq(File) /\ DOMAIN objects' = DOMAIN objects \cup {last}
        /\ objects'[last] = file /\ last \notin DOMAIN objects /\ last \in Nat /\ last # 0
        /\ \A p \in DOMAIN objects : objects'[p] = objects[p]
    BY <1>1, <1>3 DEF OpenedTypeOK
  <1> HIDE DEF last
  <1>5. Alive' = Alive \cup {last} /\ Keepers' = Keepers \cup (IF CanWrite(mode) THEN {last} ELSE {})
    BY <1>3, <1>4, Zenon DEF Alive, Keepers
  <1>6. /\ task'[t] = Idle /\ task' \in [Tasks -> TaskState] /\ Idle.pc = "idle"
        /\ \A s \in Tasks : s # t => task'[s] = task[s]
    BY <1>1, TaskStates, Zenon DEF OpenedTypeOK, Idle
  <1>7. OpenedTypeOK'
    BY <1>1, <1>2, <1>4, <1>6 DEF OpenedTypeOK
  <1>8. OneHolder'
    <2>1. Openers' = Openers \ {t} /\ t \in Openers
      BY <1>1, <1>6, Zenon DEF Openers
    <2> QED
      BY <1>1, <1>5, <2>1, Zenon DEF OneHolder, OneOf
  <1>9. fds = {}
    BY <1>1, Zenon DEF FilesAreAlive
  <1>10. FilesAreAlive'
    <2>1. last \notin Alive
      BY <1>4, Zenon DEF Alive
    <2> QED
      BY <1>1, <1>4, <1>5, <1>6, <2>1, ZenonT(30) DEF FilesAreAlive, HasFile, Destroys
  <1>11. CursorsExist'
    <2>1. ASSUME NEW fd, fd = nextFd PROVE HasCursor(fd)'
      BY <1>1, <1>3, <1>4, <2>1, Zenon DEF HasCursor
    <2>2. \A s \in Tasks : HasFd(s)' => s # t /\ task'[s].fd \in Nat /\ task'[s].fd < nextFd
      BY <1>1, <1>6, TaskFields, Zenon DEF CursorsExist, HasFd
    <2>3. \A s \in Tasks : HasFd(s)' => task'[s].fd < nextFd' /\ task'[s].fd # nextFd
      BY <1>1, <1>2, <2>2
    <2>4. \A s \in Tasks : task'[s].pc = "close" => HasFd(s)'
      BY Zenon DEF HasFd
    <2>5. nextFd < nextFd'
      BY <1>1, <1>2
    <2> QED
      BY <1>1, <1>9, <2>1, <2>3, <2>4, <2>5 DEF CursorsExist
  <1> QED
    BY <1>7, <1>8, <1>10, <1>11, Zenon DEF OpenedInv

LEMMA OpenPushKeeps ==
    ASSUME OpenedInv, NEW t \in Tasks, OpenPush(t)
    PROVE  OpenedInv'
  <1> DEFINE o == task[t].obj
             mode == task[t].mode
             change == Truncates(mode, objects[o].manifest)
             updater == UpdaterAfter(objects[o], task[t].updater)
             manifest == Truncated(mode, objects[o].manifest, latest + 1)
             cursors == objects[o].cursors \cup {Cursor(task[t].fd, mode)}
             file == [objects[o] EXCEPT !.updater = updater, !.manifest = manifest,
                                        !.cursors = cursors, !.flush = @ \/ change]
  <1>1. /\ OpenedTypeOK /\ OneHolder /\ FilesAreAlive /\ CursorsExist
        /\ task # Panicked /\ HasFile(t) /\ task[t].pc = "push" /\ task[t] \in TaskState
        /\ task' = (IF objects[o].updater /\ task[t].updater THEN Panicked ELSE [task EXCEPT ![t] = Idle])
        /\ objects' = [objects EXCEPT ![o] = file]
        /\ latest' = (IF change THEN latest + 1 ELSE latest)
        /\ UNCHANGED <<stored, lock, fds, nextFd, allowed, current, running, announced, failed>>
    BY NotPanicked, Zenon DEF OpenPush, Becomes, OpenedInv, OpenedTypeOK, HasFile
  <1>2. /\ o \in DOMAIN objects /\ objects[o] \in File /\ objects[o].alive /\ o = task[t].obj
        /\ task[t].fd \in Nat /\ task[t].updater \in BOOLEAN /\ latest \in Nat /\ latest + 1 \in Nat
    BY <1>1, FileOf, TaskFields DEF OpenedTypeOK
  <1>3. manifest \in Contents /\ change \in BOOLEAN /\ latest' \in Nat
    <2>1. objects[o].manifest \in Contents
      BY <1>2, Zenon DEF File
    <2> QED
      BY <1>1, <1>2, <2>1, TruncatedType, Zenon
  <1>4. /\ updater \in BOOLEAN /\ cursors \in SUBSET [fd : Nat, write : BOOLEAN]
        /\ (updater <=> objects[o].updater \/ task[t].updater)
        /\ \E c \in cursors : c.fd = task[t].fd
        /\ objects[o].cursors \subseteq cursors
    <2> DEFINE cursor == Cursor(task[t].fd, mode)
    <2>1. cursor \in [fd : Nat, write : BOOLEAN] /\ cursor.fd = task[t].fd
      BY <1>2, Zenon DEF Cursor, CanWrite
    <2> HIDE DEF cursor
    <2>2. objects[o].updater \in BOOLEAN /\ objects[o].cursors \in SUBSET [fd : Nat, write : BOOLEAN]
      BY <1>2, Zenon DEF File
    <2>3. cursors = objects[o].cursors \cup {cursor}
      BY Zenon DEF cursor
    <2> HIDE DEF o
    <2> QED
      BY <1>2, <2>1, <2>2, <2>3, Zenon DEF UpdaterAfter
  <1> HIDE DEF updater, manifest, cursors, change
  <1>5. /\ file \in File /\ file.alive = objects[o].alive /\ file.updater = updater
        /\ file.cursors = cursors
    BY <1>2, <1>3, <1>4, ZenonT(30) DEF File
  <1> HIDE DEF file, o
  <1>6. /\ objects' \in Seq(File) /\ objects'[o] = file /\ Alive' = Alive /\ DOMAIN objects' = DOMAIN objects
        /\ \A p \in DOMAIN objects : p # o => objects'[p] = objects[p]
    BY <1>1, <1>2, <1>5, FileReplaced, ZenonT(30)
  <1>7. CASE objects[o].updater /\ task[t].updater
    BY <1>1, <1>3, <1>6, <1>7, PanicKeeps, Zenon DEF OpenedTypeOK
  <1>8. CASE ~(objects[o].updater /\ task[t].updater)
    <2>1. /\ task'[t] = Idle /\ task' \in [Tasks -> TaskState] /\ Idle.pc = "idle"
          /\ \A s \in Tasks : s # t => task'[s] = task[s]
      BY <1>1, <1>8, TaskStates, ZenonT(30) DEF OpenedTypeOK, Idle
    <2>2. OpenedTypeOK'
      BY <1>1, <1>3, <1>6, <2>1, Zenon DEF OpenedTypeOK
    <2>3. OneHolder'
      <3>1. Openers' = Openers \ {t} /\ (t \in Openers <=> task[t].updater)
        BY <1>1, <2>1, Zenon DEF Openers
      <3>2. Keepers' = Keepers \cup (IF updater THEN {o} ELSE {})
        BY <1>2, <1>4, <1>5, <1>6, Zenon DEF Keepers, Alive
      <3>3. objects[o].updater <=> o \in Keepers
        BY <1>2, Zenon DEF Keepers, Alive
      <3> QED
        BY <1>1, <1>4, <1>8, <3>1, <3>2, <3>3, Zenon DEF OneHolder, OneOf
    <2>4. FilesAreAlive'
      BY <1>1, <1>6, <2>1 DEF FilesAreAlive, HasFile, Destroys
    <2>5. CursorsExist'
      <3>1. ASSUME NEW fd \in fds PROVE HasCursor(fd)'
        <4>1. HasCursor(fd) /\ current \in DOMAIN objects
          BY <1>1, <3>1, Zenon DEF CursorsExist, FilesAreAlive, Alive
        <4>2. objects[current].cursors \subseteq objects'[current].cursors
          BY <1>4, <1>5, <1>6, <4>1, Zenon
        <4>3. task[t].fd = fd /\ task[t].obj = current => \E c \in objects'[current].cursors : c.fd = fd
          BY <1>2, <1>4, <1>5, <1>6, Zenon
        <4> QED
          BY <1>1, <2>1, <4>1, <4>2, <4>3, Zenon DEF HasCursor
      <3> QED
        BY <1>1, <2>1, <3>1, Zenon DEF CursorsExist, HasFd
    <2> QED
      BY <2>2, <2>3, <2>4, <2>5, Zenon DEF OpenedInv
  <1> QED
    BY <1>7, <1>8, Zenon

LEMMA Replaced ==
    ASSUME NEW S, NEW s \in Seq(S), NEW i \in DOMAIN s, NEW x \in S
    PROVE  /\ [s EXCEPT ![i] = x] \in Seq(S) /\ DOMAIN [s EXCEPT ![i] = x] = DOMAIN s
           /\ [s EXCEPT ![i] = x][i] = x /\ \A j \in DOMAIN s : j # i => [s EXCEPT ![i] = x][j] = s[j]
  OBVIOUS

\* The task that destroys an opened file is the last one to have a reference to it.
LEMMA FileDestroyed ==
    ASSUME OpenedTypeOK, OneHolder, FilesAreAlive, CursorsExist,
           NEW t \in Tasks, HasFile(t), Destroys(t), task[t].pc \in {"unwrap", "stopunwrap"},
           NEW next \in TaskState, next.pc \in {"idle", "stopped"},
           lock' = Released(task[t].obj), References(task[t].obj) = {t},
           objects' = [objects EXCEPT ![task[t].obj].alive = FALSE], announced' \in Nat,
           task' = [task EXCEPT ![t] = next],
           UNCHANGED <<stored, fds, nextFd, allowed, current, running, latest, failed>>
    PROVE  OpenedInv'
  <1> DEFINE o == task[t].obj
  <1>1. o \in DOMAIN objects /\ objects[o] \in File /\ o \in Alive /\ o # current
    <2>1. o \in Alive /\ o # current
      BY Zenon DEF FilesAreAlive
    <2> QED
      BY <2>1 DEF Alive, OpenedTypeOK
  <1>2. \A s \in Tasks : s # t /\ HasFile(s) => task[s].obj # o
    <2>1. \A s \in Tasks : HasFile(s) => "obj" \in DOMAIN task[s]
      BY TaskFields, Zenon DEF OpenedTypeOK, HasFile
    <2> QED
      BY <2>1, Zenon DEF References
  <1>3. lock' = (lock /\ ~objects[o].updater)
    BY Zenon DEF Released
  <1>4. objects' = [objects EXCEPT ![o].alive = FALSE]
    BY Zenon
  <1> HIDE DEF o
  <1>5. /\ objects' \in Seq(File) /\ DOMAIN objects' = DOMAIN objects /\ ~objects'[o].alive
        /\ \A p \in DOMAIN objects : p # o => objects'[p] = objects[p]
    <2> DEFINE file == [objects[o] EXCEPT !.alive = FALSE]
    <2>1. file \in File /\ ~file.alive
      BY <1>1, ZenonT(30) DEF File
    <2>2. objects' = [objects EXCEPT ![o] = file]
      BY <1>4, ZenonT(30)
    <2> HIDE DEF file
    <2>3. objects \in Seq(File)
      BY Zenon DEF OpenedTypeOK
    <2> DEFINE after == [objects EXCEPT ![o] = file]
    <2>4. /\ after \in Seq(File) /\ DOMAIN after = DOMAIN objects /\ after[o] = file
          /\ \A p \in DOMAIN objects : p # o => after[p] = objects[p]
      BY <1>1, <2>1, <2>3, Replaced, Zenon
    <2>5. objects' = after
      BY <2>2, ZenonT(30)
    <2> HIDE DEF after
    <2> QED
      BY <2>1, <2>4, <2>5, Zenon
  <1>6. Alive' = Alive \ {o} /\ Keepers' = Keepers \ {o} /\ (o \in Keepers <=> objects[o].updater)
    BY <1>1, <1>5, Zenon DEF Alive, Keepers
  <1>7. /\ task' \in [Tasks -> TaskState] /\ task'[t].pc \in {"idle", "stopped"}
        /\ \A s \in Tasks : s # t => task'[s] = task[s]
    BY Zenon DEF OpenedTypeOK
  <1>8. OpenedTypeOK'
    BY <1>3, <1>5, <1>7, Zenon DEF OpenedTypeOK
  <1>9. OneHolder'
    <2>1. Openers' = Openers
      BY <1>7, Zenon DEF Openers
    <2> QED
      BY <1>3, <1>6, <2>1, ZenonT(30) DEF OneHolder, OneOf
  <1>10. FilesAreAlive'
    BY <1>1, <1>2, <1>6, <1>7, Zenon DEF FilesAreAlive, HasFile, Destroys
  <1>11. CursorsExist'
    <2>1. ASSUME NEW fd \in fds PROVE HasCursor(fd)'
      <3>1. HasCursor(fd) /\ current \in DOMAIN objects
        BY <2>1, Zenon DEF CursorsExist, FilesAreAlive, Alive
      <3> QED
        BY <1>1, <1>5, <1>7, <3>1, Zenon DEF HasCursor
    <2> QED
      BY <1>7, <2>1, Zenon DEF CursorsExist, HasFd
  <1> QED
    BY <1>8, <1>9, <1>10, <1>11, Zenon DEF OpenedInv

LEMMA CloseUnwrapKeeps ==
    ASSUME OpenedInv, NEW t \in Tasks, CloseUnwrap(t)
    PROVE  OpenedInv'
  <1> DEFINE o == task[t].obj
             next == Idle
  <1>1. /\ OpenedTypeOK /\ OneHolder /\ FilesAreAlive /\ CursorsExist
        /\ task # Panicked /\ HasFile(t) /\ Destroys(t) /\ task[t].pc = "unwrap"
        /\ lock' = Released(o) /\ References(o) = {t}
        /\ objects' = [objects EXCEPT ![o].alive = FALSE] /\ announced' \in Nat
        /\ task' = [task EXCEPT ![t] = next]
        /\ UNCHANGED <<stored, fds, nextFd, allowed, current, running, latest, failed>>
    BY NotPanicked, Zenon DEF CloseUnwrap, Becomes, OpenedInv, OpenedTypeOK, HasFile, Destroys,
       IsUnwrapped
  <1>2. next \in TaskState /\ next.pc = "idle"
    BY TaskStates, Zenon DEF Idle
  <1> HIDE DEF next
  <1>3. UNCHANGED <<stored, fds, nextFd, allowed, current, running, latest, failed>>
    BY <1>1, Zenon
  <1> QED
    BY <1>1, <1>2, <1>3, FileDestroyed, ZenonT(30)

LEMMA StopUnwrapKeeps ==
    ASSUME OpenedInv, NEW t \in Tasks, StopUnwrap(t)
    PROVE  OpenedInv'
  <1> DEFINE o == task[t].obj
             next == [pc |-> "stopped"]
  <1>1. /\ OpenedTypeOK /\ OneHolder /\ FilesAreAlive /\ CursorsExist
        /\ task # Panicked /\ HasFile(t) /\ Destroys(t) /\ task[t].pc = "stopunwrap"
        /\ lock' = Released(o) /\ References(o) = {t}
        /\ objects' = [objects EXCEPT ![o].alive = FALSE] /\ announced' \in Nat
        /\ task' = [task EXCEPT ![t] = next]
        /\ UNCHANGED <<stored, fds, nextFd, allowed, current, running, latest, failed>>
    BY NotPanicked, Zenon DEF StopUnwrap, Becomes, OpenedInv, OpenedTypeOK, HasFile, Destroys,
       IsUnwrapped
  <1>2. next \in TaskState /\ next.pc = "stopped"
    BY TaskStates, Zenon DEF Idle
  <1> HIDE DEF next
  <1>3. UNCHANGED <<stored, fds, nextFd, allowed, current, running, latest, failed>>
    BY <1>1, Zenon
  <1> QED
    BY <1>1, <1>2, <1>3, FileDestroyed, ZenonT(30)

\* The steps that change the stored manifest only.
LEMMA OthersKeep ==
    ASSUME OpenedInv, Move \/ InboundSync
    PROVE  OpenedInv'
  <1>1. /\ OpenedTypeOK /\ OneHolder /\ FilesAreAlive /\ CursorsExist
        /\ UNCHANGED <<lock, fds, nextFd, allowed, current, objects, task, running, failed>>
    BY Zenon DEF Move, InboundSync, OpenedInv
  <1>2. stored' \in Contents /\ latest' \in Nat /\ announced' \in Nat
    BY <1>1 DEF Move, InboundSync, OpenedTypeOK, Contents
  <1>3. OpenedTypeOK'
    BY <1>1, <1>2, Zenon DEF OpenedTypeOK
  <1>4. Alive' = Alive /\ Openers' = Openers /\ Keepers' = Keepers
    BY <1>1, Zenon DEF Alive, Openers, Keepers
  <1>5. OneHolder' /\ FilesAreAlive'
    BY <1>1, <1>4, Zenon DEF OneHolder, OneOf, FilesAreAlive, HasFile, Destroys
  <1>6. CursorsExist'
    BY <1>1, Zenon DEF CursorsExist, HasCursor, HasFd
  <1> QED
    BY <1>3, <1>5, <1>6, Zenon DEF OpenedInv

LEMMA OpenedInvInit == OpenedInit => OpenedInv
  <1> SUFFICES ASSUME OpenedInit PROVE OpenedInv
    BY Zenon
  <1>1. /\ Idle \in TaskState /\ Idle.pc = "idle" /\ task = [t \in Tasks |-> Idle]
    BY TaskStates, ZenonT(30) DEF OpenedInit, Idle
  <1>2. OpenedTypeOK
    <2>1. objects \in Seq(File)
      BY DEF OpenedInit
    <2>2. task \in [Tasks -> TaskState]
      BY <1>1, Zenon
    <2>3. stored \in Contents
      BY Zenon DEF OpenedInit, Contents
    <2> QED
      BY <2>1, <2>2, <2>3, ZenonT(30) DEF OpenedInit, OpenedTypeOK
  <1>3. Openers = {} /\ Alive = {} /\ Keepers = {} /\ ~lock /\ fds = {} /\ current = 0
    BY <1>1 DEF OpenedInit, Openers, Keepers, Alive
  <1>4. OneHolder
    BY <1>3, Zenon DEF OneHolder, OneOf
  <1> QED
    BY <1>1, <1>2, <1>3, <1>4, Zenon DEF OpenedInv, FilesAreAlive, CursorsExist, HasFile, HasFd, Destroys

LEMMA OpenedInvIsInductive == OpenedInv /\ [OpenedNext]_vars => OpenedInv'
  <1> SUFFICES ASSUME OpenedInv, [OpenedNext]_vars PROVE OpenedInv'
    BY Zenon
  <1>1. CASE UNCHANGED vars
    <2>1. UNCHANGED <<stored, lock, fds, nextFd, allowed, current, objects, task, running, latest,
                      announced, failed>>
      BY <1>1, Zenon DEF vars
    <2>2. Alive' = Alive /\ Openers' = Openers /\ Keepers' = Keepers
      BY <2>1, Zenon DEF Alive, Openers, Keepers
    <2>3. OpenedTypeOK' = OpenedTypeOK /\ OneHolder' = OneHolder /\ FilesAreAlive' = FilesAreAlive
      BY <2>1, <2>2, Zenon DEF OpenedTypeOK, OneHolder, FilesAreAlive, HasFile, Destroys
    <2>4. CursorsExist' = CursorsExist
      BY <2>1, Zenon DEF CursorsExist, HasCursor, HasFd
    <2> QED
      BY <2>1, <2>3, <2>4, Zenon DEF OpenedInv
  <1>2. ASSUME NEW t \in Tasks, TaskStep(t) PROVE OpenedInv'
    <2>1. CASE \/ OpenLock(t) \/ OpenRefused(t) \/ OpenAgain(t) \/ OpenNew(t) \/ OpenExisting(t)
               \/ OpenPush(t)
      BY <2>1, OpenLockKeeps, OpenRefusedKeeps, OpenAgainKeeps, OpenNewKeeps, OpenExistingKeeps,
         OpenPushKeeps, Zenon
    <2>2. CASE Write(t) \/ Flush(t) \/ CloseFlush(t) \/ CloseUnwrap(t)
      BY <2>2, WriteKeeps, FlushKeeps, CloseFlushKeeps, CloseUnwrapKeeps, Zenon
    <2>3. CASE StopTakes(t) \/ StopFlush(t) \/ StopUnwrap(t) \/ StopStorage(t)
      BY <2>3, StopTakesKeeps, StopFlushKeeps, StopUnwrapKeeps, StopStorageKeeps, Zenon
    <2> QED
      BY <1>2, <2>1, <2>2, <2>3, Zenon DEF TaskStep
  <1>3. ASSUME NEW t \in Tasks, NEW mode \in Modes, Open(t, mode) PROVE OpenedInv'
    BY <1>3, OpenKeeps, Zenon
  <1>4. ASSUME NEW t \in Tasks, NEW fd \in fds, Access(t, fd) \/ Close(t, fd) PROVE OpenedInv'
    BY <1>4, AccessKeeps, CloseKeeps, Zenon
  <1>5. ASSUME NEW t \in Tasks, Stop(t) PROVE OpenedInv'
    BY <1>5, StopKeeps, Zenon
  <1> QED
    BY <1>1, <1>2, <1>3, <1>4, <1>5, OthersKeep, Zenon DEF OpenedNext

LEMMA OpenedInvHolds == OpenedSpec => []OpenedInv
  BY OpenedInvInit, OpenedInvIsInductive, PTL DEF OpenedSpec

\* The update lock of a manifest is taken as long as a task that opens the file, or an opened
\* file, has its updater, and never by two of them (`for_update_file`, `open_file` and
\* `close_file`): it is neither leaked nor given twice, whatever the number of tasks.
THEOREM LockKeepsOneHolder == OpenedSpec => []LockHasOneHolder
  <1>1. OpenedInv => LockHasOneHolder
    <2> SUFFICES ASSUME OneHolder
                 PROVE  Cardinality(Openers) + Cardinality(Keepers) = IF lock THEN 1 ELSE 0
      BY Zenon DEF OpenedInv, LockHasOneHolder, Openers, Keepers
    <2>1. \A S : S # {} /\ (\A a, b \in S : a = b) => Cardinality(S) = 1
      <3> SUFFICES ASSUME NEW S, S # {}, \A a, b \in S : a = b PROVE Cardinality(S) = 1
        BY Zenon
      <3>1. PICK x \in S : S = {x}
        BY Zenon
      <3> QED
        BY <3>1, FS_Singleton, Zenon
    <2>2. Cardinality({}) = 0
      BY FS_EmptySet, Zenon
    <2>3. CASE Openers # {}
      <3>1. lock /\ Keepers = {} /\ Cardinality(Openers) = 1
        BY <2>1, <2>3, Zenon DEF OneHolder, OneOf
      <3> QED
        BY <2>2, <3>1
    <2>4. CASE Keepers # {}
      <3>1. lock /\ Openers = {} /\ Cardinality(Keepers) = 1
        BY <2>1, <2>4, Zenon DEF OneHolder, OneOf
      <3> QED
        BY <2>2, <3>1
    <2>5. CASE Openers = {} /\ Keepers = {}
      BY <2>2, <2>5 DEF OneHolder, OneOf
    <2> QED
      BY <2>3, <2>4, <2>5, Zenon
  <1> QED
    BY <1>1, OpenedInvHolds, PTL

\* "File descriptor always refers to an opened file" (`opened_files`), which was not destroyed
\* and has, or is about to have, the cursor of the descriptor, however opening, closing and
\* stopping interleave.
THEOREM DescriptorsStayOpened == OpenedSpec => []DescriptorsAreOpened
  <1>1. OpenedInv => DescriptorsAreOpened
    BY Zenon DEF OpenedInv, DescriptorsAreOpened, FilesAreAlive, CursorsExist, HasCursor
  <1> QED
    BY <1>1, OpenedInvHolds, PTL


(***************************************************************************)
(* When everybody opens the file to write, and nobody stops the storage.   *)
(***************************************************************************)

OnlyWriters == "read" \notin Modes /\ "stop" \notin Operations

\* What an opened file has, given the stored manifest and the last change: everything, to be
\* flushed by whoever closes one of its cursors if it is not stored.
UpToDate(f, st, last) ==
    /\ f.updater
    /\ f.manifest.content = last /\ f.manifest.meta = st.meta
    /\ ~f.flush => st.content = last
    /\ f.flush => f.cursors # {}

\* A cursor has its file descriptor, or a task is about to remove it.
HasOwner(o, fd) ==
    \/ o = current /\ fd \in fds
    \/ \E t \in Tasks : task[t].pc = "close" /\ task[t].obj = o /\ task[t].fd = fd

StopSteps == {"panic", "stop", "stopped", "stopflush", "stopunwrap"}

TasksWrite ==
    /\ running
    /\ \A t \in Tasks : task[t].pc \notin StopSteps
    /\ \A t \in Tasks : task[t].pc = "open" /\ task[t].updater => task[t].manifest = stored
    /\ \A t \in Tasks : task[t].pc = "push" => task[t].obj = current /\ task[t].fd \in fds

FilesWrite ==
    /\ Alive = {} => stored.content = latest
    /\ \A o \in Alive : UpToDate(objects[o], stored, latest)
    /\ \A o \in Alive : \A c \in objects[o].cursors : HasOwner(o, c.fd)

WritingInv == OpenedInv /\ TasksWrite /\ FilesWrite

\* What is known of a step of a task.
LEMMA WritingFacts ==
    ASSUME WritingInv, NEW t \in Tasks
    PROVE  /\ OpenedTypeOK /\ OneHolder /\ FilesAreAlive /\ CursorsExist
           /\ task # Panicked /\ running /\ task[t] \in TaskState
           /\ \A o, p \in Alive : o = p
           /\ Alive # {} => Openers = {}
  <1>1. task # Panicked
    BY DEF WritingInv, TasksWrite, Panicked, StopSteps
  <1>2. OpenedTypeOK /\ OneHolder /\ FilesAreAlive /\ CursorsExist
    BY <1>1, Zenon DEF WritingInv, OpenedInv
  <1>3. Keepers = Alive
    BY Zenon DEF Keepers, WritingInv, FilesWrite, UpToDate
  <1> QED
    BY <1>1, <1>2, <1>3, Zenon DEF OpenedTypeOK, OneHolder, OneOf, WritingInv, TasksWrite

\* A task goes on, and changes nothing else.
LEMMA TaskGoesOn ==
    ASSUME WritingInv, NEW t \in Tasks, NEW next, task' = [task EXCEPT ![t] = next],
           next.pc \notin StopSteps, next.pc # "push",
           next.pc = "open" /\ next.updater => next.manifest = stored,
           task[t].pc # "close",
           UNCHANGED <<stored, fds, current, objects, running, latest>>
    PROVE  TasksWrite' /\ FilesWrite'
  <1>1. task'[t] = next /\ \A s \in Tasks : s # t => task'[s] = task[s]
    BY WritingFacts, Zenon DEF OpenedTypeOK
  <1>2. TasksWrite'
    BY <1>1 DEF WritingInv, TasksWrite
  <1>3. Alive' = Alive
    BY Zenon DEF Alive
  <1>4. ASSUME NEW o, NEW fd, HasOwner(o, fd) PROVE HasOwner(o, fd)'
    BY <1>1, <1>4, Zenon DEF HasOwner
  <1>5. FilesWrite'
    BY <1>3, <1>4, Zenon DEF WritingInv, FilesWrite
  <1> QED
    BY <1>2, <1>5, Zenon

\* `force_reshape_and_flush`, with the updater and a storage that runs.
Stores(t, next, o, file) ==
    /\ task' = [task EXCEPT ![t] = next]
    /\ stored' = (IF file.flush THEN file.manifest ELSE stored)
    /\ \E f \in File : Same(f, file) /\ ~f.flush /\ objects' = [objects EXCEPT ![o] = f]

LEMMA FlushStores ==
    ASSUME NEW t, NEW next, NEW o, NEW file \in File, NEW reported,
           FlushAndGo(t, next, o, file, reported), file.updater, running
    PROVE  Stores(t, next, o, file)
  <1> USE DEF Stores
  <1>1. file.flush \in BOOLEAN
    BY Zenon DEF File
  <1>2. CASE ~file.flush
    BY <1>2, ZenonT(30) DEF FlushAndGo, Becomes, Same
  <1>3. CASE file.flush
    <2> DEFINE f == [file EXCEPT !.flush = FALSE]
    <2>1. f \in File /\ Same(f, file) /\ ~f.flush
      BY ZenonT(30) DEF File, Same
    <2>2. objects' = [objects EXCEPT ![o] = f] /\ stored' = file.manifest
          /\ task' = [task EXCEPT ![t] = next]
      BY <1>3, Zenon DEF FlushAndGo, Becomes
    <2> QED
      BY <1>3, <2>1, <2>2, ZenonT(30)
  <1> QED
    BY <1>1, <1>2, <1>3, Zenon

\* A task leaves its opened file with everything that was written, and goes on.
LEMMA FileStaysUpToDate ==
    ASSUME WritingInv, NEW t \in Tasks, NEW next, NEW o \in Alive, NEW f \in File,
           task' = [task EXCEPT ![t] = next], objects' = [objects EXCEPT ![o] = f],
           UNCHANGED <<fds, current, running>>,
           next.pc \in {"idle", "unwrap"},
           f.alive, UpToDate(f, stored', latest'),
           \A c \in f.cursors : HasOwner(o, c.fd),
           task[t].pc = "close" =>
              task[t].obj = o /\ \A c \in f.cursors : c.fd # task[t].fd
    PROVE  TasksWrite' /\ FilesWrite'
  <1>1. task'[t] = next /\ \A s \in Tasks : s # t => task'[s] = task[s]
    BY WritingFacts, Zenon DEF OpenedTypeOK
  <1>2. Openers = {} /\ Alive = {o}
    BY WritingFacts, Zenon
  <1>3. \A s \in Tasks : s # t /\ task[s].pc = "open" => ~task[s].updater
    BY <1>2, Zenon DEF Openers
  <1>4. TasksWrite'
    BY <1>1, <1>3 DEF WritingInv, TasksWrite, StopSteps
  <1>5. o \in DOMAIN objects /\ objects'[o] = f /\ DOMAIN objects' = DOMAIN objects
        /\ \A p \in DOMAIN objects : p # o => objects'[p] = objects[p]
    BY WritingFacts, Zenon DEF Alive, OpenedTypeOK
  <1>6. Alive' = {o}
    BY <1>2, <1>5, Zenon DEF Alive
  <1>7. ASSUME NEW c \in f.cursors PROVE HasOwner(o, c.fd)'
    <2>1. HasOwner(o, c.fd)
      BY <1>7, Zenon
    <2> QED
      BY <1>1, <1>7, <2>1, ZenonT(30) DEF HasOwner
  <1>8. FilesWrite'
    BY <1>5, <1>6, <1>7, ZenonT(30) DEF FilesWrite
  <1> QED
    BY <1>4, <1>8, ZenonT(30)

\* What a step is shown to do: nothing is lost, nothing that was stored is undone.
Advances == TasksWrite' /\ FilesWrite' /\ stored'.meta >= stored.meta

LEMMA MetaStays ==
    ASSUME WritingInv, NEW t \in Tasks, stored' = stored \/ stored'.meta = stored.meta
    PROVE  stored'.meta >= stored.meta
  <1>1. stored.meta \in Nat
    BY WritingFacts, Zenon DEF OpenedTypeOK, Contents
  <1> QED
    BY <1>1

\* The task has a reference to the opened file.
LEMMA WritersFile ==
    ASSUME WritingInv, NEW t \in Tasks, HasFile(t), NEW o, o = task[t].obj
    PROVE  /\ o \in Alive /\ o \in DOMAIN objects /\ objects[o] \in File /\ objects[o].alive
           /\ UpToDate(objects[o], stored, latest)
           /\ \A c \in objects[o].cursors : HasOwner(o, c.fd)
  <1>1. o \in Alive
    BY WritingFacts, ZenonT(30) DEF FilesAreAlive
  <1>2. o \in DOMAIN objects /\ objects[o].alive
    BY <1>1, ZenonT(30) DEF Alive
  <1>3. objects \in Seq(File)
    BY WritingFacts, ZenonT(30) DEF OpenedTypeOK
  <1>4. objects[o] \in File
    BY <1>2, <1>3
  <1>5. /\ UpToDate(objects[o], stored, latest)
        /\ \A c \in objects[o].cursors : HasOwner(o, c.fd)
    BY <1>1, ZenonT(30) DEF WritingInv, FilesWrite
  <1> QED
    BY <1>1, <1>2, <1>4, <1>5, ZenonT(30)

\* A task flushes what it has made of its file, and goes on.
Leaves(t, next, o, file) ==
    /\ next.pc \in {"idle", "unwrap"} /\ UNCHANGED <<fds, current, running>>
    /\ file.alive /\ file.updater /\ file.manifest.content = latest'
    /\ file.manifest.meta = stored.meta /\ (~file.flush => stored.content = latest')
    /\ \A c \in file.cursors : HasOwner(o, c.fd)
    /\ task[t].pc = "close" => task[t].obj = o /\ \A c \in file.cursors : c.fd # task[t].fd

LEMMA FlushAdvances ==
    ASSUME WritingInv, NEW t \in Tasks, NEW next, NEW o \in Alive, NEW file \in File,
           NEW reported, FlushAndGo(t, next, o, file, reported), Leaves(t, next, o, file)
    PROVE  Advances
  <1>1. running
    BY WritingFacts, Zenon
  <1>0. Stores(t, next, o, file)
    BY <1>1, FlushStores, Zenon DEF Leaves
  <1>2. PICK f \in File : Same(f, file) /\ ~f.flush /\ objects' = [objects EXCEPT ![o] = f]
    BY <1>0, ZenonT(30) DEF Stores
  <1>3. /\ task' = [task EXCEPT ![t] = next]
        /\ stored' = (IF file.flush THEN file.manifest ELSE stored)
    BY <1>0, Zenon DEF Stores
  <1>4. stored'.meta = stored.meta /\ stored'.content = latest'
    BY <1>3, Zenon DEF Leaves
  <1>5. /\ UpToDate(f, stored', latest') /\ f.alive /\ f.cursors = file.cursors
    BY <1>2, <1>4, Zenon DEF Same, UpToDate, Leaves
  <1>6. TasksWrite' /\ FilesWrite'
    <2>1. /\ \A c \in f.cursors : HasOwner(o, c.fd)
          /\ task[t].pc = "close" => task[t].obj = o /\ \A c \in f.cursors : c.fd # task[t].fd
      BY <1>5, ZenonT(30) DEF Leaves
    <2> QED
      BY <1>2, <1>3, <1>5, <2>1, FileStaysUpToDate, ZenonT(30) DEF Leaves
  <1> QED
    BY <1>4, <1>6, MetaStays, Zenon DEF Advances

LEMMA WriteAdvances ==
    ASSUME WritingInv, NEW t \in Tasks, Write(t)
    PROVE  Advances
  <1> DEFINE o == task[t].obj
             file == [objects[o] EXCEPT !.manifest.content = latest + 1, !.manifest.size = 1,
                                        !.flush = TRUE, !.modified = TRUE]
  <1>1. /\ task[t].pc = "write" /\ HasFile(t) /\ o = task[t].obj
        /\ UNCHANGED <<lock, fds, nextFd, allowed, current, running, announced>>
        /\ \/ task' = [task EXCEPT ![t] = Idle] /\ UNCHANGED <<objects, stored, failed, latest>>
           \/ /\ latest' = latest + 1 /\ MayWrite(t)
              /\ \/ /\ objects' = [objects EXCEPT ![o] = file]
                    /\ task' = [task EXCEPT ![t] = Idle] /\ UNCHANGED <<stored, failed>>
                 \/ FlushAndGo(t, Idle, o, file, FALSE)
    BY ZenonT(30) DEF Write, Becomes, HasFile
  <1>2. /\ o \in Alive /\ objects[o] \in File /\ objects[o].alive
        /\ UpToDate(objects[o], stored, latest) /\ \A c \in objects[o].cursors : HasOwner(o, c.fd)
    BY <1>1, WritersFile, Zenon
  <1>3. latest \in Nat /\ latest + 1 \in Nat /\ running /\ Idle.pc = "idle"
    BY WritingFacts DEF OpenedTypeOK, Idle
  <1>4. MayWrite(t) => objects[o].cursors # {}
    BY Zenon DEF MayWrite
  <1>5. /\ file \in File /\ file.alive /\ file.updater /\ file.cursors = objects[o].cursors
        /\ file.manifest.content = latest + 1 /\ file.manifest.meta = stored.meta /\ file.flush
    <2> DEFINE m == [objects[o].manifest EXCEPT !.content = latest + 1, !.size = 1]
    <2>1. m \in Contents /\ m.content = latest + 1 /\ m.meta = stored.meta
      BY <1>2, <1>3, ZenonT(30) DEF File, Contents, UpToDate
    <2>2. file = [objects[o] EXCEPT !.manifest = m, !.flush = TRUE, !.modified = TRUE]
      BY <1>2, ZenonT(30) DEF File, Contents
    <2>3. objects[o].updater
      BY <1>2, ZenonT(30) DEF UpToDate
    <2> HIDE DEF m, file
    <2> QED
      BY <1>2, <2>1, <2>2, <2>3, ZenonT(30) DEF File
  <1> HIDE DEF o, file
  <1>6. CASE task' = [task EXCEPT ![t] = Idle] /\ UNCHANGED <<objects, stored, failed, latest>>
    <2>1. TasksWrite' /\ FilesWrite'
      BY <1>1, <1>3, <1>6, TaskGoesOn, ZenonT(30) DEF StopSteps
    <2> QED
      BY <1>6, <2>1, MetaStays, Zenon DEF Advances
  <1>7. CASE /\ task' = [task EXCEPT ![t] = Idle] /\ objects' = [objects EXCEPT ![o] = file]
             /\ latest' = latest + 1 /\ UNCHANGED <<stored, failed>> /\ MayWrite(t)
    <2>1. UpToDate(file, stored', latest')
      BY <1>4, <1>5, <1>7, Zenon DEF UpToDate
    <2>2. \A c \in file.cursors : HasOwner(o, c.fd)
      BY <1>2, <1>5, Zenon
    <2>3. UNCHANGED <<fds, current, running>>
      BY <1>1, Zenon
    <2>4. TasksWrite' /\ FilesWrite'
      BY <1>1, <1>2, <1>3, <1>5, <1>7, <2>1, <2>2, <2>3, FileStaysUpToDate, ZenonT(30)
    <2> QED
      BY <1>7, <2>4, MetaStays, Zenon DEF Advances
  <1>8. CASE FlushAndGo(t, Idle, o, file, FALSE) /\ latest' = latest + 1
    <2>1. /\ file.manifest.content = latest' /\ (~file.flush => stored.content = latest')
          /\ UNCHANGED <<fds, current, running>> /\ task[t].pc # "close"
      BY <1>1, <1>5, <1>8, ZenonT(30)
    <2>2. \A c \in file.cursors : HasOwner(o, c.fd)
      BY <1>2, <1>5, Zenon
    <2>3. /\ o \in Alive /\ file \in File /\ file.alive /\ file.updater
          /\ file.manifest.meta = stored.meta /\ Idle.pc \in {"idle", "unwrap"}
      BY <1>2, <1>3, <1>5, Zenon
    <2>4. Leaves(t, Idle, o, file)
      BY <2>1, <2>2, <2>3, Zenon DEF Leaves
    <2> QED
      BY <1>8, <2>3, <2>4, FlushAdvances, Zenon
  <1> QED
    BY <1>1, <1>6, <1>7, <1>8, ZenonT(30)

LEMMA FlushesAdvance ==
    ASSUME WritingInv, NEW t \in Tasks, Flush(t)
    PROVE  Advances
  <1> DEFINE o == task[t].obj
  <1>1. /\ task[t].pc = "flush" /\ HasFile(t) /\ o = task[t].obj
        /\ UNCHANGED <<fds, current, running, latest>>
        /\ \/ task' = [task EXCEPT ![t] = Idle] /\ UNCHANGED <<objects, stored>>
           \/ FlushAndGo(t, Idle, o, objects[o], TRUE)
    BY ZenonT(30) DEF Flush, Becomes, HasFile
  <1>2. /\ o \in Alive /\ objects[o] \in File /\ objects[o].alive /\ Idle.pc = "idle"
        /\ UpToDate(objects[o], stored, latest) /\ \A c \in objects[o].cursors : HasOwner(o, c.fd)
    BY <1>1, WritersFile, ZenonT(30) DEF Idle
  <1> HIDE DEF o
  <1>3. CASE task' = [task EXCEPT ![t] = Idle] /\ UNCHANGED <<objects, stored>>
    <2>1. TasksWrite' /\ FilesWrite'
      BY <1>1, <1>2, <1>3, TaskGoesOn, ZenonT(30) DEF StopSteps
    <2> QED
      BY <1>3, <2>1, MetaStays, Zenon DEF Advances
  <1>4. CASE FlushAndGo(t, Idle, o, objects[o], TRUE)
    <2>1. /\ objects[o].updater /\ objects[o].manifest.content = latest'
          /\ objects[o].manifest.meta = stored.meta
          /\ (~objects[o].flush => stored.content = latest') /\ task[t].pc # "close"
      BY <1>1, <1>2, ZenonT(30) DEF UpToDate
    <2>2. UNCHANGED <<fds, current, running>>
      BY <1>1, ZenonT(30)
    <2>3. /\ o \in Alive /\ objects[o] \in File /\ objects[o].alive
          /\ \A c \in objects[o].cursors : HasOwner(o, c.fd)
      BY <1>2, ZenonT(30)
    <2>4. Leaves(t, Idle, o, objects[o])
      BY <2>1, <2>2, <2>3, ZenonT(30) DEF Idle, Leaves
    <2> QED
      BY <1>4, <2>3, <2>4, FlushAdvances, Zenon
  <1> QED
    BY <1>1, <1>3, <1>4, ZenonT(30)

LEMMA CloseFlushAdvances ==
    ASSUME WritingInv, NEW t \in Tasks, CloseFlush(t)
    PROVE  Advances
  <1> DEFINE o == task[t].obj
             file == [objects[o] EXCEPT !.cursors = {c \in @ : c.fd # task[t].fd}]
             next == IF task[t].still THEN Idle ELSE [pc |-> "unwrap", obj |-> o]
  <1>1. /\ task[t].pc = "close" /\ HasFile(t) /\ o = task[t].obj
        /\ UNCHANGED <<fds, current, running, latest>> /\ UNCHANGED <<fds, current, running>>
        /\ FlushAndGo(t, next, o, file, TRUE)
    BY ZenonT(30) DEF CloseFlush, HasFile
  <1>2. /\ o \in Alive /\ objects[o] \in File /\ objects[o].alive
        /\ UpToDate(objects[o], stored, latest) /\ \A c \in objects[o].cursors : HasOwner(o, c.fd)
    BY <1>1, WritersFile, Zenon
  <1>3. next.pc \in {"idle", "unwrap"}
    BY Zenon DEF Idle
  <1>4. /\ file \in File /\ file.alive = objects[o].alive /\ file.updater = objects[o].updater
        /\ file.manifest = objects[o].manifest /\ file.flush = objects[o].flush
        /\ file.cursors = {c \in objects[o].cursors : c.fd # task[t].fd}
    BY <1>2, ZenonT(30) DEF File
  <1> HIDE DEF o, file, next
  <1>5. /\ file.alive /\ file.updater /\ file.manifest.content = latest'
        /\ file.manifest.meta = stored.meta /\ (~file.flush => stored.content = latest')
    BY <1>1, <1>2, <1>4, ZenonT(30) DEF UpToDate
  <1>6. /\ \A c \in file.cursors : HasOwner(o, c.fd)
        /\ task[t].obj = o /\ \A c \in file.cursors : c.fd # task[t].fd
    BY <1>1, <1>2, <1>4, ZenonT(30)
  <1>7. o \in Alive /\ file \in File /\ FlushAndGo(t, next, o, file, TRUE)
    BY <1>1, <1>2, <1>4, ZenonT(30)
  <1>8. Leaves(t, next, o, file)
    BY <1>1, <1>3, <1>5, <1>6, ZenonT(30) DEF Leaves
  <1> QED
    BY <1>7, <1>8, FlushAdvances, Zenon

\* The steps that only change where a task is, and who has the lock.
LEMMA TasksAdvance ==
    ASSUME WritingInv, NEW t \in Tasks,
           \/ \E mode \in Modes : Open(t, mode)
           \/ \E fd \in fds : Access(t, fd)
           \/ OpenLock(t) \/ OpenRefused(t) \/ OpenAgain(t)
    PROVE  Advances
  <1>1. UNCHANGED <<stored, fds, current, objects, running, latest>> /\ stored' = stored
    BY ZenonT(30) DEF Open, Access, OpenLock, OpenRefused, OpenAgain
  <1>2. ASSUME NEW next, task' = [task EXCEPT ![t] = next],
               next.pc \in {"idle", "lock", "open", "write", "flush"},
               next.pc = "open" => next.manifest = stored,
               task[t].pc # "close"
        PROVE  Advances
    <2>1. TasksWrite' /\ FilesWrite'
      BY <1>1, <1>2, TaskGoesOn, ZenonT(30) DEF StopSteps
    <2> QED
      BY <1>1, <2>1, MetaStays, Zenon DEF Advances
  <1>3. CASE \E mode \in Modes : Open(t, mode)
    <2>1. PICK mode \in Modes : /\ task' = [task EXCEPT ![t] = [pc |-> "lock", mode |-> mode]]
                                /\ task[t] = [pc |-> "idle"]
      BY <1>3, ZenonT(30) DEF Open, Becomes, Idle
    <2> DEFINE next == [pc |-> "lock", mode |-> mode]
    <2>2. next.pc = "lock" /\ task[t].pc # "close" /\ task' = [task EXCEPT ![t] = next]
      BY <2>1
    <2> HIDE DEF next
    <2> QED
      BY <1>2, <2>2, ZenonT(30)
  <1>4. CASE \E fd \in fds : Access(t, fd)
    <2>1. PICK op \in {"write", "flush"}, fd \in fds :
             /\ task' = [task EXCEPT ![t] = [pc |-> op, obj |-> current, fd |-> fd]]
             /\ task[t] = [pc |-> "idle"]
      BY <1>4, ZenonT(30) DEF Access, Begin, Becomes, Idle
    <2> DEFINE next == [pc |-> op, obj |-> current, fd |-> fd]
    <2>2. next.pc = op /\ task[t].pc # "close" /\ task' = [task EXCEPT ![t] = next]
      BY <2>1
    <2> HIDE DEF next
    <2> QED
      BY <1>2, <2>2, ZenonT(30)
  <1>5. CASE OpenLock(t)
    <2> DEFINE next == [pc |-> "open", mode |-> task[t].mode, updater |-> ~lock, manifest |-> stored]
    <2>1. /\ task' = [task EXCEPT ![t] = next] /\ task[t].pc # "close"
          /\ next.pc = "open" /\ next.manifest = stored
      BY <1>5, Zenon DEF OpenLock, Becomes
    <2> HIDE DEF next
    <2> QED
      BY <1>2, <2>1, ZenonT(30)
  <1>6. CASE OpenRefused(t)
    <2>1. task' = [task EXCEPT ![t] = Idle] /\ task[t].pc # "close" /\ Idle.pc = "idle"
      BY <1>6, Zenon DEF OpenRefused, Becomes, Idle
    <2> QED
      BY <1>2, <2>1, ZenonT(30)
  <1>7. CASE OpenAgain(t)
    <2> DEFINE next == [pc |-> "lock", mode |-> task[t].mode]
    <2>1. task' = [task EXCEPT ![t] = next] /\ task[t].pc # "close" /\ next.pc = "lock"
      BY <1>7, Zenon DEF OpenAgain, Becomes
    <2> HIDE DEF next
    <2> QED
      BY <1>2, <2>1, ZenonT(30)
  <1> QED
    BY <1>3, <1>4, <1>5, <1>6, <1>7, Zenon

LEMMA OpenNewAdvances ==
    ASSUME OnlyWriters, WritingInv, NEW t \in Tasks, OpenNew(t)
    PROVE  Advances
  <1> DEFINE mode == task[t].mode
             change == Truncates(mode, task[t].manifest)
             manifest == Truncated(mode, task[t].manifest, latest + 1)
             cursor == Cursor(nextFd, mode)
             file == [updater |-> CanWrite(mode), manifest |-> manifest, cursors |-> {cursor},
                      flush |-> change, modified |-> change, alive |-> TRUE]
             last == Len(objects) + 1
  <1>1. /\ task[t].pc = "open" /\ task[t].updater /\ current = 0
        /\ objects' = Append(objects, file)
        /\ latest' = (IF change THEN latest + 1 ELSE latest)
        /\ current' = last /\ fds' = fds \cup {nextFd}
        /\ task' = [task EXCEPT ![t] = Idle] /\ stored' = stored /\ running' = running
    BY Zenon DEF OpenNew, Becomes, NewDescriptor
  <1>2. /\ OpenedTypeOK /\ FilesAreAlive /\ task[t] \in TaskState /\ running /\ Alive = {}
    <2>1. t \in Openers
      BY <1>1, Zenon DEF Openers
    <2> QED
      BY <2>1, WritingFacts, Zenon
  <1>3. /\ task[t].manifest = stored /\ stored.content = latest /\ stored \in Contents
        /\ latest \in Nat /\ latest + 1 \in Nat
    <2>1. task[t].manifest = stored
      BY <1>1, ZenonT(30) DEF WritingInv, TasksWrite
    <2>2. stored.content = latest
      BY <1>2, ZenonT(30) DEF WritingInv, FilesWrite
    <2>3. stored \in Contents /\ latest \in Nat
      BY <1>2, ZenonT(30) DEF OpenedTypeOK
    <2>4. latest + 1 \in Nat
      BY <2>3
    <2> QED
      BY <2>1, <2>2, <2>3, <2>4, ZenonT(30)
  <1>4. /\ change \in BOOLEAN /\ manifest.meta = stored.meta
        /\ manifest.content = (IF change THEN latest + 1 ELSE latest)
    BY <1>3, TruncatedType
  <1>5. CanWrite(mode) /\ cursor.fd = nextFd
    BY <1>1, <1>2, TaskFields, Zenon DEF OnlyWriters, CanWrite, Cursor
  <1> HIDE DEF manifest, change, mode, cursor
  <1>6. /\ file.updater /\ file.alive /\ file.manifest = manifest /\ file.flush = change
        /\ file.cursors = {cursor}
    BY <1>5, Zenon
  <1> HIDE DEF file
  <1>7. UpToDate(file, stored', latest')
    BY <1>1, <1>3, <1>4, <1>6, ZenonT(30) DEF UpToDate
  <1>8. /\ DOMAIN objects' = DOMAIN objects \cup {last}
        /\ objects'[last] = file /\ last \notin DOMAIN objects
        /\ \A p \in DOMAIN objects : objects'[p] = objects[p]
    BY <1>1, <1>2 DEF OpenedTypeOK
  <1> HIDE DEF last
  <1>9. Alive' = {last}
    BY <1>2, <1>6, <1>8, Zenon DEF Alive
  <1>10. /\ task'[t] = Idle /\ Idle.pc = "idle"
         /\ \A s \in Tasks : s # t => task'[s] = task[s]
    BY <1>1, <1>2, Zenon DEF OpenedTypeOK, Idle
  <1>11. TasksWrite'
    <2>1. \A s \in Tasks : task[s].pc # "push"
      BY <1>2, Zenon DEF FilesAreAlive, HasFile
    <2> QED
      BY <1>1, <1>10, <2>1, ZenonT(30) DEF WritingInv, TasksWrite, StopSteps
  <1>12. FilesWrite'
    <2>1. ASSUME NEW o \in Alive', NEW c \in objects'[o].cursors PROVE HasOwner(o, c.fd)'
      <3>1. o = last /\ c.fd = nextFd /\ current' = last /\ fds' = fds \cup {nextFd}
        BY <1>1, <1>5, <1>6, <1>8, <1>9, <2>1, ZenonT(30)
      <3> QED
        BY <3>1, Zenon DEF HasOwner
    <2>2. \A o \in Alive' : UpToDate(objects'[o], stored', latest')
      BY <1>7, <1>8, <1>9, Zenon
    <2>3. Alive' # {}
      BY <1>9, Zenon
    <2> QED
      BY <2>1, <2>2, <2>3, Zenon DEF FilesWrite
  <1> QED
    BY <1>1, <1>11, <1>12, MetaStays, Zenon DEF Advances

LEMMA OpenExistingAdvances ==
    ASSUME WritingInv, NEW t \in Tasks, OpenExisting(t)
    PROVE  Advances
  <1> DEFINE keeps == task[t].updater /\ CanWrite(task[t].mode)
             next == [pc |-> "push", mode |-> task[t].mode, updater |-> keeps,
                      obj |-> current, fd |-> nextFd]
  <1>1. /\ task[t].pc = "open" /\ current # 0 /\ fds' = fds \cup {nextFd}
        /\ task' = [task EXCEPT ![t] = next]
        /\ UNCHANGED <<stored, current, objects, running, latest>>
    BY Zenon DEF OpenExisting, Becomes, NewDescriptor
  <1>2. next.pc = "push" /\ next.obj = current /\ next.fd = nextFd
    BY Zenon
  <1> HIDE DEF next
  <1>3. /\ task'[t] = next /\ \A s \in Tasks : s # t => task'[s] = task[s]
    BY <1>1, WritingFacts, Zenon DEF OpenedTypeOK
  <1>4. TasksWrite'
    BY <1>1, <1>2, <1>3 DEF WritingInv, TasksWrite, StopSteps
  <1>5. Alive' = Alive
    BY <1>1, Zenon DEF Alive
  <1>6. ASSUME NEW o, NEW fd, HasOwner(o, fd) PROVE HasOwner(o, fd)'
    BY <1>1, <1>3, <1>6, Zenon DEF HasOwner
  <1>7. FilesWrite'
    BY <1>1, <1>5, <1>6, Zenon DEF WritingInv, FilesWrite
  <1> QED
    BY <1>1, <1>4, <1>7, MetaStays, Zenon DEF Advances

LEMMA OpenPushAdvances ==
    ASSUME WritingInv, NEW t \in Tasks, OpenPush(t)
    PROVE  Advances
  <1> DEFINE o == task[t].obj
             mode == task[t].mode
             change == Truncates(mode, objects[o].manifest)
             updater == UpdaterAfter(objects[o], task[t].updater)
             manifest == Truncated(mode, objects[o].manifest, latest + 1)
             cursor == Cursor(task[t].fd, mode)
             cursors == objects[o].cursors \cup {cursor}
             file == [objects[o] EXCEPT !.updater = updater, !.manifest = manifest,
                                        !.cursors = cursors, !.flush = @ \/ change]
  <1>1. /\ task[t].pc = "push" /\ HasFile(t) /\ o = task[t].obj
        /\ task' = (IF objects[o].updater /\ task[t].updater THEN Panicked
                    ELSE [task EXCEPT ![t] = Idle])
        /\ objects' = [objects EXCEPT ![o] = file]
        /\ latest' = (IF change THEN latest + 1 ELSE latest)
        /\ UNCHANGED <<fds, current, running>> /\ stored' = stored
    BY Zenon DEF OpenPush, Becomes, HasFile
  <1>2. /\ o \in Alive /\ objects[o] \in File /\ objects[o].alive
        /\ UpToDate(objects[o], stored, latest) /\ \A c \in objects[o].cursors : HasOwner(o, c.fd)
    BY <1>1, WritersFile, Zenon
  <1>3. task[t].updater = FALSE
    <2>1. Openers = {}
      BY <1>2, WritingFacts, ZenonT(30)
    <2>2. task[t].updater \in BOOLEAN
      BY <1>1, WritingFacts, TaskFields, Zenon
    <2> QED
      BY <1>1, <2>1, <2>2, Zenon DEF Openers
  <1>4. /\ change \in BOOLEAN /\ manifest \in Contents /\ manifest.meta = stored.meta
        /\ manifest.content = latest'
    <2>1. /\ objects[o].manifest \in Contents /\ objects[o].manifest.meta = stored.meta
          /\ objects[o].manifest.content = latest /\ latest + 1 \in Nat
      <3>1. latest \in Nat
        BY WritingFacts, ZenonT(30) DEF OpenedTypeOK
      <3>2. objects[o].manifest \in Contents
        BY <1>2, Zenon DEF File
      <3> QED
        BY <1>2, <3>1, <3>2 DEF UpToDate
    <2>2. /\ manifest \in Contents /\ change \in BOOLEAN /\ manifest.meta = objects[o].manifest.meta
          /\ manifest.content = (IF change THEN latest + 1 ELSE objects[o].manifest.content)
      BY <2>1, TruncatedType, ZenonT(30)
    <2> QED
      BY <1>1, <2>1, <2>2, Zenon
  <1>5. /\ updater = TRUE /\ cursor \in [fd : Nat, write : BOOLEAN] /\ cursor.fd = task[t].fd
    <2>1. task[t].fd \in Nat /\ objects[o].updater
      BY <1>1, <1>2, WritingFacts, TaskFields, Zenon DEF UpToDate
    <2> QED
      BY <2>1, Zenon DEF UpdaterAfter, Cursor, CanWrite
  <1>6. cursors \in SUBSET [fd : Nat, write : BOOLEAN]
    BY <1>2, <1>5, ZenonT(30) DEF File
  <1>7. o = current /\ task[t].fd \in fds
    BY <1>1, Zenon DEF WritingInv, TasksWrite
  <1> HIDE DEF updater, manifest, change, cursor
  <1>8. cursors = objects[o].cursors \cup {cursor}
    BY Zenon
  <1> HIDE DEF cursors
  <1>9. /\ file \in File /\ file.alive /\ file.updater /\ file.cursors = cursors
        /\ file.manifest = manifest /\ file.flush = (objects[o].flush \/ change)
    BY <1>2, <1>4, <1>5, <1>6, ZenonT(30) DEF File
  <1> HIDE DEF file, o
  <1>10. UpToDate(file, stored', latest')
    <2>1. file.cursors # {}
      BY <1>8, <1>9, Zenon
    <2>2. ~file.flush => stored.content = latest'
      BY <1>1, <1>2, <1>9, ZenonT(30) DEF UpToDate
    <2> QED
      BY <1>1, <1>4, <1>9, <2>1, <2>2, ZenonT(30) DEF UpToDate
  <1>11. \A c \in file.cursors : HasOwner(o, c.fd)
    <2>1. HasOwner(o, cursor.fd)
      BY <1>5, <1>7, Zenon DEF HasOwner
    <2> QED
      BY <1>2, <1>8, <1>9, <2>1, Zenon
  <1>12. task' = [task EXCEPT ![t] = Idle] /\ Idle.pc = "idle"
    BY <1>1, <1>3, Zenon DEF Idle
  <1>13. TasksWrite' /\ FilesWrite'
    BY <1>1, <1>2, <1>9, <1>10, <1>11, <1>12, FileStaysUpToDate, ZenonT(30)
  <1> QED
    BY <1>1, <1>13, MetaStays, Zenon DEF Advances

LEMMA CloseAdvances ==
    ASSUME WritingInv, NEW t \in Tasks, NEW fd \in fds, Close(t, fd)
    PROVE  Advances
  <1> DEFINE still == StillOpened(fd)
             next == [pc |-> "close", obj |-> current, fd |-> fd, still |-> still]
  <1>1. /\ task[t] = Idle /\ task' = [task EXCEPT ![t] = next] /\ fd \in Returned
        /\ fds' = fds \ {fd} /\ current' = IF still THEN current ELSE 0
        /\ UNCHANGED <<stored, objects, running, latest>>
    BY ZenonT(30) DEF Close, Becomes
  <1>2. still <=> fds' # {}
    BY <1>1, ZenonT(30) DEF StillOpened
  <1>3. next.pc = "close" /\ next.obj = current /\ next.fd = fd /\ task[t].pc = "idle"
    <2>1. next.pc = "close" /\ next.obj = current /\ next.fd = fd
      BY Zenon
    <2>2. Idle.pc = "idle"
      BY Zenon DEF Idle
    <2> QED
      BY <1>1, <2>1, <2>2, ZenonT(30)
  <1> HIDE DEF next, still
  <1>4. /\ task'[t] = next /\ \A s \in Tasks : s # t => task'[s] = task[s]
    BY <1>1, WritingFacts, Zenon DEF OpenedTypeOK
  <1>5. TasksWrite'
    <2>1. \A s \in Tasks : task[s].pc = "push" =>
             task[s].obj = current /\ task[s].fd \in fds /\ task[s].fd # fd
      BY <1>1, Zenon DEF WritingInv, TasksWrite, Returned
    <2>2. \A s \in Tasks : task[s].pc = "push" => task[s].obj = current' /\ task[s].fd \in fds'
      BY <1>1, <1>2, <2>1, Zenon
    <2> QED
      BY <1>1, <1>3, <1>4, <2>2, ZenonT(30) DEF WritingInv, TasksWrite, StopSteps
  <1>6. Alive' = Alive
    BY <1>1, Zenon DEF Alive
  <1>7. ASSUME NEW o, NEW f, HasOwner(o, f) PROVE HasOwner(o, f)'
    <2>1. CASE o = current /\ f \in fds /\ f # fd
      <3>1. f \in fds' /\ current' = current
        BY <1>1, <1>2, <2>1, Zenon
      <3> QED
        BY <2>1, <3>1, Zenon DEF HasOwner
    <2>2. CASE o = current /\ f = fd
      BY <1>3, <1>4, <2>2, Zenon DEF HasOwner
    <2>3. CASE \E s \in Tasks : task[s].pc = "close" /\ task[s].obj = o /\ task[s].fd = f
      BY <1>3, <1>4, <2>3, Zenon DEF HasOwner
    <2> QED
      BY <1>7, <2>1, <2>2, <2>3, Zenon DEF HasOwner
  <1>8. FilesWrite'
    BY <1>1, <1>6, <1>7, ZenonT(30) DEF WritingInv, FilesWrite
  <1> QED
    BY <1>1, <1>5, <1>8, MetaStays, Zenon DEF Advances

\* The last task to close the file has nothing left to flush.
LEMMA CloseUnwrapAdvances ==
    ASSUME WritingInv, NEW t \in Tasks, CloseUnwrap(t)
    PROVE  Advances
  <1> DEFINE o == task[t].obj
  <1>1. /\ task[t].pc = "unwrap" /\ HasFile(t) /\ Destroys(t) /\ o = task[t].obj
        /\ References(o) = {t} /\ objects' = [objects EXCEPT ![o].alive = FALSE]
        /\ task' = [task EXCEPT ![t] = Idle]
        /\ UNCHANGED <<stored, fds, current, running, latest>>
    BY Zenon DEF CloseUnwrap, Becomes, HasFile, Destroys, IsUnwrapped
  <1>2. /\ o \in Alive /\ o \in DOMAIN objects /\ UpToDate(objects[o], stored, latest)
        /\ \A c \in objects[o].cursors : HasOwner(o, c.fd)
    BY <1>1, WritersFile, Zenon
  <1>3. o # current
    BY <1>1, WritingFacts, Zenon DEF FilesAreAlive
  <1> HIDE DEF o
  <1>4. objects[o].cursors = {}
    <2>1. \A s \in Tasks : task[s].pc = "close" /\ task[s].obj = o => s \in References(o)
      BY WritingFacts, TaskFields, Zenon DEF References
    <2> QED
      BY <1>1, <1>2, <1>3, <2>1, Zenon DEF HasOwner
  <1>5. stored.content = latest
    BY <1>2, <1>4, Zenon DEF UpToDate
  <1>6. Alive' = {}
    <2>1. \A p \in Alive : p = o
      BY <1>2, WritingFacts, Zenon
    <2>2. objects \in Seq(File) /\ objects[o] \in File
      BY <1>2, WritingFacts DEF OpenedTypeOK
    <2>3. DOMAIN objects' = DOMAIN objects /\ ~objects'[o].alive
      BY <1>1, <1>2, <2>2, Zenon DEF File
    <2>4. \A p \in DOMAIN objects : p # o => objects'[p] = objects[p]
      BY <1>1, <1>2, <2>2, Zenon
    <2> QED
      BY <2>1, <2>3, <2>4, Zenon DEF Alive
  <1>7. /\ task'[t] = Idle /\ Idle.pc = "idle" /\ \A s \in Tasks : s # t => task'[s] = task[s]
    BY <1>1, WritingFacts, Zenon DEF OpenedTypeOK, Idle
  <1>8. TasksWrite'
    BY <1>1, <1>7 DEF WritingInv, TasksWrite, StopSteps
  <1>9. FilesWrite'
    BY <1>1, <1>5, <1>6, Zenon DEF FilesWrite
  <1> QED
    BY <1>1, <1>8, <1>9, MetaStays, Zenon DEF Advances

LEMMA OthersAdvance ==
    ASSUME WritingInv, Move \/ InboundSync
    PROVE  Advances
  <1>1. /\ ~lock /\ task # Panicked /\ UNCHANGED <<fds, current, objects, task, running>>
    BY Zenon DEF Move, InboundSync, MayMerge
  <1>2. OpenedTypeOK /\ OneHolder
    BY <1>1, Zenon DEF WritingInv, OpenedInv
  <1>3. Keepers = Alive
    BY Zenon DEF Keepers, WritingInv, FilesWrite, UpToDate
  <1>4. Openers = {} /\ Alive = {}
    BY <1>1, <1>2, <1>3, Zenon DEF OneHolder, OneOf
  <1>5. stored.content = latest /\ stored \in Contents /\ latest \in Nat
    BY <1>2, <1>4, Zenon DEF WritingInv, FilesWrite, OpenedTypeOK
  <1>6. stored'.content = latest' /\ stored'.meta >= stored.meta
    <2>1. CASE Move
      BY <1>5, <2>1 DEF Move, Contents
    <2>2. CASE InboundSync
      BY <1>5, <2>2 DEF InboundSync, Contents
    <2> QED
      BY <2>1, <2>2, Zenon
  <1>7. Alive' = {}
    BY <1>1, <1>4, Zenon DEF Alive
  <1>8. TasksWrite'
    <2>1. \A s \in Tasks : task[s].pc = "open" => ~task[s].updater
      BY <1>4, Zenon DEF Openers
    <2> QED
      BY <1>1, <2>1, Zenon DEF WritingInv, TasksWrite
  <1>9. FilesWrite'
    BY <1>6, <1>7, Zenon DEF FilesWrite
  <1> QED
    BY <1>6, <1>8, <1>9, Zenon DEF Advances

LEMMA WritingInvInit == OpenedInit => WritingInv
  <1> SUFFICES ASSUME OpenedInit PROVE WritingInv
    BY Zenon
  <1>1. Alive = {} /\ stored.content = latest
    BY DEF OpenedInit, Alive
  <1>2. \A t \in Tasks : task[t].pc = "idle"
    BY Zenon DEF OpenedInit, Idle
  <1> QED
    BY <1>1, <1>2, OpenedInvInit, Zenon DEF OpenedInit, WritingInv, TasksWrite, FilesWrite, StopSteps

LEMMA WritingInvIsInductive ==
    ASSUME OnlyWriters
    PROVE  WritingInv /\ [OpenedNext]_vars => WritingInv' /\ [stored'.meta >= stored.meta]_vars
  <1> SUFFICES ASSUME WritingInv, [OpenedNext]_vars
               PROVE  WritingInv' /\ [stored'.meta >= stored.meta]_vars
    BY Zenon
  <1>1. OpenedInv'
    BY OpenedInvIsInductive, Zenon DEF WritingInv
  <1>2. CASE UNCHANGED vars
    <2>1. UNCHANGED <<stored, fds, current, objects, task, running, latest>>
      BY <1>2, Zenon DEF vars
    <2>2. Alive' = Alive
      BY <2>1, Zenon DEF Alive
    <2>3. TasksWrite'
      BY <2>1, ZenonT(30) DEF WritingInv, TasksWrite
    <2>4. ASSUME NEW o, NEW fd, HasOwner(o, fd) PROVE HasOwner(o, fd)'
      BY <2>1, <2>4, ZenonT(30) DEF HasOwner
    <2>5. FilesWrite'
      BY <2>1, <2>2, <2>4, ZenonT(30) DEF WritingInv, FilesWrite
    <2> QED
      BY <1>1, <1>2, <2>3, <2>5, Zenon DEF WritingInv
  <1>3. ASSUME NEW t \in Tasks, TaskStep(t) PROVE Advances
    <2>1. task[t].pc \notin StopSteps
      BY ZenonT(30) DEF WritingInv, TasksWrite
    <2>2. ~(StopTakes(t) \/ StopFlush(t) \/ StopUnwrap(t) \/ StopStorage(t))
      BY <2>1, ZenonT(30) DEF StopTakes, StopFlush, StopUnwrap, StopStorage, StopSteps
    <2> QED
      BY <1>3, <2>2, TasksAdvance, OpenNewAdvances, OpenExistingAdvances, OpenPushAdvances,
         WriteAdvances, FlushesAdvance, CloseFlushAdvances, CloseUnwrapAdvances, ZenonT(30) DEF TaskStep
  <1>4. ASSUME NEW t \in Tasks, NEW mode \in Modes, Open(t, mode) PROVE Advances
    BY <1>4, TasksAdvance, Zenon
  <1>5. ASSUME NEW t \in Tasks, NEW fd \in fds, Access(t, fd) \/ Close(t, fd) PROVE Advances
    BY <1>5, TasksAdvance, CloseAdvances, Zenon
  <1>6. ASSUME NEW t \in Tasks, Stop(t) PROVE Advances
    BY <1>6, Zenon DEF Stop, OnlyWriters
  <1>7. OpenedNext => Advances
    BY <1>3, <1>4, <1>5, <1>6, OthersAdvance, Zenon DEF OpenedNext
  <1> QED
    BY <1>1, <1>2, <1>7, Zenon DEF Advances, WritingInv

\* When everybody opens the file to write, and nobody stops the storage, everything that was
\* written is stored once the last task has closed the file (`fd_close`), whatever is opened,
\* written and closed at the same time; no flush undoes what was stored in the meantime, and
\* no task panics (`force_reshape_and_flush` always has the updater it expects).
THEOREM WritersLoseNothing ==
    ASSUME OnlyWriters
    PROVE  OpenedSpec => /\ []DataSurvivesClose
                         /\ NothingIsUndone
                         /\ [](\A t \in Tasks : task[t].pc # "panic")
  <1>1. WritingInv => DataSurvivesClose /\ \A t \in Tasks : task[t].pc # "panic"
    BY Zenon DEF WritingInv, FilesWrite, TasksWrite, DataSurvivesClose, StopSteps
  <1> QED
    BY <1>1, WritingInvInit, WritingInvIsInductive, PTL DEF OpenedSpec, NothingIsUndone

=============================================================================
