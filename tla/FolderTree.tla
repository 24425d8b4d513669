----------------------------- MODULE FolderTree -----------------------------
(***************************************************************************)
(* The tree of a workspace on one device: folder and file manifests, each  *)
(* with its own update lock, and the operations that create, remove, move  *)
(* and exchange entries, run by concurrent tasks.  An operation resolves   *)
(* its paths and takes its locks in one go (or waits for one of them and   *)
(* starts again), checks what it is asked for while it holds them, and     *)
(* writes the manifests it has computed from what it read at the start.    *)
(*                                                                         *)
(* The manifests are all in cache here (ManifestCache is about the misses) *)
(* and no name is confined (FolderManifest is about confinement).          *)
(***************************************************************************)
EXTENDS Naturals, Sequences, FiniteSets, Functions

CONSTANTS Callers,        \* the concurrent callers
          Root,           \* the id of the workspace's root
          Names,          \* the names of the entries
          NewIds,         \* the ids of the entries to create
          InitialTree,    \* the manifests of the initial entries, by id
          Calls,          \* the calls a task may make
          MaxCalls,       \* bound on the number of calls
          NoEntry

IsManifest(m) == m = [kind |-> m.kind, parent |-> m.parent, children |-> m.children]

\* A folder agrees with the children it lists, and each one has one name in it.
Listed(m, id) ==
    /\ \A n \in DOMAIN m[id].children :
          m[id].children[n] \in DOMAIN m /\ m[m[id].children[n]].parent = id
    /\ \A n, p \in DOMAIN m[id].children : m[id].children[n] = m[id].children[p] => n = p

SoundTree(m) ==
    /\ m = [id \in DOMAIN m |-> m[id]]
    /\ \A id \in DOMAIN m : IsManifest(m[id]) /\ Listed(m, id)

ASSUME TreeAssumption ==
    /\ Root \in DOMAIN InitialTree /\ InitialTree[Root].parent = Root
    /\ SoundTree(InitialTree)
    /\ NewIds \cap DOMAIN InitialTree = {}
    /\ NoEntry \notin NewIds \cup DOMAIN InitialTree
    /\ \A c \in Calls : c.op \in {"create", "remove", "move", "rename_by_id"}

VARIABLES manifests,   \* id -> [kind, parent, children]
          locks,       \* id -> the task that holds its update lock
          task,        \* what each task is doing
          view,        \* what the users see of the manifests
          calls        \* number of calls made so far

treeVars == <<manifests, view, locks, task, calls>>

Idle == [pc |-> "idle"]

(***************************************************************************)
(* Path resolution: each child must agree with its parent.                 *)
(***************************************************************************)
ChildIn(m, id, name) ==
    IF /\ id # NoEntry /\ m[id].kind = "folder" /\ name \in DOMAIN m[id].children
       /\ m[m[id].children[name]].parent = id
    THEN m[id].children[name] ELSE NoEntry

ChildOf(id, name) == ChildIn(manifests, id, name)

ResolvePath(path) ==
    LET step[n \in 0 .. Len(path)] == IF n = 0 THEN Root ELSE ChildOf(step[n - 1], path[n])
    IN step[Len(path)]

IsFolder(id) == id # NoEntry /\ manifests[id].kind = "folder"

\* What the users see of the manifests: the entries the root leads to, by path.
ViewOf(m) ==
    LET size == Cardinality(DOMAIN m)
        Pairs[n \in 0 .. size] ==
            IF n = 0 THEN {<<(<<>>), Root>>}
            ELSE {<<Append(pn[1][1], pn[2]), ChildIn(m, pn[1][2], pn[2])>> :
                    pn \in {x \in Pairs[n - 1] \X Names : ChildIn(m, x[1][2], x[2]) # NoEntry}}
        all == UNION {Pairs[n] : n \in 0 .. size}
    IN [path \in {pair[1] : pair \in all} |->
          LET pair == CHOOSE x \in all : x[1] = path
          IN [id |-> pair[2], kind |-> m[pair[2]].kind]]

TreeInit ==
    /\ manifests = InitialTree
    /\ view = ViewOf(InitialTree)
    /\ locks = <<>>
    /\ task = [t \in Callers |-> Idle]
    /\ calls = 0

(***************************************************************************)
(* The entries a call locks, in the order it does: the folder it updates,  *)
(* or, to move an entry to another parent, the destination's parent, the   *)
(* source's parent, the source, and the destination when the two are to be *)
(* exchanged.                                                              *)
(***************************************************************************)
IsReparenting(c) == c.op = "move" /\ c.parent # c.dst_parent

ToLock(c) ==
    IF c.op = "rename_by_id" THEN <<c.parent>>
    ELSE IF ~IsReparenting(c) THEN <<ResolvePath(c.parent)>>
    ELSE LET parent     == ResolvePath(c.parent)
             dst_parent == ResolvePath(c.dst_parent)
         IN <<dst_parent, parent, ChildOf(parent, c.name)>>
              \o (IF c.mode = "Exchange" THEN <<ChildOf(dst_parent, c.dst_name)>> ELSE <<>>)

\* Mutant of Kept: the lock of the entry which is moved is not kept.
KeptOnParents(c, ids) == IF IsReparenting(c) THEN SubSeq(ids, 1, 2) ELSE ids

\* When it returns, the resolution of a reparenting hands over the lock of the destination's
\* parent in the place of the one of the destination, which is released.
Kept(c, ids) == IF IsReparenting(c) THEN SubSeq(ids, 1, 3) ELSE ids

IsTaken(ids, i) == ids[i] \in DOMAIN locks \/ \E j \in 1 .. i - 1 : ids[j] = ids[i]

IsWrong(c, ids, i) == ids[i] \notin DOMAIN manifests \/ (i <= 2 /\ ~IsFolder(ids[i]))

FirstObstacle(c, ids) ==
    LET obstacles == {i \in 1 .. Len(ids) : IsWrong(c, ids, i) \/ IsTaken(ids, i)}
    IN CHOOSE i \in obstacles : \A j \in obstacles : i <= j

Unlocked(t) == [id \in {x \in DOMAIN locks : locks[x] # t} |-> locks[id]]

\* A call returns, an error or not, and whatever it has locked is released.
Return(t) ==
    /\ task' = [task EXCEPT ![t] = Idle]
    /\ locks' = Unlocked(t)

Call(t, c) ==
    /\ task[t] = Idle /\ calls < MaxCalls
    /\ calls' = calls + 1
    /\ task' = [task EXCEPT ![t] = [pc |-> "resolve", call |-> c]]
    /\ UNCHANGED <<manifests, view, locks>>

ResolveAndLock(t) ==
    /\ task[t].pc = "resolve"
    /\ LET c   == task[t].call
           ids == ToLock(c)
           i   == FirstObstacle(c, ids)
           read == [id \in Range(ids) |-> manifests[id]]
       IN IF \A j \in 1 .. Len(ids) : ~IsWrong(c, ids, j) /\ ~IsTaken(ids, j)
          THEN /\ locks' = [id \in DOMAIN locks \cup Range(Kept(c, ids)) |->
                              IF id \in DOMAIN locks THEN locks[id] ELSE t]
               /\ task' = [task EXCEPT ![t] = [pc |-> "check", call |-> c, ids |-> ids,
                                               read |-> read]]
          ELSE IF ids[i] # NoEntry /\ IsTaken(ids, i)
          THEN /\ task' = [task EXCEPT ![t] = [pc |-> "wait", call |-> c, for |-> ids[i]]]
               /\ UNCHANGED locks
          ELSE Return(t)
    /\ UNCHANGED <<manifests, view, calls>>

\* The event of a released lock wakes up all who listen to it.
WakeUp(t) ==
    /\ task[t].pc = "wait"
    /\ task[t].for \notin DOMAIN locks
    /\ task' = [task EXCEPT ![t] = [pc |-> "resolve", call |-> task[t].call]]
    /\ UNCHANGED <<manifests, view, locks, calls>>

(***************************************************************************)
(* What a call requires of the entries it has not locked, read as they are *)
(* now; the children of the locked parents are the ones it read.           *)
(***************************************************************************)
\* `ensure_manifest_exists_with_parent`
ExistingChild(read, parent, name) ==
    IF /\ name \in DOMAIN read[parent].children
       /\ manifests[read[parent].children[name]].parent = parent
    THEN read[parent].children[name] ELSE NoEntry

IsEmptyFolder(id) ==
    \A n \in DOMAIN manifests[id].children : manifests[manifests[id].children[n]].parent # id

IsExpected(id, expect) ==
    CASE expect = "Anything"    -> TRUE
      [] expect = "File"        -> manifests[id].kind = "file"
      [] expect = "Folder"      -> manifests[id].kind = "folder"
      [] expect = "EmptyFolder" -> manifests[id].kind = "folder" /\ IsEmptyFolder(id)

CanTakePlaceOf(dst, mode) ==
    IF dst = NoEntry THEN mode # "Exchange"
    ELSE \/ mode \in {"CanReplace", "Exchange"}
         \/ mode = "CanReplaceFileOnly" /\ manifests[dst].kind = "file"

SrcParent(t) == IF IsReparenting(task[t].call) THEN task[t].ids[2] ELSE task[t].ids[1]

DstParent(t) == task[t].ids[1]

Destination(t) == ExistingChild(task[t].read, DstParent(t), task[t].call.dst_name)

IsAllowed(t) ==
    LET c      == task[t].call
        read   == task[t].read
        parent == SrcParent(t)
    IN CASE c.op = "create" -> ExistingChild(read, parent, c.name) = NoEntry
         [] c.op = "remove" -> /\ c.name \in DOMAIN read[parent].children
                               /\ IsExpected(read[parent].children[c.name], c.expect)
         [] OTHER -> /\ IF IsReparenting(c)
                        THEN TRUE
                        ELSE ExistingChild(read, parent, c.name) # NoEntry
                     /\ CanTakePlaceOf(Destination(t), c.mode)

Check(t) ==
    /\ task[t].pc = "check"
    /\ IF IsAllowed(t)
       THEN /\ task' = [task EXCEPT ![t].pc = "commit"]
            /\ UNCHANGED locks
       ELSE Return(t)
    /\ UNCHANGED <<manifests, view, calls>>

(***************************************************************************)
(* The manifests a call writes.                                            *)
(***************************************************************************)
Evolve(m, data) ==
    LET added == {n \in DOMAIN data : data[n] # NoEntry}
        kept  == DOMAIN m.children \ DOMAIN data
    IN [m EXCEPT !.children = [n \in kept \cup added |->
                                 IF n \in added THEN data[n] ELSE m.children[n]]]

\* The second assertion of `evolve_children_and_mark_updated`.
EvolvePanics(m, data) ==
    \E n \in DOMAIN data, x \in DOMAIN m.children \ DOMAIN data :
       data[n] # NoEntry /\ data[n] = m.children[x]

\* Mutant of Changes: the entry which is renamed also keeps its former name.
ChangesKeepingSource(t, new) ==
    LET c   == task[t].call
        src == SrcParent(t)
    IN [x \in {src, DstParent(t)} |->
          IF c.op = "remove" THEN [n \in {c.name} |-> NoEntry]
          ELSE IF c.op = "create" THEN [n \in {c.name} |-> new]
          ELSE [n \in {c.dst_name} |-> task[t].read[src].children[c.name]]]

\* What the call changes to the children of the folders it updates.
Changes(t, new) ==
    LET c    == task[t].call
        read == task[t].read
        src  == SrcParent(t)
        dst  == DstParent(t)
        back == IF c.op # "create" /\ c.op # "remove" /\ c.mode = "Exchange"
                THEN Destination(t) ELSE NoEntry
    IN CASE c.op = "create" -> [x \in {src} |-> [n \in {c.name} |-> new]]
         [] c.op = "remove" -> [x \in {src} |-> [n \in {c.name} |-> NoEntry]]
         [] OTHER ->
              LET child == read[src].children[c.name]
              IN IF src = dst
                 THEN [x \in {src} |-> [n \in {c.name, c.dst_name} |->
                                          IF n = c.dst_name THEN child ELSE back]]
                 ELSE [x \in {src, dst} |-> IF x = src THEN [n \in {c.name} |-> back]
                                            ELSE [n \in {c.dst_name} |-> child]]

\* Mutant of Written: the entry which is moved keeps its parent.
WrittenWithoutParent(t, new) ==
    LET c       == task[t].call
        read    == task[t].read
        changes == Changes(t, new)
        created == IF c.op = "create" THEN {new} ELSE {}
    IN [x \in DOMAIN changes \cup created |->
          IF x \in created
          THEN [kind |-> c.kind, parent |-> SrcParent(t), children |-> <<>>]
          ELSE Evolve(read[x], changes[x])]

Written(t, new) ==
    LET c       == task[t].call
        read    == task[t].read
        ids     == task[t].ids
        changes == Changes(t, new)
        created == IF c.op = "create" THEN {new} ELSE {}
        moved   == IF IsReparenting(c) THEN {ids[i] : i \in 3 .. Len(ids)} ELSE {}
    IN [x \in DOMAIN changes \cup created \cup moved |->
          CASE x \in created -> [kind |-> c.kind, parent |-> SrcParent(t), children |-> <<>>]
            [] x \in moved   -> [read[x] EXCEPT !.parent = IF x = ids[3] THEN DstParent(t)
                                                           ELSE SrcParent(t)]
            [] OTHER         -> Evolve(read[x], changes[x])]

\* The id of a new entry is a random one: which one does not matter.
NewId == CHOOSE id \in NewIds : id \notin DOMAIN manifests

Commit(t) ==
    /\ task[t].pc = "commit"
    /\ task[t].call.op = "create" => ~(NewIds \subseteq DOMAIN manifests)
    /\ LET written == Written(t, IF task[t].call.op = "create" THEN NewId ELSE NoEntry)
       IN manifests' = [x \in DOMAIN manifests \cup DOMAIN written |->
                          IF x \in DOMAIN written THEN written[x] ELSE manifests[x]]
    /\ view' = ViewOf(manifests')
    /\ Return(t)
    /\ UNCHANGED calls

\* The local storage refuses the write: the cache is left as it was.
CommitFails(t) ==
    /\ task[t].pc = "commit"
    /\ Return(t)
    /\ UNCHANGED <<manifests, view, calls>>

TreeStep(t) == ResolveAndLock(t) \/ WakeUp(t) \/ Check(t) \/ Commit(t) \/ CommitFails(t)

TreeNext == \E t \in Callers : (\E c \in Calls : Call(t, c)) \/ TreeStep(t)

TreeSpec == TreeInit /\ [][TreeNext]_treeVars

\* A task that can run is eventually run by the scheduler.
CommitEnds(t) == task[t].pc = "commit" /\ task' = [task EXCEPT ![t] = Idle]

TreeFairness ==
    \A t \in Callers :
       /\ WF_task(ResolveAndLock(t)) /\ WF_task(WakeUp(t))
       /\ WF_task(Check(t)) /\ WF_task(CommitEnds(t))

FairTree == TreeSpec /\ TreeFairness

(***************************************************************************)
(* Properties                                                              *)
(***************************************************************************)
\* What a task works on is what it has locked, each lock has one holder, which is at work.
TreeTypeOK ==
    /\ \A id \in DOMAIN locks : id \in DOMAIN manifests /\ task[locks[id]].pc \in {"check", "commit"}
    /\ \A t \in Callers : task[t].pc \in {"check", "commit"} =>
          Range(Kept(task[t].call, task[t].ids)) = {id \in DOMAIN locks : locks[id] = t}
    /\ \A id \in DOMAIN manifests : manifests[id].kind = "file" => manifests[id].children = <<>>

\* No update is lost: the manifests a task is about to overwrite are still the ones it has
\* read when it took their locks.
SnapshotsAreCurrent ==
    \A t \in Callers : task[t].pc \in {"check", "commit"} =>
       \A id \in DOMAIN task[t].read : manifests[id] = task[t].read[id]

\* The assertion of `evolve_children_and_mark_updated` holds: no operation gives a second
\* name to an entry.
NoEntryTwice ==
    \A t \in Callers : task[t].pc = "commit" =>
       LET changes == Changes(t, NoEntry)
       IN \A x \in DOMAIN changes : ~EvolvePanics(task[t].read[x], changes[x])

\* Valid manifests form a tree: from parent to parent, each one leads to the root.
ParentsLeadToRoot ==
    \A id \in DOMAIN manifests :
       LET Ancestor[n \in 0 .. Cardinality(DOMAIN manifests)] ==
               IF n = 0 THEN id ELSE manifests[Ancestor[n - 1]].parent
       IN Ancestor[Cardinality(DOMAIN manifests)] = Root

\* A folder which is removed as an empty one is empty when it is.
RemovedFolderIsEmpty ==
    [][\A t \in Callers :
         (/\ task[t].pc = "commit" /\ task'[t] = Idle /\ manifests' # manifests
          /\ task[t].call.op = "remove" /\ task[t].call.expect = "EmptyFolder") =>
            IsEmptyFolder(task[t].read[SrcParent(t)].children[task[t].call.name])]_treeVars

\* Every call ends up returning.
EveryCallReturns == \A t \in Callers : task[t] # Idle ~> task[t] = Idle

=============================================================================
