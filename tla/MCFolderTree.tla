---------------------------- MODULE MCFolderTree ----------------------------
(***************************************************************************)
(* Instances of FolderTree.                                                *)
(***************************************************************************)
EXTENDS FolderTree, SequencesExt, TLC

VARIABLE alone      \* the calls are made one at a time

TaskSymmetry == Permutations(Callers)

Folder(parent, children) == [kind |-> "folder", parent |-> parent, children |-> children]

File(parent) == [kind |-> "file", parent |-> parent, children |-> <<>>]

\* /a, a folder, with the file /a/a in it, and /b, an empty folder.
SmallTree ==
    [id \in {"root", "A", "B", "F"} |->
       CASE id = "root" -> Folder("root", [n \in {"a", "b"} |-> IF n = "a" THEN "A" ELSE "B"])
         [] id = "A"    -> Folder("root", [n \in {"a"} |-> "F"])
         [] id = "B"    -> Folder("root", <<>>)
         [] id = "F"    -> File("A")]

Parents == {<<>>, <<"a">>, <<"b">>}

Creations == [op : {"create"}, kind : {"file", "folder"}, parent : Parents, name : Names]

Removals(expects) == [op : {"remove"}, parent : Parents, name : Names, expect : expects]

\* The moves to a place which is not the one of the entry, nor below it.
Moves(modes, parents) ==
    {c \in [op : {"move"}, parent : parents, name : Names, dst_parent : parents,
            dst_name : Names, mode : modes] :
        ~IsPrefix(Append(c.parent, c.name), c.dst_parent)}

Renames(modes) ==
    [op : {"rename_by_id"}, parent : {"root", "A"}, name : Names, dst_name : Names, mode : modes]

\* The calls that remove or replace files only, and exchange entries of the same folder.
FileCalls ==
    [op : {"create"}, kind : {"file"}, parent : Parents, name : {"b"}]
      \cup [op : {"remove"}, parent : {<<"a">>, <<"b">>}, name : Names, expect : {"File"}]
      \cup Moves({"CanReplaceFileOnly", "NoReplace"}, Parents)
      \cup {c \in Moves({"Exchange"}, Parents) : c.parent = c.dst_parent /\ c.name = "a"}
      \cup {c \in Renames({"NoReplace"}) : c.name = "a" /\ c.dst_name = "b"}

AllCalls ==
    Creations \cup Removals({"Anything", "File", "Folder", "EmptyFolder"})
      \cup {c \in Moves({"CanReplace", "CanReplaceFileOnly", "NoReplace", "Exchange"}, Parents) :
              c.mode = "Exchange" => ~IsPrefix(Append(c.dst_parent, c.dst_name), c.parent)}
      \cup Renames({"CanReplace", "Exchange"})

\* Any calls, one after the other, or calls about files, together.
InstanceNext ==
    /\ UNCHANGED alone
    /\ \E t \in Callers :
          \/ TreeStep(t)
          \/ /\ alone /\ calls < MaxCalls - 1 /\ \A s \in Callers : task[s] = Idle
             /\ \E c \in AllCalls : Call(t, c)
          \/ ~alone /\ \E c \in FileCalls : Call(t, c)

InstanceInit == alone \in BOOLEAN /\ TreeInit

InstanceSpec == InstanceInit /\ [][InstanceNext]_<<treeVars, alone>>

Tree == INSTANCE AbstractTree WITH tree <- view

\* However the calls interleave, the tree changes one whole operation at a time: an entry
\* appears, disappears with what it contains, is moved or exchanged with what it contains,
\* and nothing else changes.
BehavesAsTree == Tree!TreeSpec

\* Other calls that two tasks may make together.
\* /a/a is exchanged with /b while an entry is created in /b.
ExchangeCalls ==
    {[op |-> "move", parent |-> <<"a">>, name |-> "a", dst_parent |-> <<>>, dst_name |-> "b",
      mode |-> "Exchange"],
     [op |-> "create", kind |-> "file", parent |-> <<"b">>, name |-> "a"]}

\* /b is removed as an empty folder while an entry is created in it.
RemovalCalls ==
    {[op |-> "remove", parent |-> <<>>, name |-> "b", expect |-> "EmptyFolder"],
     [op |-> "create", kind |-> "file", parent |-> <<"b">>, name |-> "a"]}

\* /a is moved into itself.
IntoItselfCalls ==
    {[op |-> "move", parent |-> <<>>, name |-> "a", dst_parent |-> <<"a">>, dst_name |-> "b",
      mode |-> "NoReplace"]}

\* The folders /a/a/a and /b/b/b, and two moves: /a/a to /b/b/b/a, /b/b to /a/a/a/b.
DeepTree ==
    LET One(n, id) == [x \in {n} |-> id]
    IN [id \in {"root", "A", "AA", "AAA", "B", "BB", "BBB"} |->
          CASE id = "root" -> Folder("root", [n \in {"a", "b"} |-> IF n = "a" THEN "A" ELSE "B"])
            [] id = "A"   -> Folder("root", One("a", "AA"))
            [] id = "AA"  -> Folder("A", One("a", "AAA"))
            [] id = "AAA" -> Folder("AA", <<>>)
            [] id = "B"   -> Folder("root", One("b", "BB"))
            [] id = "BB"  -> Folder("B", One("b", "BBB"))
            [] id = "BBB" -> Folder("BB", <<>>)]

DeepMoves ==
    {[op |-> "move", parent |-> <<"a">>, name |-> "a", dst_parent |-> <<"b", "b", "b">>,
      dst_name |-> "a", mode |-> "NoReplace"],
     [op |-> "move", parent |-> <<"b">>, name |-> "b", dst_parent |-> <<"a", "a", "a">>,
      dst_name |-> "b", mode |-> "NoReplace"]}

=============================================================================
