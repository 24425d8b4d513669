--------------------------- MODULE FolderManifest ---------------------------
(***************************************************************************)
(* The folder manifest of libparsec as a data type: what an edition does   *)
(* to the children of a folder, how the entries whose name matches the     *)
(* "prevent sync" pattern are kept apart (confinement), and how the local  *)
(* manifest is merged with a newer version coming from the server.         *)
(*                                                                         *)
(* A name is a non-empty sequence: its first element is the name the user  *)
(* typed, each further element a suffix "(Parsec - name conflict k)" added *)
(* by a merge.  A suffix goes before the extension of the name, hence a    *)
(* pattern (a set of first elements) matches a name with or without them.  *)
(* The children of a folder are a function from names to entry ids.  The   *)
(* dates of the manifests play no role in what follows and are left out.   *)
(***************************************************************************)
EXTENDS Naturals, Sequences, FiniteSets, SequencesExt

CONSTANT NoEntry    \* the `None` of an `Option<VlobID>`

NoChildren == [n \in {} |-> NoEntry]

IsMatch(pattern, name) == name[1] \in pattern

Without(children, names) == [n \in DOMAIN children \ names |-> children[n]]

NamesOf(children, id) == {n \in DOMAIN children : children[n] = id}

(***************************************************************************)
(* Creation of a manifest: a new folder, the root of a workspace (a        *)
(* speculative one stands for a root that exists on the server but has not *)
(* been fetched yet), a version received from the server.                  *)
(***************************************************************************)
NewFolder(author, parent, speculative) ==
    [base        |-> [version |-> 0, author |-> author, parent |-> parent,
                      children |-> NoChildren],
     parent      |-> parent,
     need_sync   |-> TRUE,
     children    |-> NoChildren,
     local_confinement_points  |-> {},
     remote_confinement_points |-> {},
     speculative |-> speculative]

UnconfinedFromRemote(remote) ==
    [base |-> remote, parent |-> remote.parent, need_sync |-> FALSE,
     children |-> remote.children, speculative |-> FALSE]

(***************************************************************************)
(* `evolve_children_and_mark_updated`: `data` maps each name to the entry  *)
(* it must now refer to, or to NoEntry to remove it.  The function panics  *)
(* when it is asked to remove a name which is not there, or when an entry  *)
(* would end up with two names.                                            *)
(***************************************************************************)
EvolvePanics(m, data) ==
    \/ \E n \in DOMAIN data \ DOMAIN m.children : data[n] = NoEntry
    \/ \E n \in DOMAIN data :
          data[n] # NoEntry /\ data[n] \in Range(Without(m.children, DOMAIN data))

\* Mutant of Evolve: an entry that gets another name stays a confinement point.
EvolveKeepingPoints(m, data, pattern) ==
    LET kept  == DOMAIN m.children \ DOMAIN data
        added == {n \in DOMAIN data : data[n] # NoEntry}
    IN [m EXCEPT
          !.children = [n \in kept \cup added |->
                          IF n \in added THEN data[n] ELSE m.children[n]],
          !.local_confinement_points =
              @ \cup {data[n] : n \in {x \in added : IsMatch(pattern, x)}},
          !.need_sync = TRUE]

Evolve(m, data, pattern) ==
    LET removed == DOMAIN data \cap DOMAIN m.children
        added   == {n \in DOMAIN data : data[n] # NoEntry}
        kept    == DOMAIN m.children \ removed
        updated == \/ \E n \in removed : m.children[n] \notin m.local_confinement_points
                   \/ \E n \in added : ~IsMatch(pattern, n)
    IN [m EXCEPT
          !.children = [n \in kept \cup added |->
                          IF n \in added THEN data[n] ELSE m.children[n]],
          !.local_confinement_points =
              (@ \ {m.children[n] : n \in removed})
                \cup {data[n] : n \in {x \in added : IsMatch(pattern, x)}},
          !.need_sync = @ \/ updated]

(***************************************************************************)
(* Confinement.  The local confinement points are the entries that exist   *)
(* only here, the remote ones are the entries of the base that are hidden  *)
(* here; an upload must contain none of the former and all of the latter.  *)
(***************************************************************************)
FromRemote(remote, pattern) ==
    LET hidden == {n \in DOMAIN remote.children : IsMatch(pattern, n)}
    IN [base |-> remote, parent |-> remote.parent, need_sync |-> FALSE,
        children |-> Without(remote.children, hidden),
        local_confinement_points  |-> {},
        remote_confinement_points |-> {remote.children[n] : n \in hidden},
        speculative |-> FALSE]

RemoveConfinement(m) ==
    LET shared   == {n \in DOMAIN m.children :
                       m.children[n] \notin m.local_confinement_points}
        ids      == {m.children[n] : n \in shared}
        restored == {n \in DOMAIN m.base.children :
                       /\ m.base.children[n] \in m.remote_confinement_points
                       /\ m.base.children[n] \notin ids}
    IN [base |-> m.base, parent |-> m.parent, need_sync |-> m.need_sync,
        children |-> [n \in shared \cup restored |->
                        IF n \in restored THEN m.base.children[n] ELSE m.children[n]],
        speculative |-> m.speculative]

\* The confinement points of the new manifest, before the entries that were confined
\* in the existing one are restored.
Confined(u, pattern) ==
    LET hidden   == {n \in DOMAIN u.base.children : IsMatch(pattern, n)}
        children == Without(u.children, {n \in hidden \cap DOMAIN u.children :
                                           u.children[n] = u.base.children[n]})
    IN [base |-> u.base, parent |-> u.parent, need_sync |-> u.need_sync,
        children |-> children,
        local_confinement_points  |->
            {children[n] : n \in {x \in DOMAIN children : IsMatch(pattern, x)}},
        remote_confinement_points |-> {u.base.children[n] : n \in hidden},
        speculative |-> u.speculative]

\* Mutant of Restorations: a confined entry is restored without looking for the name it
\* has in the new manifest.
RestorationsWithoutRename(new, existing, pattern) ==
    {[n \in {x \in DOMAIN existing.children :
               existing.children[x] \in existing.local_confinement_points} |->
         existing.children[n]]}

\* What the loop over the existing children asks `evolve_children_and_mark_updated` to
\* do.  A name may be asked both to disappear (its entry is back under another name)
\* and to be used again: the last one met in the hash map wins.
Restorations(new, existing, pattern) ==
    LET renamed == {n \in DOMAIN existing.children :
                      /\ existing.children[n] \in existing.local_confinement_points
                      /\ n \notin NamesOf(new.children, existing.children[n])}
        hidden  == {n \in DOMAIN existing.children \ renamed :
                      /\ NamesOf(new.children, existing.children[n]) = {}
                      /\ existing.children[n] \in new.remote_confinement_points
                      /\ IsMatch(pattern, n)}
        back    == renamed \cup hidden
        freed   == UNION {NamesOf(new.children, existing.children[n]) : n \in renamed}
    IN {[n \in back \cup freed |->
           IF n \in back \ lost THEN existing.children[n] ELSE NoEntry] :
            lost \in SUBSET (back \cap freed)}

\* `apply_confinement`, as the set of its possible results.
ApplyConfinement(u, existing, pattern) ==
    LET new == Confined(u, pattern)
    IN {Evolve(new, data, pattern) : data \in Restorations(new, existing, pattern)}

ApplyConfinementPanics(u, existing, pattern) ==
    LET new == Confined(u, pattern)
    IN \E data \in Restorations(new, existing, pattern) : EvolvePanics(new, data)

ApplyPreventSyncPattern(m, pattern) == ApplyConfinement(RemoveConfinement(m), m, pattern)


FolderToRemote(m, author) ==
    LET u == RemoveConfinement(m)
    IN [version |-> u.base.version + 1, author |-> author, parent |-> u.parent,
        children |-> u.children]

(***************************************************************************)
(* Merge of the children.  `Verdict` is the match of `merge_children` on   *)
(* what became of an entry in the base, here and on the server: the names  *)
(* it gets through the remote table, which are taken as they are, and the  *)
(* names it gets through the local table, which give way to the former.    *)
(***************************************************************************)
RemoteVerdict(base, local, remote) ==
    IF local = remote \/ local = {} THEN IF base = remote THEN local ELSE remote
    ELSE IF remote = {} THEN IF base = {} \/ base = local THEN {} ELSE local
    ELSE IF base = remote THEN {} ELSE remote

LocalVerdict(base, local, remote) ==
    IF local = remote \/ local = {} THEN {}
    ELSE IF remote = {} THEN IF base = {} THEN local ELSE {}
    ELSE IF base = remote THEN local ELSE {}

\* Every way to give each name one of the entries that claim it: two entries inserted
\* in the same hash map under one name, the last one stays.
Tables(claims) ==
    {f \in [{c[1] : c \in claims} -> {c[2] : c \in claims}] :
        \A n \in DOMAIN f : <<n, f[n]>> \in claims}

\* Mutant of ConflictName: the name is kept although it is taken.
ConflictNameUnchanged(name, count, reserved) == name

\* `get_conflict_filename`: the first suffix that makes a name nobody has.
RECURSIVE ConflictName(_, _, _)
ConflictName(name, count, reserved) ==
    IF Append(name, count) \in reserved
    THEN ConflictName(name, count + 1, reserved)
    ELSE Append(name, count)

\* The loop over the local table, in the order given by `names`.
RECURSIVE AddLocal(_, _, _)
AddLocal(children, names, table) ==
    IF names = <<>> THEN children
    ELSE LET n == Head(names)
             c == IF n \in DOMAIN children THEN ConflictName(n, 1, DOMAIN children) ELSE n
         IN AddLocal([x \in DOMAIN children \cup {c} |->
                        IF x = c THEN table[n] ELSE children[x]],
                     Tail(names), table)

MergeChildren(base, local, remote) ==
    LET ids == {local[n] : n \in DOMAIN local} \cup {remote[n] : n \in DOMAIN remote}
        Claims(Verdict(_, _, _)) ==
            UNION {{<<n, id>> : n \in Verdict(NamesOf(base, id), NamesOf(local, id),
                                              NamesOf(remote, id))} : id \in ids}
    IN UNION {{AddLocal(r, order, l) : order \in SetToSeqs(DOMAIN l)} :
                 r \in Tables(Claims(RemoteVerdict)), l \in Tables(Claims(LocalVerdict))}

MergeParent(base, local, remote) == IF remote = base THEN local ELSE remote

(***************************************************************************)
(* `merge_local_folder_manifest`: the manifests it may come to before the  *)
(* confinement is applied again (none when the outcome is NoChange), and   *)
(* its possible results.                                                   *)
(***************************************************************************)
\* Mutant of MergeUnconfined: what the merge adds to the remote is not to be uploaded.
MergeUnconfinedForgotten(author, local, remote) ==
    LET here   == RemoveConfinement(local)
        new    == UnconfinedFromRemote(remote)
        parent == MergeParent(here.base.parent, here.parent, new.parent)
    IN IF remote.version <= local.base.version THEN {}
       ELSE {[new EXCEPT !.children = children, !.parent = parent] :
                children \in MergeChildren(here.base.children, here.children, new.children)}

MergeUnconfined(author, local, remote) ==
    LET here   == RemoveConfinement(local)
        new    == UnconfinedFromRemote(remote)
        parent == MergeParent(here.base.parent, here.parent, new.parent)
    IN IF remote.version <= local.base.version THEN {}
       ELSE IF ~here.need_sync THEN {new}
       ELSE IF remote.author = author /\ ~local.speculative THEN {[here EXCEPT !.base = remote]}
       ELSE {[new EXCEPT !.children = children, !.parent = parent,
                 !.need_sync = children # new.children \/ parent # new.parent] :
                children \in MergeChildren(here.base.children, here.children, new.children)}

MergeFolder(author, pattern, local, remote) ==
    UNION {ApplyConfinement(u, local, pattern) : u \in MergeUnconfined(author, local, remote)}

=============================================================================
