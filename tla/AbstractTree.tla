---------------------------- MODULE AbstractTree ----------------------------
(***************************************************************************)
(* What the users of a workspace see of its tree: a map from paths to      *)
(* entries, the root being the empty path.  Each operation is atomic.      *)
(***************************************************************************)
EXTENDS Naturals, Sequences, SequencesExt

VARIABLE tree

\* The paths at or below `p`.
Below(p) == {x \in DOMAIN tree : IsPrefix(p, x)}

Moved(x, p, q) == q \o SubSeq(x, Len(p) + 1, Len(x))

IsFolder(p) == p \in DOMAIN tree /\ tree[p].kind = "folder"

CreateAt(p, e) ==
    /\ p \notin DOMAIN tree /\ p # <<>> /\ IsFolder(Front(p))
    /\ \A x \in DOMAIN tree : tree[x].id # e.id
    /\ tree' = [x \in DOMAIN tree \cup {p} |-> IF x = p THEN e ELSE tree[x]]

DropAt(p) ==
    /\ p \in DOMAIN tree /\ p # <<>>
    /\ tree' = [x \in DOMAIN tree \ Below(p) |-> tree[x]]

\* What is below `p` goes to `q`, in the place of what was there.
MoveTo(p, q) ==
    /\ p \in DOMAIN tree /\ ~IsPrefix(p, q)
    /\ q # <<>> /\ IsFolder(Front(q))
    /\ LET others == DOMAIN tree \ (Below(p) \cup Below(q))
           moved  == {Moved(x, p, q) : x \in Below(p)}
       IN tree' = [x \in others \cup moved |->
                     IF x \in moved THEN tree[Moved(x, q, p)] ELSE tree[x]]

ExchangeAt(p, q) ==
    /\ {p, q} \subseteq DOMAIN tree /\ ~IsPrefix(p, q) /\ ~IsPrefix(q, p)
    /\ LET others == DOMAIN tree \ (Below(p) \cup Below(q))
           here   == {Moved(x, q, p) : x \in Below(q)}
           there  == {Moved(x, p, q) : x \in Below(p)}
       IN tree' = [x \in others \cup here \cup there |->
                     IF x \in here THEN tree[Moved(x, p, q)]
                     ELSE IF x \in there THEN tree[Moved(x, q, p)] ELSE tree[x]]

TreeInit == <<>> \in DOMAIN tree

TreeNext ==
    LET before == DOMAIN tree
        after  == DOMAIN tree'
    IN \/ \E p \in after \ before : CreateAt(p, tree'[p])
       \/ \E p \in before \ after : DropAt(p)
       \/ \E p \in before, q \in after : MoveTo(p, q)
       \/ \E p, q \in before : ExchangeAt(p, q)

TreeSpec == TreeInit /\ [][TreeNext]_tree

=============================================================================
