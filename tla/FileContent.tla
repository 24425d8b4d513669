------------------------------ MODULE FileContent ------------------------------
(***************************************************************************)
(* How a local file manifest represents the bytes of a file, and how the   *)
(* file operations of the client rewrite that representation.              *)
(*                                                                         *)
(* A manifest cuts the file into slots of BlockSize bytes.  A slot is a    *)
(* sequence of chunk views; a view gives bytes start..stop-1 of the file   *)
(* from a chunk holding bytes raw_offset..raw_offset+raw_size-1.  Bytes no *)
(* view covers are zero.  Offsets count from 0, TLA+ sequences from 1.     *)
(*                                                                         *)
(* A block access repeats the id, offset and size of its chunk, so a view  *)
(* only records whether it has one.                                        *)
(***************************************************************************)
EXTENDS Naturals, Sequences, FiniteSets, SequencesExt

CONSTANT BlockSize

ASSUME BlockSizeAssumption == BlockSize \in Nat \ {0}

Zeros(n) == [i \in 1..n |-> 0]

DivCeil(a, b) == (a + b - 1) \div b

Ids(views) == {views[i].id : i \in DOMAIN views}

AllIds(blocks) == UNION {Ids(blocks[k]) : k \in DOMAIN blocks}

--------------------------------------------------------------------------------
(* Chunk views *)

NewView(id, start, stop) ==
    [id |-> id, start |-> start, stop |-> stop,
     raw_offset |-> start, raw_size |-> stop - start, access |-> FALSE]

ViewOfAccess(a) ==
    [id |-> a.id, start |-> a.offset, stop |-> a.offset + a.size,
     raw_offset |-> a.offset, raw_size |-> a.size, access |-> TRUE]

AccessOf(v) == [id |-> v.id, offset |-> v.raw_offset, size |-> v.raw_size]

IsAligned(v) == v.start = v.raw_offset /\ v.stop = v.raw_offset + v.raw_size

IsBlock(v) == v.access /\ IsAligned(v)

ViewIntegrity(v) ==
    v.raw_offset <= v.start /\ v.start < v.stop /\ v.stop <= v.raw_offset + v.raw_size

(* A mutant: the gap before the view is not padded. *)
CopyIntoUnpadded(buf, v, data, offset) ==
    buf \o SubSeq(data, v.start - v.raw_offset + 1, v.stop - v.raw_offset)

(* Append to `buf`, which starts at `offset`, the bytes of a view. *)
CopyInto(buf, v, data, offset) ==
    LET at == v.start - offset IN
    (IF at > Len(buf) THEN buf \o Zeros(at - Len(buf)) ELSE buf)
        \o SubSeq(data, v.start - v.raw_offset + 1, v.stop - v.raw_offset)

(* The bytes from `start` on that the views give, data[id] being the chunk id. *)
Assemble(views, start, data) ==
    FoldLeft(LAMBDA buf, v : CopyInto(buf, v, data[v.id], start), <<>>, views)

--------------------------------------------------------------------------------
(* Reading *)

(* What binary_search_by_key(key, start) gives on views sorted by start: the   *)
(* index of the view starting at key, or the one where it would be inserted.   *)
Position(views, key) == Cardinality({i \in DOMAIN views : views[i].start < key})

StartIndex(views, start) ==
    LET pos == Position(views, start) IN
    IF \E i \in DOMAIN views : views[i].start = start THEN pos
    ELSE IF pos = 0 THEN 0 ELSE pos - 1

StopIndex(views, stop) == Position(views, stop)

BlockRead(views, start, stop) ==
    LET slice == SubSeq(views, StartIndex(views, start) + 1, StopIndex(views, stop))
        hit == SelectSeq(slice, LAMBDA v : v.start < stop /\ v.stop > start)
    IN [i \in DOMAIN hit |->
           [hit[i] EXCEPT !.start = Max({@, start}), !.stop = Min({@, stop})]]

(* The slots that bytes offset..offset+size-1 touch, as 0-based indexes. *)
Slots(offset, size) == (offset \div BlockSize)..(DivCeil(offset + size, BlockSize) - 1)

SubStart(slot, offset) == Max({offset, slot * BlockSize})

SubStop(slot, offset, size) == Min({offset + size, (slot + 1) * BlockSize})

PrepareRead(m, size, offset) ==
    LET from == Min({offset, m.size})
        count == Min({size, m.size - from})
        first == from \div BlockSize
        slots == Slots(from, count)
        part(slot) == IF slot < Len(m.blocks) /\ m.blocks[slot + 1] # <<>>
                      THEN BlockRead(m.blocks[slot + 1], SubStart(slot, from),
                                     SubStop(slot, from, count))
                      ELSE <<>>
    IN [size |-> count,
        views |-> FlattenSeq([i \in 1..Cardinality(slots) |-> part(first + i - 1)])]

--------------------------------------------------------------------------------
(* Writing and resizing *)

(* A mutant: the bytes of the last overlapped view beyond the write are lost. *)
RemainderLost(views, to, stop) == <<>>

(* What remains, after the written range, of the last view it overlaps. *)
Remainder(views, to, stop) ==
    IF to > 0 /\ views[to].stop > stop THEN <<[views[to] EXCEPT !.start = stop]>> ELSE <<>>

(* The views once bytes start..stop-1 come from `new`, and the chunks no view *)
(* of the slot uses any more.                                                 *)
BlockWrite(views, start, stop, new) ==
    LET from == StartIndex(views, start)
        to == StopIndex(views, stop)
        head == IF views[from + 1].start < start
                THEN <<[views[from + 1] EXCEPT !.stop = Min({@, start})]>> ELSE <<>>
        result == SubSeq(views, 1, from) \o head \o <<new>> \o Remainder(views, to, stop)
                      \o SubSeq(views, to + 1, Len(views))
    IN IF views = <<>> THEN [views |-> <<new>>, removed |-> {}]
       ELSE [views |-> result, removed |-> Ids(SubSeq(views, from + 1, to)) \ Ids(result)]

(* ids[i] is the identifier of the new chunk of the i-th slot written. *)
PrepareWrite(m, size, offset, ids) ==
    LET slots == Slots(offset, size)
        first == offset \div BlockSize
        old(slot) == IF slot < Len(m.blocks) THEN m.blocks[slot + 1] ELSE <<>>
        view(slot) == NewView(ids[slot - first + 1], SubStart(slot, offset),
                              SubStop(slot, offset, size))
        written(slot) == BlockWrite(old(slot), SubStart(slot, offset),
                                    SubStop(slot, offset, size), view(slot))
    IN [manifest |-> [m EXCEPT
            !.blocks = [k \in 1..Max({Len(m.blocks), Max(slots) + 1}) |->
                           IF k - 1 \in slots THEN written(k - 1).views ELSE old(k - 1)],
            !.size = Max({@, offset + size}),
            !.need_sync = TRUE],
        writes |-> [i \in 1..Cardinality(slots) |-> view(first + i - 1)],
        removed |-> UNION {written(slot).removed : slot \in slots}]

DropTrailingHoles(blocks) ==
    SubSeq(blocks, 1, Max({0} \cup {k \in DOMAIN blocks : blocks[k] # <<>>}))

PrepareTruncate(m, size) ==
    LET slot == size \div BlockSize
        views == IF slot < Len(m.blocks) THEN m.blocks[slot + 1] ELSE <<>>
        kept == SubSeq(views, 1, Position(views, size))
        cut == [i \in DOMAIN kept |->
                   IF i = Len(kept) THEN [kept[i] EXCEPT !.stop = Min({@, size})] ELSE kept[i]]
        before == SubSeq(m.blocks, 1, Min({slot, Len(m.blocks)}))
    IN [manifest |-> [m EXCEPT
            !.blocks = IF kept = <<>> THEN DropTrailingHoles(before) ELSE Append(before, cut),
            !.size = size,
            !.need_sync = TRUE],
        removed |-> AllIds(SubSeq(m.blocks, slot + 1, Len(m.blocks))) \ Ids(cut)]

PrepareResize(m, size) ==
    IF size >= m.size
    THEN [manifest |-> [m EXCEPT !.size = size, !.need_sync = TRUE], removed |-> {}]
    ELSE PrepareTruncate(m, size)

--------------------------------------------------------------------------------
(* Reshaping: a slot becomes a single view backed by one block. *)

IsReshaped(views) == views = <<>> \/ (Len(views) = 1 /\ IsBlock(views[1]))

ToPromote(views) == ~IsReshaped(views) /\ Len(views) = 1 /\ IsAligned(views[1])

ToReshape(views) == ~IsReshaped(views) /\ ~ToPromote(views)

(* The view a slot is replaced with: its own one, now with an access, or a new *)
(* one over the whole range of the slot.                                       *)
Destination(views, id) ==
    IF ToPromote(views) THEN views[1]
    ELSE NewView(id, views[1].start, views[Len(views)].stop)

Commit(views, id) == <<[Destination(views, id) EXCEPT !.access = TRUE]>>

(* A mutant: the chunks a slot was made of stay in the storage. *)
CleanupNothing(views) == {}

CleanupIds(views) == IF ToReshape(views) THEN Ids(views) ELSE {}

--------------------------------------------------------------------------------
(* Remote manifests *)

Integrity(m) ==
    LET views == FlattenSeq(m.blocks) IN
    /\ \A k \in DOMAIN m.blocks : \A i \in DOMAIN m.blocks[k] :
          LET v == m.blocks[k][i] IN
          /\ ViewIntegrity(v)
          /\ v.start >= (k - 1) * BlockSize /\ v.stop <= k * BlockSize
    /\ \A i \in 1..(Len(views) - 1) : views[i].stop <= views[i + 1].start
    /\ m.blocks # <<>> => m.blocks[Len(m.blocks)] # <<>>
    /\ views # <<>> => views[Len(views)].stop <= m.size

ToRemote(m) ==
    LET slots == SelectSeq(m.blocks, LAMBDA views : views # <<>>) IN
    [version |-> m.base.version + 1, size |-> m.size,
     blocks |-> [i \in DOMAIN slots |-> AccessOf(slots[i][1])]]

(* LocalFileManifest::from_remote: the slots are rebuilt from the offsets. *)
BlocksOfRemote(remote) ==
    LET slot(a) == a.offset \div BlockSize
        count == Max({0} \cup {slot(remote.blocks[i]) + 1 : i \in DOMAIN remote.blocks})
    IN [k \in 1..count |->
           LET here == SelectSeq(remote.blocks, LAMBDA a : slot(a) = k - 1)
           IN [i \in DOMAIN here |-> ViewOfAccess(here[i])]]

FromRemote(remote) ==
    [size |-> remote.size, blocks |-> BlocksOfRemote(remote), need_sync |-> FALSE, base |-> remote]

(* Does the content of a local manifest differ from its base?  The non-empty    *)
(* slots are compared, in order, with the blocks of the base; holes, and blocks *)
(* of the base that remain at the end, are not looked at.                       *)
HasFileContentChanged(m) ==
    LET slots == SelectSeq(m.blocks, LAMBDA views : views # <<>>) IN
    \/ m.size # m.base.size
    \/ \E i \in DOMAIN slots :
          \/ Len(slots[i]) > 1
          \/ ~IsBlock(slots[i][1])
          \/ i > Len(m.base.blocks)
          \/ AccessOf(slots[i][1]) # m.base.blocks[i]

================================================================================
