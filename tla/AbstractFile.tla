------------------------------ MODULE AbstractFile -----------------------------
(***************************************************************************)
(* What the client promises of the content of one file: an array of bytes  *)
(* that only its writes and resizes change, and that a stop of the process *)
(* takes back at most to what the last flush saved.                        *)
(***************************************************************************)
EXTENDS Naturals, Sequences

CONSTANTS
    Payloads,  \* what a write may write: sequences of bytes
    MaxSize    \* bound on the size of the file

VARIABLES
    content,   \* the bytes a reader sees
    durable,   \* the bytes found again after a crash
    edits,     \* how many changes the user made
    crashes    \* how many times the process stopped

abstractVars == <<content, durable, edits, crashes>>

AbstractInit == content = <<>> /\ durable = <<>> /\ edits = 0 /\ crashes = 0

Byte(bytes, p) == IF p \in DOMAIN bytes THEN bytes[p] ELSE 0

Written(bytes, offset, data) ==
    [p \in 1..(IF offset + Len(data) > Len(bytes) THEN offset + Len(data) ELSE Len(bytes)) |->
        IF p > offset /\ p <= offset + Len(data) THEN data[p - offset] ELSE Byte(bytes, p)]

Resized(bytes, length) == [p \in 1..length |-> Byte(bytes, p)]

Changed(before, after) ==
    \/ \E data \in Payloads : \E offset \in 0..(MaxSize - Len(data)) :
          after = Written(before, offset, data)
    \/ \E length \in 0..MaxSize : after = Resized(before, length)

(* A write or a resize; it may be flushed at once or kept in memory. *)
Change ==
    /\ edits' = edits + 1 /\ crashes' = crashes
    /\ durable' \in {durable, content'}
    /\ Changed(content, content')

Flush == UNCHANGED <<content, edits, crashes>> /\ durable' = content

Crash == crashes' = crashes + 1 /\ content' = durable /\ UNCHANGED <<durable, edits>>

AbstractNext == Flush \/ Crash \/ Change

AbstractSpec == AbstractInit /\ [][AbstractNext]_abstractVars

================================================================================
